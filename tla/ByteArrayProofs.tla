--------------------------- MODULE ByteArrayProofs ---------------------------
(***************************************************************************)
(* Theorems about ByteArray, for blocks of any size, any bytes, any number    *)
(* of them, and any integers of any width.                                    *)
(***************************************************************************)
EXTENDS ByteArray, WellFoundedInduction, TLAPS

-----------------------------------------------------------------------------
(* Arithmetic.                                                              *)

\* A set of numbers has a least one.
LEMMA LeastNumber ==
  ASSUME NEW S, S \subseteq Nat, S # {}
  PROVE  \E x \in S : \A y \in S : x <= y
<1>1. PICK x \in S : \A y \in S : ~ (<<y, x>> \in OpToRel(<, Nat))
  BY NatLessThanWellFounded, WFMin
<1>2. \A y \in S : ~ (y < x)
  BY <1>1 DEF OpToRel
<1>. QED  BY <1>2

\* A number is made of its quotient and its remainder.
LEMMA Division ==
  ASSUME NEW a \in Int, NEW b \in Nat \ {0}
  PROVE  /\ a \div b \in Int /\ a % b \in 0..(b - 1)
         /\ a = b * (a \div b) + (a % b)
OBVIOUS

\* And in one way only.
LEMMA DivisionUnique ==
  ASSUME NEW b \in Nat \ {0}, NEW q \in Int, NEW r \in 0..(b - 1)
  PROVE  (b * q + r) \div b = q /\ (b * q + r) % b = r
OBVIOUS

\* Whole blocks.
LEMMA Multiple ==
  ASSUME NEW a \in Int, NEW b \in Nat \ {0}
  PROVE  a % b = 0 <=> \E k \in Int : a = b * k
<1>1. ASSUME NEW k \in Int PROVE (b * k) % b = 0
  <2>1. b * k + 0 = b * k /\ 0 \in 0..(b - 1)
    OBVIOUS
  <2>. QED  BY <2>1, DivisionUnique
<1>2. a % b = 0 => a = b * (a \div b) /\ a \div b \in Int
  BY Division
<1>. QED  BY <1>1, <1>2

\* A number is in an earlier block than a whole number of blocks above it.
LEMMA EarlierBlock ==
  ASSUME NEW a \in Nat, NEW c \in Nat, NEW b \in Nat \ {0}, c % b = 0, a < c
  PROVE  /\ a \div b \in Nat /\ a \div b + 1 <= c \div b
         /\ b * (a \div b + 1) <= c
<1>1. PICK q \in Int, r \in 0..(b - 1) : a = b * q + r /\ q = a \div b
  BY Division
<1>2. PICK k \in Int : c = b * k /\ k = c \div b
  BY Division
<1>3. q < k
  <2>1. ASSUME q >= k PROVE FALSE
    <3>1. b * q >= b * k
      BY <2>1
    <3>. QED  BY <1>1, <1>2, <3>1
  <2>. QED  BY <2>1
<1>4. q >= 0
  <2>1. ASSUME q <= -1 PROVE FALSE
    <3>1. b * q <= -b
      BY <2>1
    <3>. QED  BY <1>1, <3>1
  <2>. QED  BY <2>1
<1>5. b * (q + 1) <= b * k
  BY <1>3
<1>. QED  BY <1>1, <1>2, <1>3, <1>4, <1>5

-----------------------------------------------------------------------------
(* Blocks.                                                                  *)

Array == [base : Nat \ {0}, cells : Seq(Int), cur : Nat, position : Nat, size : Nat,
          status : {"works", "null", "out_of_range"}]

\* m_position <= m_size <= m_capacity, which is a number of whole blocks and at
\* least one, and m_cur is the block of m_position.
Placed(s) ==
  /\ s.position <= s.size /\ s.size <= Capacity(s)
  /\ Capacity(s) % s.base = 0 /\ s.base <= Capacity(s)
  /\ s.cur = IF s.position = Capacity(s) THEN Null ELSE s.position \div s.base + 1

Good(s) == s \in Array /\ Works(s) /\ Placed(s)

\* The types of the fields.
LEMMA Fields ==
  ASSUME NEW s \in Array
  PROVE  /\ s.base \in Nat \ {0} /\ s.cells \in Seq(Int) /\ s.cur \in Nat
         /\ s.position \in Nat /\ s.size \in Nat
         /\ s.status \in {"works", "null", "out_of_range"}
         /\ Capacity(s) \in Nat /\ s.cells \in [1..Capacity(s) -> Int]
BY DEF Array, Capacity

\* The cell m_cur and m_position % m_baseSize lead to is the one at m_position.
LEMMA AtPosition ==
  ASSUME NEW s, Good(s), NEW p \in Nat, p < Capacity(s)
  PROVE  /\ At(s, p \div s.base + 1, p) = p
         /\ BlockAfter(s, p) = p \div s.base + 1
         /\ p \div s.base + 1 \in Nat \ {0}
<1>1. s.base \in Nat \ {0} /\ Capacity(s) \in Nat /\ Capacity(s) % s.base = 0
  BY Fields DEF Good, Placed
<1>2. p \div s.base \in Nat
  BY <1>1, EarlierBlock
<1>3. p = s.base * (p \div s.base) + (p % s.base)
  <2>1. p \in Int
    OBVIOUS
  <2>. QED  BY <1>1, <2>1, Division, Zenon
<1>4. ((p \div s.base + 1) - 1) * s.base = s.base * (p \div s.base)
  BY <1>1, <1>2
<1>. QED  BY <1>2, <1>3, <1>4 DEF At, BlockAfter

\* The number of blocks addCapacity adds is enough, unless the rest of the division
\* is not zero and not more than the capacity that is left.
LEMMA EnoughBlocks ==
  ASSUME NEW base \in Nat \ {0}, NEW old \in Nat, NEW n \in Nat, n > old,
         NEW count, count = (n - old) \div base + (IF (n - old) % base > old THEN 1 ELSE 0)
  PROVE  /\ count \in Nat /\ count * base \in Nat /\ (count * base) % base = 0
         /\ old = 0 => count * base > 0
         /\ old + count * base < n <=> (n - old) % base \in 1..old
<1>1. PICK q \in Int, r \in 0..(base - 1) :
         q = (n - old) \div base /\ r = (n - old) % base /\ n - old = base * q + r
  <2>1. n - old \in Int
    OBVIOUS
  <2>. QED  BY <2>1, Division, Zenon
<1>2. q >= 0
  <2>1. ASSUME q <= -1 PROVE FALSE
    <3>1. base * q <= -base
      BY <2>1
    <3>. QED  BY <1>1, <3>1
  <2>. QED  BY <2>1
<1>3. count \in Nat
  BY <1>1, <1>2
<1>4. count * base = base * count /\ base * count \in Nat
  BY <1>3
<1>5. (count * base) % base = 0
  <2>1. count * base \in Int /\ count \in Int /\ count * base = base * count
    BY <1>3, <1>4
  <2>. QED  BY <2>1, Multiple, Zenon
<1>6. CASE r > old
  <2>1. count = q + 1
    BY <1>1, <1>6
  <2>2. (q + 1) * base = base * q + base
    OBVIOUS
  <2>. QED  BY <1>1, <1>2, <1>3, <1>4, <1>5, <1>6, <2>1, <2>2
<1>7. CASE r <= old
  <2>1. count = q
    BY <1>1, <1>7
  <2>2. q * base = base * q
    OBVIOUS
  <2>. QED  BY <1>1, <1>2, <1>3, <1>4, <1>5, <1>7, <2>1, <2>2
<1>. QED  BY <1>1, <1>6, <1>7

\* s with other cells and another block.
Grown(s, cells, cur) == [s EXCEPT !.cells = cells, !.cur = cur]

\* Its fields.
IsGrown(t, s, cells, cur) ==
  /\ t \in Array /\ t.base = s.base /\ t.cells = cells /\ t.cur = cur
  /\ t.position = s.position /\ t.size = s.size /\ t.status = s.status

\* It has these fields.
LEMMA GrownFields ==
  ASSUME NEW s \in Array, NEW cells \in Seq(Int), NEW cur \in Nat
  PROVE  IsGrown(Grown(s, cells, cur), s, cells, cur)
BY DEF Grown, Array, IsGrown

\* More blocks behind those there are.
LEMMA BlocksBehind ==
  ASSUME NEW c \in Seq(Int), NEW m \in Nat, NEW b \in Int,
         NEW d, d = c \o [i \in 1..m |-> b]
  PROVE  /\ d \in Seq(Int) /\ Len(d) = Len(c) + m
         /\ \A i \in 1..Len(c) : d[i] = c[i]
<1>1. [i \in 1..m |-> b] \in Seq(Int) /\ Len([i \in 1..m |-> b]) = m
  OBVIOUS
<1>. QED  BY <1>1

\* The sum of whole blocks is whole blocks.
LEMMA MoreBlocks ==
  ASSUME NEW b \in Nat \ {0}, NEW m \in Nat, NEW n \in Nat, m % b = 0, n % b = 0
  PROVE  (m + n) % b = 0
<1>1. PICK j \in Int : m = b * j
  BY Multiple
<1>2. PICK k \in Int : n = b * k
  BY Multiple
<1>3. m + n = b * (j + k) /\ j + k \in Int /\ m + n \in Int
  BY <1>1, <1>2
<1>. QED  BY <1>3, Multiple, Zenon

\* addCapacity keeps what there is and m_cur at m_position, which is then before the
\* end; there is room for n bytes unless it has added one block too few.
IsRoom(t, s, n) ==
  /\ Good(t) /\ t.base = s.base /\ t.position = s.position /\ t.size = s.size
  /\ t.position < Capacity(t) /\ Capacity(s) <= Capacity(t)
  /\ \A i \in 1..Capacity(s) : t.cells[i] = s.cells[i]
  /\ Capacity(t) < t.position + n <=> TooFew(s, n)

\* addCapacity does so.
LEMMA AddCapacity ==
  ASSUME NEW s, Good(s), NEW n \in Nat \ {0}, NEW b \in Int
  PROVE  IsRoom(addCapacity(s, n, b), s, n)
<1>1. PICK t : t = addCapacity(s, n, b)
  OBVIOUS
<1>2. SUFFICES IsRoom(t, s, n)
  BY <1>1
<1>3. /\ s \in Array /\ s.base \in Nat \ {0} /\ s.cells \in Seq(Int) /\ s.cur \in Nat
      /\ s.position \in Nat /\ s.size \in Nat /\ Capacity(s) \in Nat
      /\ Works(s) /\ Placed(s) /\ Capacity(s) = Len(s.cells)
  BY Fields DEF Good, Capacity
<1>4. PICK old \in Nat : old = getCapacity(s) /\ old = Capacity(s) - s.position
  BY <1>3 DEF getCapacity, Placed
<1>5. CASE n <= old
  <2>1. t = s
    BY <1>1, <1>4, <1>5 DEF addCapacity
  <2>2. ~ TooFew(s, n)
    BY <1>4, <1>5 DEF TooFew
  <2>3. s.position < Capacity(s) /\ ~ (Capacity(s) < s.position + n)
    BY <1>3, <1>4, <1>5
  <2>4. Capacity(s) <= Capacity(s)
    BY <1>3
  <2>. QED  BY <2>1, <2>2, <2>3, <2>4, Zenon DEF IsRoom
<1>6. CASE n > old
  <2>1. PICK count : count = (n - old) \div s.base
                               + (IF (n - old) % s.base > old THEN 1 ELSE 0)
    OBVIOUS
  <2>2. /\ count \in Nat /\ count * s.base \in Nat /\ (count * s.base) % s.base = 0
        /\ old = 0 => count * s.base > 0
        /\ old + count * s.base < n <=> (n - old) % s.base \in 1..old
    BY <1>3, <1>4, <1>6, <2>1, EnoughBlocks
  <2>3. PICK m \in Nat : /\ m = count * s.base /\ m % s.base = 0
                         /\ old = 0 => m > 0
                         /\ old + m < n <=> (n - old) % s.base \in 1..old
    BY <2>2, Zenon
  <2>4. PICK d : d = s.cells \o [i \in 1..m |-> b]
    OBVIOUS
  <2>5. d \in Seq(Int) /\ Len(d) = Capacity(s) + m /\ \A i \in 1..Capacity(s) : d[i] = s.cells[i]
    BY <1>3, <2>4, BlocksBehind
  <2>6. PICK cur : cur = IF old = 0 THEN Capacity(s) \div s.base + 1 ELSE s.cur
    OBVIOUS
  <2>7. t = Grown(s, d, cur)
    <3>1. ~ (n <= old)
      BY <1>6
    <3>. QED  BY <1>1, <1>4, <2>1, <2>3, <2>4, <2>6, <3>1 DEF addCapacity, Grown
  <2>8. /\ old = 0 => s.position = Capacity(s) /\ m > 0
        /\ old # 0 => s.position < Capacity(s)
    BY <1>3, <1>4, <2>3
  <2>9. cur = s.position \div s.base + 1 /\ s.position < Capacity(s) + m
    <3>1. CASE old = 0
      <4>1. Capacity(s) \in Nat /\ s.position = Capacity(s) /\ m > 0
        BY <1>3, <2>8, <3>1
      <4>2. cur = s.position \div s.base + 1
        BY <2>6, <3>1, <4>1
      <4>. QED  BY <4>1, <4>2
    <3>2. CASE old # 0
      <4>1. Capacity(s) \in Nat /\ s.position \in Nat /\ s.position < Capacity(s)
        BY <1>3, <2>8, <3>2
      <4>2. s.cur = s.position \div s.base + 1
        BY <1>3, <4>1 DEF Placed
      <4>3. cur = s.cur
        BY <2>6, <3>2
      <4>. QED  BY <4>1, <4>2, <4>3
    <3>. QED  BY <3>1, <3>2
  <2>10. (Capacity(s) + m) % s.base = 0
    BY <1>3, <2>3, MoreBlocks DEF Placed
  <2>11. cur \in Nat
    <3>1. CASE old = 0
      <4>1. Capacity(s) < Capacity(s) + m /\ Capacity(s) + m \in Nat
        <5>1. Capacity(s) \in Nat /\ m > 0
          BY <1>3, <2>8, <3>1
        <5>. QED  BY <5>1
      <4>2. Capacity(s) \div s.base \in Nat
        BY <1>3, <2>10, <4>1, EarlierBlock, Zenon
      <4>. QED  BY <2>6, <3>1, <4>2
    <3>2. CASE old # 0
      BY <1>3, <2>6, <3>2
    <3>. QED  BY <3>1, <3>2
  <2>12. /\ t \in Array /\ t.base = s.base /\ t.cells = d /\ t.cur = cur
         /\ t.position = s.position /\ t.size = s.size /\ t.status = s.status
    <3>1. s \in Array /\ d \in Seq(Int) /\ cur \in Nat
      BY <1>3, <2>5, <2>11
    <3>2. IsGrown(Grown(s, d, cur), s, d, cur)
      BY <3>1, GrownFields, Zenon
    <3>3. IsGrown(t, s, d, cur)
      BY <2>7, <3>2
    <3>. QED  BY <3>3 DEF IsGrown
  <2>13. Capacity(t) = Capacity(s) + m
    BY <2>5, <2>12 DEF Capacity
  <2>14. Good(t)
    <3>1. PICK base, cap, position, size :
             /\ base = s.base /\ cap = Capacity(s) /\ position = s.position /\ size = s.size
      OBVIOUS
    <3>2. /\ base \in Nat \ {0} /\ cap \in Nat /\ position \in Nat /\ size \in Nat
          /\ position <= size /\ size <= cap /\ base <= cap
          /\ cur = position \div base + 1 /\ position < cap + m /\ (cap + m) % base = 0
      BY <1>3, <2>9, <2>10, <3>1 DEF Placed
    <3>3. /\ position <= size /\ size <= cap + m /\ base <= cap + m
          /\ cur = IF position = cap + m THEN Null ELSE position \div base + 1
      BY <2>3, <3>2
    <3>4. Placed(t)
      BY <2>12, <2>13, <3>1, <3>2, <3>3, Zenon DEF Placed
    <3>. QED  BY <1>3, <2>12, <3>4, Zenon DEF Good, Works
  <2>15. Capacity(t) < t.position + n <=> TooFew(s, n)
    <3>1. TooFew(s, n) <=> (n - old) % s.base \in 1..old
      BY <1>4, <1>6 DEF TooFew
    <3>2. Capacity(t) < t.position + n <=> old + m < n
      <4>1. PICK cap \in Nat, position \in Nat : cap = Capacity(s) /\ position = s.position
        BY <1>3
      <4>2. Capacity(t) = cap + m /\ t.position = position /\ old = cap - position
        BY <1>4, <2>12, <2>13, <4>1
      <4>3. cap + m < position + n <=> (cap - position) + m < n
        OBVIOUS
      <4>. QED  BY <4>2, <4>3
    <3>. QED  BY <2>3, <3>1, <3>2, Zenon
  <2>16. Capacity(s) <= Capacity(t) /\ t.position < Capacity(t)
    BY <1>3, <2>9, <2>12, <2>13
  <2>17. \A i \in 1..Capacity(s) : t.cells[i] = s.cells[i]
    BY <2>5, <2>12, Zenon
  <2>. QED  BY <2>12, <2>14, <2>15, <2>16, <2>17, Zenon DEF IsRoom
<1>. QED  BY <1>4, <1>5, <1>6

-----------------------------------------------------------------------------
(* The bytes it holds.                                                      *)

\* f is what the blocks of s hold up to m_size.
Holds(s, f) ==
  /\ f \in Seq(Int) /\ Len(f) = s.size
  /\ \A i \in 1..s.size : s.cells[i] = f[i]

\* Sequences of the same length with the same elements are equal.
LEMMA SameSequence ==
  ASSUME NEW e \in Seq(Int), NEW f \in Seq(Int), Len(e) = Len(f),
         \A i \in 1..Len(e) : e[i] = f[i]
  PROVE  e = f
OBVIOUS

\* A part of a sequence.
LEMMA Part ==
  ASSUME NEW f \in Seq(Int), NEW a \in Nat, NEW n \in Nat, a + n <= Len(f)
  PROVE  /\ SubSeq(f, a + 1, a + n) \in Seq(Int)
         /\ Len(SubSeq(f, a + 1, a + n)) = n
         /\ \A i \in 1..n : SubSeq(f, a + 1, a + n)[i] = f[a + i]
OBVIOUS

\* Sequences that agree up to the end of a part have the same part.
LEMMA SamePart ==
  ASSUME NEW e \in Seq(Int), NEW f \in Seq(Int), NEW a \in Nat, NEW n \in Nat,
         a + n <= Len(e), a + n <= Len(f), \A i \in 1..(a + n) : e[i] = f[i]
  PROVE  SubSeq(e, a + 1, a + n) = SubSeq(f, a + 1, a + n)
<1>1. PICK g : g = SubSeq(e, a + 1, a + n)
  OBVIOUS
<1>2. PICK h : h = SubSeq(f, a + 1, a + n)
  OBVIOUS
<1>3. g \in Seq(Int) /\ Len(g) = n /\ \A i \in 1..n : g[i] = e[a + i]
  BY <1>1, Part
<1>4. h \in Seq(Int) /\ Len(h) = n /\ \A i \in 1..n : h[i] = f[a + i]
  BY <1>2, Part
<1>5. ASSUME NEW i \in 1..n PROVE g[i] = h[i]
  <2>1. a + i \in 1..(a + n)
    OBVIOUS
  <2>. QED  BY <1>3, <1>4, <2>1
<1>6. g = h
  BY <1>3, <1>4, <1>5, SameSequence
<1>. QED  BY <1>1, <1>2, <1>6

\* The elements of a concatenation.
IsJoined(g, e, f) ==
  /\ g \in Seq(Int) /\ Len(g) = Len(e) + Len(f)
  /\ \A i \in 1..Len(e) : g[i] = e[i]
  /\ \A i \in 1..Len(f) : g[Len(e) + i] = f[i]

\* A concatenation has these elements.
LEMMA Joined ==
  ASSUME NEW e \in Seq(Int), NEW f \in Seq(Int)
  PROVE  IsJoined(e \o f, e, f)
BY DEF IsJoined

\* What Overwrite gives, byte by byte.
IsOverwritten(g, f, p, buf) ==
  /\ g \in Seq(Int)
  /\ Len(g) = IF p + Len(buf) > Len(f) THEN p + Len(buf) ELSE Len(f)
  /\ \A i \in 1..Len(g) :
       g[i] = IF i \in (p + 1)..(p + Len(buf)) THEN buf[i - p] ELSE f[i]

\* It gives this.
LEMMA Overwritten ==
  ASSUME NEW f \in Seq(Int), NEW buf \in Seq(Int), NEW p \in 0..Len(f)
  PROVE  IsOverwritten(Overwrite(f, p, buf), f, p, buf)
<1>1. PICK g : g = Overwrite(f, p, buf)
  OBVIOUS
<1>2. PICK head : head = SubSeq(f, 1, p)
  OBVIOUS
<1>3. head \in Seq(Int) /\ Len(head) = p /\ \A i \in 1..p : head[i] = f[i]
  BY <1>2
<1>4. PICK n \in Nat : n = Len(buf)
  OBVIOUS
<1>5. PICK l \in Nat : l = Len(f)
  OBVIOUS
<1>6. PICK tail : tail = SubSeq(f, p + n + 1, l)
  OBVIOUS
<1>7. PICK k \in Nat : k = IF p + n > l THEN 0 ELSE l - (p + n)
  <2>1. CASE p + n > l
    BY <2>1
  <2>2. CASE p + n <= l
    <3>1. l - (p + n) \in Nat /\ ~ (p + n > l)
      BY <1>5, <2>2
    <3>. QED  BY <3>1
  <2>. QED  BY <1>5, <2>1, <2>2
<1>8. tail \in Seq(Int) /\ Len(tail) = k /\ \A i \in 1..k : tail[i] = f[p + n + i]
  <2>1. CASE p + n <= l
    <3>1. p \in Nat /\ ~ (p + n > l)
      BY <2>1
    <3>2. k = l - (p + n)
      BY <1>7, <3>1, Zenon
    <3>3. l = (p + n) + k /\ p + n \in Nat /\ (p + n) + k <= Len(f)
      BY <1>5, <3>1, <3>2
    <3>4. tail = SubSeq(f, (p + n) + 1, (p + n) + k)
      BY <1>6, <3>3
    <3>. QED  BY <3>3, <3>4, Part
  <2>2. CASE p + n > l
    <3>1. tail = << >> /\ k = 0
      BY <1>5, <1>6, <1>7, <2>2
    <3>. QED  BY <3>1
  <2>. QED  BY <1>4, <1>5, <2>1, <2>2
<1>9. PICK h : h = head \o buf
  OBVIOUS
<1>10. /\ h \in Seq(Int) /\ Len(h) = p + n
       /\ \A i \in 1..p : h[i] = f[i]
       /\ \A i \in 1..n : h[p + i] = buf[i]
  <2>1. IsJoined(h, head, buf)
    BY <1>3, <1>9, Joined, Zenon
  <2>2. /\ h \in Seq(Int) /\ Len(h) = p + n
        /\ \A i \in 1..p : h[i] = head[i]
        /\ \A i \in 1..n : h[p + i] = buf[i]
    BY <1>3, <1>4, <2>1, Zenon DEF IsJoined
  <2>. QED  BY <1>3, <2>2, Zenon
<1>11. g = h \o tail
  BY <1>1, <1>2, <1>4, <1>5, <1>6, <1>9 DEF Overwrite
<1>12. /\ g \in Seq(Int) /\ Len(g) = (p + n) + k
       /\ \A i \in 1..(p + n) : g[i] = h[i]
       /\ \A i \in 1..k : g[(p + n) + i] = tail[i]
  <2>1. IsJoined(g, h, tail)
    BY <1>8, <1>10, <1>11, Joined, Zenon
  <2>. QED  BY <1>8, <1>10, <2>1, Zenon DEF IsJoined
<1>13. ASSUME NEW i \in 1..Len(g)
       PROVE  g[i] = IF i \in (p + 1)..(p + n) THEN buf[i - p] ELSE f[i]
  <2>1. CASE i <= p
    <3>1. i \in 1..p /\ i \in 1..(p + n) /\ i \notin (p + 1)..(p + n)
      BY <2>1
    <3>. QED  BY <1>10, <1>12, <3>1, Zenon
  <2>2. CASE i \in (p + 1)..(p + n)
    <3>1. i - p \in 1..n /\ p + (i - p) = i /\ i \in 1..(p + n)
      BY <2>2
    <3>2. h[i] = buf[i - p]
      BY <1>10, <3>1
    <3>. QED  BY <1>12, <2>2, <3>1, <3>2
  <2>3. CASE i > p + n
    <3>1. i - (p + n) \in 1..k /\ (p + n) + (i - (p + n)) = i
      BY <1>12, <2>3
    <3>2. tail[i - (p + n)] = f[i]
      BY <1>8, <3>1
    <3>3. g[i] = tail[i - (p + n)]
      BY <1>12, <3>1
    <3>4. i \notin (p + 1)..(p + n)
      BY <2>3
    <3>. QED  BY <3>2, <3>3, <3>4, Zenon
  <2>. QED  BY <2>1, <2>2, <2>3
<1>14. Len(g) = IF p + n > l THEN p + n ELSE l
  <2>1. p \in Nat
    OBVIOUS
  <2>2. CASE p + n > l
    <3>1. k = 0
      BY <1>7, <2>2, Zenon
    <3>. QED  BY <1>12, <2>1, <2>2, <3>1
  <2>3. CASE ~ (p + n > l)
    <3>1. k = l - (p + n)
      BY <1>7, <2>3, Zenon
    <3>. QED  BY <1>12, <2>1, <2>3, <3>1
  <2>. QED  BY <2>2, <2>3
<1>15. IsOverwritten(g, f, p, buf)
  BY <1>4, <1>5, <1>12, <1>13, <1>14, Zenon DEF IsOverwritten
<1>. QED  BY <1>1, <1>15

-----------------------------------------------------------------------------
(* Writing.                                                                 *)

\* s with other cells and another place.
Moved(s, cells, cur, position, size) ==
  [s EXCEPT !.cells = cells, !.cur = cur, !.position = position, !.size = size]

\* Its fields.
IsMoved(t, s, cells, cur, position, size) ==
  /\ t \in Array /\ t.base = s.base /\ t.cells = cells /\ t.cur = cur
  /\ t.position = position /\ t.size = size /\ t.status = s.status

\* It has these fields.
LEMMA MovedFields ==
  ASSUME NEW s \in Array, NEW cells \in Seq(Int), NEW cur \in Nat, NEW position \in Nat,
         NEW size \in Nat
  PROVE  IsMoved(Moved(s, cells, cur, position, size), s, cells, cur, position, size)
BY DEF Moved, Array, IsMoved

\* The cells from p + 1 on hold buf, the others what they held.
Fill(c, p, buf) ==
  [i \in DOMAIN c |-> IF i \in (p + 1)..(p + Len(buf)) THEN buf[i - p] ELSE c[i]]

IsFilled(g, c, p, buf) ==
  /\ g \in Seq(Int) /\ Len(g) = Len(c)
  /\ \A i \in 1..Len(c) : g[i] = IF i \in (p + 1)..(p + Len(buf)) THEN buf[i - p] ELSE c[i]

\* There are as many cells.
LEMMA Filled ==
  ASSUME NEW c \in Seq(Int), NEW p \in Nat, NEW buf \in Seq(Int)
  PROVE  IsFilled(Fill(c, p, buf), c, p, buf)
<1>1. \A i \in (p + 1)..(p + Len(buf)) : i - p \in 1..Len(buf)
  OBVIOUS
<1>2. \A i \in 1..Len(buf) : buf[i] \in Int
  OBVIOUS
<1>3. PICK l \in Nat : l = Len(c) /\ DOMAIN c = 1..l /\ \A i \in 1..l : c[i] \in Int
  OBVIOUS
<1>4. Fill(c, p, buf) \in [1..l -> Int]
  BY <1>1, <1>2, <1>3 DEF Fill
<1>. QED  BY <1>3, <1>4 DEF Fill, IsFilled

\* The block of a place.
LEMMA Block ==
  ASSUME NEW s, Good(s), NEW p \in Nat, p <= Capacity(s)
  PROVE  /\ BlockAfter(s, p) \in Nat
         /\ BlockAfter(s, p) = IF p = Capacity(s) THEN Null ELSE p \div s.base + 1
<1>1. Capacity(s) \in Nat
  BY Fields DEF Good
<1>2. CASE p = Capacity(s)
  BY <1>1, <1>2 DEF BlockAfter, Null
<1>3. CASE p < Capacity(s)
  <2>1. BlockAfter(s, p) = p \div s.base + 1 /\ p \div s.base + 1 \in Nat /\ p # Capacity(s)
    BY <1>1, <1>3, AtPosition
  <2>. QED  BY <2>1
<1>. QED  BY <1>1, <1>2, <1>3

\* t is s with cells c, at another position and with another size.
IsAt(t, s, c, position, size) ==
  /\ Good(t) /\ t.base = s.base /\ t.cells = c /\ t.position = position
  /\ t.size = size /\ Capacity(t) = Capacity(s)

\* A place in front of m_size, in the block that belongs to it, is a good one.
LEMMA GoodPlace ==
  ASSUME NEW s, Good(s), NEW c \in Seq(Int), Len(c) = Capacity(s),
         NEW position \in Nat, NEW size \in Nat, position <= size, size <= Capacity(s)
  PROVE  IsAt(Moved(s, c, BlockAfter(s, position), position, size), s, c, position, size)
<1>1. PICK t : t = Moved(s, c, BlockAfter(s, position), position, size)
  OBVIOUS
<1>2. /\ s \in Array /\ s.base \in Nat \ {0} /\ Capacity(s) \in Nat /\ Works(s)
      /\ Capacity(s) % s.base = 0 /\ s.base <= Capacity(s)
  BY Fields DEF Good, Placed
<1>3. position <= Capacity(s)
  BY <1>2
<1>4. PICK cur \in Nat : /\ cur = BlockAfter(s, position)
                         /\ cur = IF position = Capacity(s) THEN Null
                                  ELSE position \div s.base + 1
  BY <1>3, Block
<1>5. t = Moved(s, c, cur, position, size)
  BY <1>1, <1>4
<1>6. IsMoved(Moved(s, c, cur, position, size), s, c, cur, position, size)
  BY <1>2, MovedFields, Zenon
<1>7. IsMoved(t, s, c, cur, position, size)
  BY <1>5, <1>6
<1>8. /\ t \in Array /\ t.base = s.base /\ t.cells = c /\ t.cur = cur
      /\ t.position = position /\ t.size = size /\ t.status = s.status
  BY <1>7 DEF IsMoved
<1>9. Capacity(t) = Capacity(s)
  BY <1>8 DEF Capacity
<1>10. Placed(t)
  BY <1>2, <1>4, <1>8, <1>9, Zenon DEF Placed
<1>11. Good(t)
  BY <1>2, <1>8, <1>10, Zenon DEF Good, Works
<1>. QED  BY <1>1, <1>8, <1>9, <1>11 DEF IsAt

\* m_cur leads to the cell at m_position, if there is one.
LEMMA Here ==
  ASSUME NEW s, Good(s), s.position < Capacity(s)
  PROVE  s.cur # Null /\ At(s, s.cur, s.position) = s.position
<1>1. s.position \in Nat /\ Capacity(s) \in Nat
  BY Fields DEF Good
<1>2. s.cur = s.position \div s.base + 1
  BY <1>1 DEF Good, Placed
<1>3. /\ At(s, s.position \div s.base + 1, s.position) = s.position
      /\ s.position \div s.base + 1 \in Nat \ {0}
  BY <1>1, AtPosition
<1>. QED  BY <1>2, <1>3 DEF Null

\* What a write leaves: the bytes, at a position behind them.
IsWritten(t, s, f, buf) ==
  /\ Good(t) /\ Holds(t, Overwrite(f, s.position, buf))
  /\ t.base = s.base /\ t.position = s.position + Len(buf)

\* Overwriting nothing changes nothing.
LEMMA NothingWritten ==
  ASSUME NEW s, Good(s), NEW f, Holds(s, f)
  PROVE  IsWritten(s, s, f, << >>)
<1>1. s.position \in Nat /\ s.size \in Nat /\ s.position <= s.size
  BY Fields DEF Good, Placed
<1>2. f \in Seq(Int) /\ Len(f) = s.size
  BY DEF Holds
<1>3. s.position \in 0..Len(f)
  BY <1>1, <1>2
<1>4. PICK g : g = Overwrite(f, s.position, << >>)
  OBVIOUS
<1>5. << >> \in Seq(Int) /\ Len(<< >>) = 0
  OBVIOUS
<1>6. /\ g \in Seq(Int)
      /\ Len(g) = IF s.position + Len(<< >>) > Len(f) THEN s.position + Len(<< >>) ELSE Len(f)
      /\ \A i \in 1..Len(g) :
           g[i] = IF i \in (s.position + 1)..(s.position + Len(<< >>)) THEN << >>[i - s.position]
                  ELSE f[i]
  <2>1. IsOverwritten(g, f, s.position, << >>)
    BY <1>2, <1>3, <1>4, <1>5, Overwritten, Zenon
  <2>. QED  BY <2>1 DEF IsOverwritten
<1>7. Len(g) = Len(f)
  BY <1>1, <1>2, <1>5, <1>6
<1>8. \A i \in 1..Len(g) : g[i] = f[i]
  <2>1. \A i : i \notin (s.position + 1)..(s.position + Len(<< >>))
    BY <1>1, <1>5
  <2>. QED  BY <1>6, <2>1, Zenon
<1>9. g = f
  BY <1>2, <1>6, <1>7, <1>8, SameSequence
<1>10. s.position = s.position + Len(<< >>)
  BY <1>1, <1>5
<1>. QED  BY <1>4, <1>9, <1>10, Zenon DEF IsWritten

\* The cells written are the bytes overwritten.
LEMMA FillHolds ==
  ASSUME NEW s, Good(s), NEW f, Holds(s, f), NEW buf \in Seq(Int),
         NEW c \in Seq(Int), s.size <= Len(c), s.position + Len(buf) <= Len(c),
         \A i \in 1..s.size : c[i] = s.cells[i],
         NEW t, t.cells = Fill(c, s.position, buf),
         t.size = IF s.position + Len(buf) > s.size THEN s.position + Len(buf) ELSE s.size
  PROVE  Holds(t, Overwrite(f, s.position, buf))
<1>1. PICK p \in Nat : p = s.position
  BY Fields DEF Good
<1>2. PICK n \in Nat : n = Len(buf)
  OBVIOUS
<1>3. PICK l \in Nat : l = s.size /\ p <= l /\ f \in Seq(Int) /\ Len(f) = l
                       /\ \A i \in 1..l : s.cells[i] = f[i]
  BY <1>1, Fields DEF Good, Placed, Holds
<1>4. PICK g : g = Overwrite(f, p, buf)
  OBVIOUS
<1>5. p \in 0..Len(f)
  BY <1>3
<1>6. PICK m \in Nat : m = (IF p + n > l THEN p + n ELSE l) /\ m <= Len(c)
  BY <1>1, <1>2, <1>3
<1>7. /\ g \in Seq(Int) /\ Len(g) = m
      /\ \A i \in 1..m : g[i] = IF i \in (p + 1)..(p + n) THEN buf[i - p] ELSE f[i]
  <2>1. /\ g \in Seq(Int)
        /\ Len(g) = IF p + Len(buf) > Len(f) THEN p + Len(buf) ELSE Len(f)
        /\ \A i \in 1..Len(g) :
             g[i] = IF i \in (p + 1)..(p + Len(buf)) THEN buf[i - p] ELSE f[i]
    <3>1. IsOverwritten(g, f, p, buf)
      BY <1>3, <1>4, <1>5, Overwritten, Zenon
    <3>. QED  BY <3>1 DEF IsOverwritten
  <2>2. Len(g) = m
    BY <1>2, <1>3, <1>6, <2>1, Zenon
  <2>. QED  BY <1>2, <2>1, <2>2, Zenon
<1>8. /\ \A i \in 1..Len(c) :
           Fill(c, p, buf)[i] = IF i \in (p + 1)..(p + n) THEN buf[i - p] ELSE c[i]
  <2>1. IsFilled(Fill(c, p, buf), c, p, buf)
    BY Filled
  <2>. QED  BY <1>2, <2>1, Zenon DEF IsFilled
<1>9. t.size = m /\ t.cells = Fill(c, p, buf)
  BY <1>1, <1>2, <1>3, <1>6, Zenon
<1>10. ASSUME NEW i \in 1..m PROVE t.cells[i] = g[i]
  <2>1. i \in 1..Len(c)
    BY <1>6
  <2>2. CASE i \in (p + 1)..(p + n)
    BY <1>7, <1>8, <1>9, <2>1, <2>2, Zenon
  <2>3. CASE i \notin (p + 1)..(p + n)
    <3>1. i \in 1..l
      <4>1. p + n > l => i > p + n \/ i <= p
        BY <2>3
      <4>. QED  BY <1>3, <1>6, <4>1
    <3>2. c[i] = f[i]
      BY <1>3, <3>1, Zenon
    <3>. QED  BY <1>7, <1>8, <1>9, <2>1, <2>3, <3>2, Zenon
  <2>. QED  BY <2>2, <2>3
<1>. QED  BY <1>1, <1>4, <1>7, <1>9, <1>10, Zenon DEF Holds

\* A write puts the bytes at the position, unless addCapacity has added too few blocks.
LEMMA Write ==
  ASSUME NEW s, Good(s), NEW f, Holds(s, f), NEW buf \in Seq(Int), NEW b \in Int,
         NEW w, w = write(s, buf, b)
  PROVE  \/ IsWritten(w, s, f, buf)
         \/ w.status = "null" /\ TooFew(s, Len(buf)) /\ w \in Array
<1>1. CASE buf = << >>
  <2>1. w = s
    BY <1>1 DEF write
  <2>. QED  BY <1>1, <2>1, NothingWritten, Zenon
<1>2. CASE buf # << >>
  <2>1. PICK n \in Nat \ {0} : n = Len(buf)
    BY <1>2
  <2>2. PICK t : t = addCapacity(s, n, b)
    OBVIOUS
  <2>3. /\ Good(t) /\ t.base = s.base /\ t.position = s.position /\ t.size = s.size
        /\ t.position < Capacity(t) /\ Capacity(s) <= Capacity(t)
        /\ \A i \in 1..Capacity(s) : t.cells[i] = s.cells[i]
        /\ Capacity(t) < t.position + n <=> TooFew(s, n)
    <3>1. IsRoom(t, s, n)
      BY <2>2, AddCapacity, Zenon
    <3>. QED  BY <3>1 DEF IsRoom
  <2>4. PICK p \in Nat : p = s.position
    BY Fields DEF Good
  <2>5. t.cur # Null /\ At(t, t.cur, t.position) = p
    BY <2>3, <2>4, Here
  <2>6. /\ t \in Array /\ t.cells \in Seq(Int) /\ Capacity(t) \in Nat /\ Capacity(t) = Len(t.cells)
        /\ t.size \in Nat /\ t.size <= Capacity(t)
    BY <2>3, Fields DEF Good, Placed, Capacity
  <2>7. Works(s)
    BY DEF Good
  <2>8. CASE p + n > Capacity(t)
    <3>1. w = Crash(t)
      BY <1>2, <2>1, <2>2, <2>5, <2>7, <2>8 DEF write
    <3>2. w.status = "null" /\ w \in Array
      BY <2>6, <3>1 DEF Crash, Array
    <3>3. TooFew(s, n)
      BY <2>3, <2>4, <2>6, <2>8
    <3>. QED  BY <2>1, <3>2, <3>3
  <2>9. CASE ~ (p + n > Capacity(t))
    <3>1. PICK size : size = IF p + n > t.size THEN p + n ELSE t.size
      OBVIOUS
    <3>2. PICK c : c = Fill(t.cells, p, buf)
      OBVIOUS
    <3>3. w = Moved(t, c, BlockAfter(t, p + n), p + n, size)
      BY <1>2, <2>1, <2>2, <2>3, <2>4, <2>5, <2>7, <2>9, <3>1, <3>2 DEF write, Moved, Fill
    <3>4. p + Len(buf) <= Len(t.cells) /\ p + n <= Capacity(t)
      BY <2>1, <2>6, <2>9
    <3>5. c \in Seq(Int) /\ Len(c) = Capacity(t)
      <4>1. IsFilled(c, t.cells, p, buf)
        BY <2>6, <3>2, Filled, Zenon
      <4>. QED  BY <2>6, <4>1 DEF IsFilled
    <3>6. p + n \in Nat /\ size \in Nat /\ p + n <= size /\ size <= Capacity(t)
      BY <2>6, <3>1, <3>4
    <3>7. Good(w) /\ w.base = t.base /\ w.cells = c /\ w.position = p + n /\ w.size = size
      <4>1. IsAt(w, t, c, p + n, size)
        BY <2>3, <3>3, <3>5, <3>6, GoodPlace, Zenon
      <4>. QED  BY <4>1 DEF IsAt
    <3>8. Holds(w, Overwrite(f, s.position, buf))
      <4>1. /\ w.cells = Fill(t.cells, s.position, buf)
            /\ w.size = IF s.position + Len(buf) > s.size THEN s.position + Len(buf) ELSE s.size
        BY <2>1, <2>3, <2>4, <3>1, <3>2, <3>7, Zenon
      <4>2. s.size <= Len(t.cells) /\ s.position + Len(buf) <= Len(t.cells)
        BY <2>3, <2>4, <2>6, <3>4
      <4>3. \A i \in 1..s.size : t.cells[i] = s.cells[i]
        <5>1. s.size \in Nat /\ Capacity(s) \in Nat /\ s.size <= Capacity(s)
          BY Fields DEF Good, Placed
        <5>. QED  BY <2>3, <5>1
      <4>. QED  BY <2>6, <4>1, <4>2, <4>3, FillHolds, Zenon
    <3>. QED  BY <2>1, <2>3, <2>4, <3>7, <3>8, Zenon DEF IsWritten
  <2>. QED  BY <2>8, <2>9
<1>. QED  BY <1>1, <1>2

\* Two writes one behind the other are a write of both.
LEMMA OverwriteTwice ==
  ASSUME NEW f \in Seq(Int), NEW p \in 0..Len(f), NEW d \in Seq(Int), NEW e \in Seq(Int)
  PROVE  Overwrite(Overwrite(f, p, d), p + Len(d), e) = Overwrite(f, p, d \o e)
<1>1. PICK g : g = Overwrite(f, p, d)
  OBVIOUS
<1>2. PICK m \in Nat, n \in Nat, l \in Nat : m = Len(d) /\ n = Len(e) /\ l = Len(f) /\ p \in 0..l
  OBVIOUS
<1>3. PICK h : h = d \o e
  OBVIOUS
<1>4. /\ h \in Seq(Int) /\ Len(h) = m + n
      /\ \A i \in 1..m : h[i] = d[i]
      /\ \A i \in 1..n : h[m + i] = e[i]
  <2>1. IsJoined(h, d, e)
    BY <1>3, Joined, Zenon
  <2>. QED  BY <1>2, <2>1, Zenon DEF IsJoined
<1>5. /\ g \in Seq(Int)
      /\ Len(g) = IF p + m > l THEN p + m ELSE l
      /\ \A i \in 1..Len(g) : g[i] = IF i \in (p + 1)..(p + m) THEN d[i - p] ELSE f[i]
  <2>1. IsOverwritten(g, f, p, d)
    BY <1>1, Overwritten, Zenon
  <2>. QED  BY <1>2, <2>1, Zenon DEF IsOverwritten
<1>6. Len(g) \in Nat /\ p + m \in 0..Len(g) /\ p + m \in Nat
  BY <1>2, <1>5
<1>7. PICK x : x = Overwrite(g, p + m, e)
  OBVIOUS
<1>8. /\ x \in Seq(Int)
      /\ Len(x) = IF (p + m) + n > Len(g) THEN (p + m) + n ELSE Len(g)
      /\ \A i \in 1..Len(x) :
           x[i] = IF i \in ((p + m) + 1)..((p + m) + n) THEN e[i - (p + m)] ELSE g[i]
  <2>1. IsOverwritten(x, g, p + m, e)
    BY <1>5, <1>6, <1>7, Overwritten, Zenon
  <2>. QED  BY <1>2, <2>1, Zenon DEF IsOverwritten
<1>9. PICK y : y = Overwrite(f, p, h)
  OBVIOUS
<1>10. /\ y \in Seq(Int)
       /\ Len(y) = IF p + (m + n) > l THEN p + (m + n) ELSE l
       /\ \A i \in 1..Len(y) : y[i] = IF i \in (p + 1)..(p + (m + n)) THEN h[i - p] ELSE f[i]
  <2>1. IsOverwritten(y, f, p, h)
    BY <1>4, <1>9, Overwritten, Zenon
  <2>. QED  BY <1>2, <1>4, <2>1, Zenon DEF IsOverwritten
<1>11. Len(x) = Len(y)
  <2>1. PICK k : k = Len(g)
    OBVIOUS
  <2>2. k = (IF p + m > l THEN p + m ELSE l) /\ p \in Nat
    BY <1>2, <1>5, <2>1
  <2>3. (IF (p + m) + n > k THEN (p + m) + n ELSE k) = IF p + (m + n) > l THEN p + (m + n) ELSE l
    BY <2>2
  <2>. QED  BY <1>8, <1>10, <2>1, <2>3
<1>12. ASSUME NEW i \in 1..Len(x) PROVE x[i] = y[i]
  <2>1. i \in Int /\ i \in 1..Len(y) /\ p \in Nat
    BY <1>2, <1>11
  <2>2. CASE i \in (p + 1)..(p + m)
    <3>1. /\ i \notin ((p + m) + 1)..((p + m) + n) /\ i \in (p + 1)..(p + (m + n))
          /\ i \in 1..Len(g) /\ i - p \in 1..m
      BY <1>6, <2>1, <2>2
    <3>. QED  BY <1>4, <1>5, <1>8, <1>10, <2>1, <2>2, <3>1, Zenon
  <2>3. CASE i \in ((p + m) + 1)..((p + m) + n)
    <3>1. /\ i \in (p + 1)..(p + (m + n)) /\ i - (p + m) \in 1..n /\ i - p = m + (i - (p + m))
      BY <2>1, <2>3
    <3>2. h[i - p] = e[i - (p + m)]
      BY <1>4, <3>1, Zenon
    <3>. QED  BY <1>8, <1>10, <2>1, <2>3, <3>1, <3>2, Zenon
  <2>4. CASE i \notin (p + 1)..(p + m) /\ i \notin ((p + m) + 1)..((p + m) + n)
    <3>1. i \notin (p + 1)..(p + (m + n))
      BY <2>1, <2>4
    <3>2. i \in 1..Len(g)
      BY <1>5, <1>6, <1>8, <2>1, <2>4
    <3>. QED  BY <1>5, <1>8, <1>10, <2>1, <2>4, <3>1, <3>2, Zenon
  <2>. QED  BY <2>2, <2>3, <2>4
<1>13. x = y
  BY <1>8, <1>10, <1>11, <1>12, SameSequence
<1>. QED  BY <1>1, <1>2, <1>3, <1>7, <1>9, <1>13

\* A write after a crash does nothing.
LEMMA WriteAfterCrash ==
  ASSUME NEW t, t.status = "null", NEW buf, NEW b
  PROVE  write(t, buf, b) = t
BY DEF write, Works

\* A write behind another.
LEMMA WriteMore ==
  ASSUME NEW s, Good(s), NEW f, Holds(s, f), NEW d \in Seq(Int), NEW e \in Seq(Int),
         NEW b \in Int, NEW t, IsWritten(t, s, f, d)
  PROVE  \/ IsWritten(write(t, e, b), s, f, d \o e)
         \/ /\ write(t, e, b).status = "null" /\ TooFew(t, Len(e))
            /\ write(t, e, b) \in Array
<1>1. PICK p \in Nat : p = s.position
  BY Fields DEF Good
<1>2. PICK g : g = Overwrite(f, p, d)
  OBVIOUS
<1>3. Good(t) /\ Holds(t, g) /\ t.base = s.base /\ t.position = p + Len(d)
  BY <1>1, <1>2 DEF IsWritten
<1>4. PICK w : w = write(t, e, b)
  OBVIOUS
<1>5. CASE IsWritten(w, t, g, e)
  <2>1. f \in Seq(Int) /\ p \in 0..Len(f)
    BY <1>1, Fields DEF Good, Placed, Holds
  <2>2. Overwrite(g, p + Len(d), e) = Overwrite(f, p, d \o e)
    BY <1>2, <2>1, OverwriteTwice, Zenon
  <2>3. Good(w) /\ Holds(w, Overwrite(f, p, d \o e)) /\ w.base = s.base
    BY <1>3, <1>5, <2>2, Zenon DEF IsWritten
  <2>4. w.position = p + Len(d \o e)
    BY <1>3, <1>5 DEF IsWritten
  <2>. QED  BY <1>1, <1>4, <2>3, <2>4, Zenon DEF IsWritten
<1>6. CASE w.status = "null" /\ TooFew(t, Len(e)) /\ w \in Array
  BY <1>4, <1>6
<1>. QED  BY <1>3, <1>4, <1>5, <1>6, Write

\* Two writes, of which each may have found too few blocks.
LEMMA WriteTwice ==
  ASSUME NEW s, Good(s), NEW f, Holds(s, f), NEW d \in Seq(Int), NEW e \in Seq(Int),
         NEW b \in Int, NEW t, t = write(s, d, b), NEW w, w = write(t, e, b)
  PROVE  \/ IsWritten(w, s, f, d \o e)
         \/ w.status = "null" /\ (TooFew(s, Len(d)) \/ TooFew(t, Len(e))) /\ w \in Array
<1>1. CASE t.status = "null" /\ TooFew(s, Len(d)) /\ t \in Array
  <2>1. w = t
    BY <1>1, WriteAfterCrash
  <2>. QED  BY <1>1, <2>1
<1>2. CASE IsWritten(t, s, f, d)
  BY <1>2, WriteMore
<1>. QED  BY <1>1, <1>2, Write

-----------------------------------------------------------------------------
(* Reading.                                                                 *)

\* What the caller goes on with.
LEMMA Catching ==
  ASSUME NEW s \in Array
  PROVE  /\ Works(s) => Caught(s) = s /\ Caught(Throw(s)) = s
         /\ s.status = "null" => Caught(s) = s
         /\ Crash(s).status = "null" /\ Throw(s).status = "out_of_range"
         /\ Crash(s) \in Array /\ Throw(s) \in Array
         /\ Throw(s).base = s.base /\ Throw(s).cells = s.cells /\ Throw(s).position = s.position
BY DEF Array, Works, Caught, Throw, Crash

\* s in another block at another position.
Stepped(s, cur, position) == [s EXCEPT !.cur = cur, !.position = position]

\* The cells and the size stay.
LEMMA SteppedFields ==
  ASSUME NEW s \in Array, NEW cur, NEW position
  PROVE  Stepped(s, cur, position) = Moved(s, s.cells, cur, position, s.size)
BY DEF Stepped, Moved, Array

\* Reading steps over the bytes.
LEMMA Read ==
  ASSUME NEW s, Good(s), NEW n \in Nat
  PROVE  \/ n > getReadSize(s) /\ read(s, n) = Throw(s)
         \/ n = 0 /\ s.position = Capacity(s) /\ read(s, n) = Crash(s)
         \/ /\ n <= getReadSize(s) /\ s.position < Capacity(s)
            /\ IsAt(read(s, n), s, s.cells, s.position + n, s.size)
<1>1. /\ s \in Array /\ s.cells \in Seq(Int) /\ Len(s.cells) = Capacity(s) /\ Capacity(s) \in Nat
      /\ s.position \in Nat /\ s.size \in Nat /\ Works(s) /\ s.cur \in Nat
      /\ s.position <= s.size /\ s.size <= Capacity(s)
  BY Fields DEF Good, Placed, Capacity
<1>2. PICK p \in Nat, l \in Nat, cap \in Nat :
         p = s.position /\ l = s.size /\ cap = Capacity(s) /\ p <= l /\ l <= cap
  BY <1>1
<1>3. getReadSize(s) = l - p
  BY <1>2 DEF getReadSize
<1>4. CASE n > l - p
  BY <1>1, <1>3, <1>4 DEF read
<1>5. CASE n <= l - p /\ p = cap
  <2>1. n = 0 /\ ~ (n > l - p)
    BY <1>2, <1>5
  <2>2. s.cur = Null
    BY <1>2, <1>5 DEF Good, Placed
  <2>3. read(s, n) = Crash(s)
    BY <1>1, <1>3, <2>1, <2>2 DEF read
  <2>. QED  BY <1>2, <1>5, <2>1, <2>3
<1>6. CASE n <= l - p /\ p < cap
  <2>1. ~ (n > l - p) /\ p + n \in Nat /\ p + n <= l /\ ~ (p + n > cap)
    BY <1>2, <1>6
  <2>2. s.cur # Null /\ At(s, s.cur, s.position) = p
    BY <1>2, <1>6, Here
  <2>3. (IF n = 0 THEN s.cur ELSE BlockAfter(s, p + n)) = BlockAfter(s, p + n)
    <3>1. CASE n = 0
      <4>1. s.cur = p \div s.base + 1 /\ p + n = p
        BY <1>2, <1>6, <3>1 DEF Good, Placed
      <4>2. BlockAfter(s, p) = p \div s.base + 1
        BY <1>2, <1>6, AtPosition
      <4>. QED  BY <3>1, <4>1, <4>2
    <3>2. CASE n # 0
      BY <3>2
    <3>. QED  BY <3>1, <3>2
  <2>4. read(s, n) = Stepped(s, BlockAfter(s, p + n), p + n)
    BY <1>1, <1>2, <1>3, <2>1, <2>2, <2>3 DEF read, Stepped
  <2>5. read(s, n) = Moved(s, s.cells, BlockAfter(s, p + n), p + n, s.size)
    BY <1>1, <2>4, SteppedFields
  <2>6. p + n <= s.size
    BY <1>2, <2>1
  <2>7. IsAt(read(s, n), s, s.cells, p + n, s.size)
    BY <1>1, <2>1, <2>5, <2>6, GoodPlace, Zenon
  <2>. QED  BY <1>2, <1>3, <1>6, <2>7
<1>. QED  BY <1>2, <1>4, <1>5, <1>6

\* What is given are the bytes from the position on.
LEMMA GivenBytes ==
  ASSUME NEW s, Good(s), s.position < Capacity(s), NEW n
  PROVE  Given(s, n) = SubSeq(s.cells, s.position + 1, s.position + n)
BY Here DEF Given

\* They are the bytes written.
LEMMA ReadBytes ==
  ASSUME NEW s, Good(s), NEW f, Holds(s, f), NEW a \in Nat, NEW n \in Nat, a + n <= s.size
  PROVE  SubSeq(s.cells, a + 1, a + n) = SubSeq(f, a + 1, a + n)
<1>1. s.cells \in Seq(Int) /\ s.size \in Nat /\ s.size <= Len(s.cells)
  BY Fields DEF Good, Placed, Capacity
<1>2. f \in Seq(Int) /\ a + n <= Len(f) /\ a + n <= Len(s.cells)
  BY <1>1 DEF Holds
<1>3. \A i \in 1..(a + n) : s.cells[i] = f[i]
  BY <1>1 DEF Holds
<1>. QED  BY <1>1, <1>2, <1>3, SamePart

\* Moving does not change them.
LEMMA StillHolds ==
  ASSUME NEW s, NEW f, Holds(s, f), NEW w, w.cells = s.cells, w.size = s.size
  PROVE  Holds(w, f)
BY DEF Holds

-----------------------------------------------------------------------------
(* Powers of two.                                                           *)

\* Exponents that occur.
Exponent == 0..(2 * Width + 1)

\* Every power is a positive number, and twice the one before.
LEMMA Power ==
  \A n \in Exponent : /\ 2^n \in Nat \ {0}
                      /\ n + 1 \in Exponent => 2^(n + 1) = 2 * 2^n
<1>1. Width \in Nat
  BY ByteArrayAssumption
<1>2. ASSUME NEW n \in Exponent, n + 1 \in Exponent PROVE 2^(n + 1) = 2 * 2^n
  <2>1. n \in 0..(2 * Width)
    BY <1>1, <1>2 DEF Exponent
  <2>. QED  BY <2>1, PowerAssumption, Zenon
<1>3. PICK bad : bad = {n \in Exponent : ~ (2^n \in Nat \ {0})}
  OBVIOUS
<1>4. SUFFICES ASSUME bad # {} PROVE FALSE
  BY <1>2, <1>3, Zenon
<1>5. bad \subseteq Nat
  BY <1>3 DEF Exponent
<1>6. PICK n \in bad : \A y \in bad : n <= y
  BY <1>4, <1>5, LeastNumber
<1>7. n \in Exponent /\ n \in Nat /\ ~ (2^n \in Nat \ {0})
  BY <1>3, <1>5
<1>8. CASE n = 0
  <2>1. 2^0 = 1
    OBVIOUS
  <2>. QED  BY <1>7, <1>8, <2>1
<1>9. CASE n # 0
  <2>1. PICK m : m = n - 1
    OBVIOUS
  <2>2. m \in Exponent /\ m + 1 = n /\ ~ (n <= m)
    BY <1>1, <1>7, <1>9, <2>1 DEF Exponent
  <2>3. 2^m \in Nat \ {0}
    BY <1>3, <1>6, <2>2, Zenon
  <2>4. 2^n = 2 * 2^m
    BY <1>2, <1>7, <2>2, Zenon
  <2>5. \A x \in Nat \ {0} : 2 * x \in Nat \ {0}
    OBVIOUS
  <2>. QED  BY <1>7, <2>3, <2>4, <2>5, Zenon
<1>. QED  BY <1>8, <1>9

\* The power of a sum.
LEMMA PowerSum ==
  ASSUME NEW m \in Nat, NEW n \in Nat, m + n \in Exponent
  PROVE  2^(m + n) = 2^m * 2^n
<1>1. Width \in Nat
  BY ByteArrayAssumption
<1>2. PICK bad : bad = {k \in Nat : m + k \in Exponent /\ ~ (2^(m + k) = 2^m * 2^k)}
  OBVIOUS
<1>3. SUFFICES ASSUME bad # {} PROVE FALSE
  BY <1>2
<1>4. bad \subseteq Nat
  BY <1>2
<1>5. PICK k \in bad : \A y \in bad : k <= y
  BY <1>3, <1>4, LeastNumber
<1>6. k \in Nat /\ m + k \in Exponent /\ ~ (2^(m + k) = 2^m * 2^k)
  BY <1>2
<1>7. m \in Exponent /\ k \in Exponent
  BY <1>1, <1>6 DEF Exponent
<1>8. 2^m \in Nat
  BY <1>7, Power
<1>9. CASE k = 0
  <2>1. 2^0 = 1 /\ m + k = m
    BY <1>9
  <2>2. \A x \in Nat : x = x * 1
    OBVIOUS
  <2>. QED  BY <1>6, <1>8, <1>9, <2>1, <2>2, Zenon
<1>10. CASE k # 0
  <2>1. PICK j \in Nat : k = j + 1 /\ ~ (k <= j)
    BY <1>6, <1>10
  <2>2. m + j \in Exponent /\ (m + j) + 1 \in Exponent /\ j \in Exponent /\ (m + j) + 1 = m + k
    BY <1>1, <1>6, <2>1 DEF Exponent
  <2>3. 2^(m + j) = 2^m * 2^j
    BY <1>2, <1>5, <2>1, <2>2, Zenon
  <2>4. 2^(m + k) = 2 * 2^(m + j) /\ 2^k = 2 * 2^j /\ 2^j \in Nat
    BY <1>7, <2>1, <2>2, Power, Zenon
  <2>5. \A x, y \in Nat : 2 * (x * y) = x * (2 * y)
    OBVIOUS
  <2>6. 2 * (2^m * 2^j) = 2^m * (2 * 2^j)
    BY <1>8, <2>4, <2>5, Zenon
  <2>. QED  BY <1>6, <2>3, <2>4, <2>6, Zenon
<1>. QED  BY <1>9, <1>10

\* Powers grow.
LEMMA PowerGrows ==
  ASSUME NEW m \in Exponent, NEW n \in Exponent, m < n
  PROVE  2^m < 2^n
<1>1. Width \in Nat
  BY ByteArrayAssumption
<1>2. PICK k \in Nat : n = (m + 1) + k /\ m \in Nat /\ m + 1 \in Nat /\ m + 1 \in Exponent
  <2>1. n - (m + 1) \in Nat /\ n = (m + 1) + (n - (m + 1)) /\ m \in Nat
    BY <1>1 DEF Exponent
  <2>2. m + 1 \in Exponent /\ m + 1 \in Nat
    BY <1>1 DEF Exponent
  <2>. QED  BY <2>1, <2>2, Zenon
<1>3. 2^n = 2^(m + 1) * 2^k
  BY <1>2, PowerSum, Zenon
<1>4. k \in Exponent
  BY <1>1, <1>2 DEF Exponent
<1>5. 2^m \in Nat \ {0} /\ 2^(m + 1) = 2 * 2^m /\ 2^k \in Nat \ {0}
  BY <1>2, <1>4, Power, Zenon
<1>6. \A x, y \in Nat \ {0} : x < (2 * x) * y
  <2>1. ASSUME NEW x \in Nat \ {0}, NEW y \in Nat \ {0} PROVE x < (2 * x) * y
    <3>1. (2 * x) * y >= (2 * x) * 1
      OBVIOUS
    <3>. QED  BY <3>1
  <2>. QED  BY <2>1
<1>. QED  BY <1>3, <1>5, <1>6, Zenon

\* More is between 2 and 2^Width, and both are even.
LEMMA MoreBits ==
  /\ More \in Nat \ {0, 1} /\ 2^Width \in Nat \ {0} /\ More < 2^Width
  /\ 2^(Width - 1) \in Nat \ {0} /\ 2^Width = 2 * 2^(Width - 1)
<1>1. Width \in Nat /\ Group \in 1..(Width - 1)
  BY ByteArrayAssumption
<1>2. /\ Width \in Exponent /\ Group \in Exponent /\ Width - 1 \in Exponent /\ 0 \in Exponent
      /\ 0 < Group /\ Group < Width /\ (Width - 1) + 1 = Width
  BY <1>1 DEF Exponent
<1>3. 2^Width \in Nat \ {0} /\ 2^Group \in Nat \ {0} /\ 2^(Width - 1) \in Nat \ {0}
      /\ 2^Width = 2 * 2^(Width - 1)
  BY <1>2, Power, Zenon
<1>4. 2^0 < 2^Group /\ 2^Group < 2^Width
  BY <1>2, PowerGrows, Zenon
<1>5. 2^0 = 1
  OBVIOUS
<1>6. 2^Group # 1
  BY <1>3, <1>4, <1>5
<1>. QED  BY <1>3, <1>4, <1>6 DEF More

-----------------------------------------------------------------------------
(* Reading integers.                                                        *)

\* f adds up the bits of the first n bytes.
IsParts(f, bytes, n) ==
  f = [i \in 0..n |-> IF i = 0 THEN 0
                      ELSE f[i - 1] + (bytes[i] % More) * 2^(Group * (i - 1))]

\* There is such a function.
LEMMA PartsExist ==
  ASSUME NEW bytes, NEW l \in Nat
  PROVE  \E f : IsParts(f, bytes, l)
<1>1. PICK bad : bad = {n \in Nat : ~ \E f : IsParts(f, bytes, n)}
  OBVIOUS
<1>2. SUFFICES ASSUME bad # {} PROVE FALSE
  BY <1>1
<1>3. bad \subseteq Nat
  BY <1>1
<1>4. PICK n \in bad : \A y \in bad : n <= y
  BY <1>2, <1>3, LeastNumber
<1>5. n \in Nat /\ ~ \E f : IsParts(f, bytes, n)
  BY <1>1
<1>6. CASE n = 0
  <2>1. PICK f : f = [i \in 0..0 |-> 0]
    OBVIOUS
  <2>2. IsParts(f, bytes, 0)
    BY <2>1 DEF IsParts
  <2>. QED  BY <1>5, <1>6, <2>2
<1>7. CASE n # 0
  <2>1. n - 1 \in Nat /\ ~ (n <= n - 1)
    BY <1>5, <1>7
  <2>2. n - 1 \notin bad
    BY <1>4, <2>1
  <2>3. PICK g : IsParts(g, bytes, n - 1)
    BY <1>1, <2>1, <2>2
  <2>4. PICK x : x = g[n - 1] + (bytes[n] % More) * 2^(Group * (n - 1))
    OBVIOUS
  <2>5. PICK f : f = [i \in 0..n |-> IF i = n THEN x ELSE g[i]]
    OBVIOUS
  <2>6. DOMAIN f = 0..n /\ \A i \in 0..n : f[i] = IF i = n THEN x ELSE g[i]
    BY <2>5
  <2>7. \A i \in 0..(n - 1) : f[i] = g[i]
    BY <1>5, <2>6
  <2>8. f[n] = f[n - 1] + (bytes[n] % More) * 2^(Group * (n - 1))
    BY <1>5, <2>1, <2>4, <2>6, <2>7
  <2>9. \A i \in 0..(n - 1) :
          g[i] = IF i = 0 THEN 0 ELSE g[i - 1] + (bytes[i] % More) * 2^(Group * (i - 1))
    BY <2>3 DEF IsParts
  <2>10. ASSUME NEW i \in 0..n
         PROVE  f[i] = IF i = 0 THEN 0 ELSE f[i - 1] + (bytes[i] % More) * 2^(Group * (i - 1))
    <3>1. CASE i = n
      BY <1>7, <2>8, <3>1
    <3>2. CASE i # n
      <4>1. i \in 0..(n - 1) /\ (i # 0 => i - 1 \in 0..(n - 1))
        BY <1>5, <3>2
      <4>. QED  BY <2>7, <2>9, <4>1
    <3>. QED  BY <3>1, <3>2
  <2>11. f = [i \in 0..n |-> f[i]]
    BY <2>5
  <2>12. IsParts(f, bytes, n)
    BY <2>10, <2>11 DEF IsParts
  <2>. QED  BY <1>5, <2>12
<1>. QED  BY <1>6, <1>7

\* What Value computes.
LEMMA ValueParts ==
  ASSUME NEW bytes \in Seq(Int)
  PROVE  \E f : IsParts(f, bytes, Len(bytes)) /\ Value(bytes) = f[Len(bytes)] % 2^Width
<1>1. Len(bytes) \in Nat
  OBVIOUS
<1>2. \E f : IsParts(f, bytes, Len(bytes))
  BY <1>1, PartsExist
<1>. QED  BY <1>2 DEF Value, IsParts

\* The step of the sum.
Adds(f, bytes, i) == f[i] = f[i - 1] + (bytes[i] % More) * 2^(Group * (i - 1))

\* Every byte is such a step.
LEMMA PartsStep ==
  ASSUME NEW f, NEW bytes, NEW n \in Nat, IsParts(f, bytes, n), NEW i \in 1..n
  PROVE  Adds(f, bytes, i)
BY DEF IsParts, Adds

\* Where it starts.
LEMMA PartsStart ==
  ASSUME NEW f, NEW bytes, NEW n \in Nat, IsParts(f, bytes, n)
  PROVE  f[0] = 0
BY DEF IsParts

\* The exponents of the bytes of an integer.
LEMMA GroupExponent ==
  ASSUME NEW i \in Nat
  PROVE  Group * i \in Nat /\ 2^(Group * i) \in Int
<1>1. Group \in Nat
  BY ByteArrayAssumption
<1>. QED  BY <1>1

\* A sum of integers is an integer.
LEMMA PartsInt ==
  ASSUME NEW bytes \in Seq(Int), NEW f, IsParts(f, bytes, Len(bytes))
  PROVE  \A i \in 0..Len(bytes) : f[i] \in Int
<1>1. PICK bad : bad = {i \in 0..Len(bytes) : f[i] \notin Int}
  OBVIOUS
<1>2. SUFFICES ASSUME bad # {} PROVE FALSE
  BY <1>1
<1>3. bad \subseteq Nat
  BY <1>1
<1>4. PICK i \in bad : \A y \in bad : i <= y
  BY <1>2, <1>3, LeastNumber
<1>5. i \in 0..Len(bytes) /\ f[i] \notin Int /\ Len(bytes) \in Nat
  BY <1>1
<1>6. i # 0
  BY <1>5, PartsStart
<1>7. i \in 1..Len(bytes) /\ i - 1 \in 0..Len(bytes) /\ ~ (i <= i - 1) /\ i - 1 \in Nat
  BY <1>5, <1>6
<1>8. f[i - 1] \in Int
  BY <1>1, <1>4, <1>7, Zenon
<1>9. f[i] = f[i - 1] + (bytes[i] % More) * 2^(Group * (i - 1))
  <2>1. Adds(f, bytes, i)
    BY <1>5, <1>7, PartsStep, Zenon
  <2>. QED  BY <2>1 DEF Adds
<1>10. PICK x \in Int : x = 2^(Group * (i - 1))
  BY <1>7, GroupExponent
<1>11. PICK y \in Int : y = bytes[i]
  BY <1>7
<1>12. PICK m \in Nat \ {0} : m = More
  BY MoreBits
<1>13. y % m \in Int /\ (y % m) * x \in Int
  OBVIOUS
<1>14. f[i] = f[i - 1] + (y % m) * x
  BY <1>9, <1>10, <1>11, <1>12
<1>. QED  BY <1>5, <1>8, <1>13, <1>14

\* The value read is a number.
LEMMA ValueNat ==
  ASSUME NEW bytes \in Seq(Int)
  PROVE  Value(bytes) \in Nat
<1>1. PICK f : IsParts(f, bytes, Len(bytes)) /\ Value(bytes) = f[Len(bytes)] % 2^Width
  BY ValueParts
<1>2. Len(bytes) \in 0..Len(bytes)
  OBVIOUS
<1>3. f[Len(bytes)] \in Int
  BY <1>1, <1>2, PartsInt, Zenon
<1>4. PICK x \in Int : x = f[Len(bytes)]
  BY <1>3
<1>5. PICK w \in Nat \ {0} : w = 2^Width
  BY MoreBits
<1>6. x % w \in Nat
  OBVIOUS
<1>. QED  BY <1>1, <1>4, <1>5, <1>6

\* An integer ends at one of the bytes, or behind them.
LEMMA UsedBytes ==
  ASSUME NEW bytes \in Seq(Int)
  PROVE  Used(bytes) \in 1..(Len(bytes) + 1)
<1>1. PICK ends : ends = {i \in DOMAIN bytes : bytes[i] < More \/ i = MaxBytes}
  OBVIOUS
<1>2. Used(bytes) = IF ends = {} THEN Len(bytes) + 1 ELSE CHOOSE i \in ends : \A j \in ends : i <= j
  BY <1>1 DEF Used
<1>3. ends \subseteq 1..Len(bytes) /\ Len(bytes) \in Nat
  BY <1>1
<1>4. CASE ends = {}
  BY <1>2, <1>3, <1>4
<1>5. CASE ends # {}
  <2>1. ends \subseteq Nat
    BY <1>3
  <2>2. \E i \in ends : \A j \in ends : i <= j
    BY <1>5, <2>1, LeastNumber
  <2>3. Used(bytes) \in ends
    BY <1>2, <1>5, <2>2
  <2>4. \A i \in 1..Len(bytes) : i \in 1..(Len(bytes) + 1)
    BY <1>3
  <2>. QED  BY <1>3, <2>3, <2>4, Zenon
<1>. QED  BY <1>4, <1>5

\* What can be read, if anything can.
LEMMA ReadableBytes ==
  ASSUME NEW s, Good(s), getReadSize(s) # 0
  PROVE  /\ getReadSize(s) \in Nat \ {0} /\ s.position < Capacity(s)
         /\ Readable(s) \in Seq(Int) /\ Len(Readable(s)) = getReadSize(s)
<1>1. PICK p \in Nat, l \in Nat, cap \in Nat, c \in Seq(Int) :
         /\ p = s.position /\ l = s.size /\ cap = Capacity(s) /\ c = s.cells
         /\ cap = Len(c) /\ p <= l /\ l <= cap
  BY Fields DEF Good, Placed, Capacity
<1>2. getReadSize(s) = l - p
  BY <1>1 DEF getReadSize
<1>3. p < l /\ p < cap /\ l - p \in Nat \ {0}
  BY <1>1, <1>2
<1>4. At(s, s.cur, s.position) = p
  BY <1>1, <1>3, Here
<1>5. Given(s, Capacity(s) - p) = SubSeq(c, p + 1, p + (cap - p))
  BY <1>1, <1>4 DEF Given
<1>6. PICK d : d = SubSeq(c, p + 1, p + (cap - p))
  OBVIOUS
<1>7. cap - p \in Nat /\ p + (cap - p) <= Len(c)
  BY <1>1
<1>8. d \in Seq(Int) /\ Len(d) = cap - p
  BY <1>6, <1>7, Part, Zenon
<1>9. Readable(s) = SubSeq(d, 1, l - p)
  BY <1>2, <1>4, <1>5, <1>6 DEF Readable
<1>10. 0 + (l - p) <= Len(d) /\ 0 + 1 = 1 /\ 0 + (l - p) = l - p /\ 0 \in Nat /\ l - p \in Nat
  <2>1. l <= cap /\ l - p \in Nat /\ Len(d) = cap - p
    BY <1>1, <1>3, <1>8
  <2>. QED  BY <2>1
<1>11. SubSeq(d, 0 + 1, 0 + (l - p)) \in Seq(Int) /\ Len(SubSeq(d, 0 + 1, 0 + (l - p))) = l - p
  <2>1. d \in Seq(Int) /\ 0 \in Nat /\ l - p \in Nat /\ 0 + (l - p) <= Len(d)
    BY <1>8, <1>10
  <2>. QED  BY <2>1, Part, ZenonT(30)
<1>. QED  BY <1>1, <1>2, <1>3, <1>9, <1>10, <1>11

\* An integer is read whole, or what there is of it is read and the rest missed.
LEMMA ReadVarint ==
  ASSUME NEW s, Good(s)
  PROVE  \/ \E w : /\ readVarint(s) = Throw(w) /\ Good(w)
                   /\ w.cells = s.cells /\ w.size = s.size
         \/ /\ s.position < Capacity(s)
            /\ \E n \in 1..getReadSize(s) :
                 IsAt(readVarint(s), s, s.cells, s.position + n, s.size)
<1>1. CASE getReadSize(s) = 0
  <2>1. readVarint(s) = Throw(s)
    BY <1>1 DEF readVarint
  <2>. QED  BY <2>1
<1>2. CASE getReadSize(s) # 0
  <2>1. PICK l : l = getReadSize(s)
    OBVIOUS
  <2>2. PICK bytes : bytes = Readable(s)
    OBVIOUS
  <2>3. l \in Nat \ {0} /\ s.position < Capacity(s) /\ bytes \in Seq(Int) /\ Len(bytes) = l
    BY <1>2, <2>1, <2>2, ReadableBytes
  <2>4. PICK n \in 1..(l + 1) : n = Used(bytes)
    BY <2>3, UsedBytes
  <2>5. readVarint(s) = IF n > l THEN Throw(read(s, n - 1)) ELSE read(s, n)
    BY <1>2, <2>1, <2>2, <2>4 DEF readVarint
  <2>6. CASE n > l
    <3>1. n - 1 = l /\ l \in Nat /\ ~ (l > l) /\ l # 0
      BY <2>3, <2>6
    <3>2. IsAt(read(s, l), s, s.cells, s.position + l, s.size)
      BY <2>1, <3>1, Read
    <3>3. readVarint(s) = Throw(read(s, l))
      BY <2>5, <2>6, <3>1
    <3>. QED  BY <3>2, <3>3 DEF IsAt
  <2>7. CASE ~ (n > l)
    <3>1. n \in Nat /\ n # 0 /\ n \in 1..l
      BY <2>3, <2>7
    <3>2. IsAt(read(s, n), s, s.cells, s.position + n, s.size)
      BY <2>1, <2>7, <3>1, Read
    <3>. QED  BY <2>1, <2>3, <2>5, <2>7, <3>1, <3>2, Zenon
  <2>. QED  BY <2>6, <2>7
<1>. QED  BY <1>1, <1>2

-----------------------------------------------------------------------------
(* Writing integers.                                                        *)

\* v encodes the numbers up to n.
IsCode(v, n) ==
  v = [x \in 0..n |-> IF x >= More THEN <<(x % More) + More>> \o v[x \div More] ELSE <<x>>]

\* The function varint is the value of.
Code ==
  CHOOSE v : v = [x \in Unsigned |->
                    IF x >= More THEN <<(x % More) + More>> \o v[x \div More] ELSE <<x>>]

\* What is left of an integer is smaller.
LEMMA Smaller ==
  ASSUME NEW x \in Nat, x >= More
  PROVE  /\ x \div More \in Nat /\ x \div More < x
         /\ x = More * (x \div More) + (x % More) /\ x % More \in 0..(More - 1)
<1>1. PICK m \in Nat \ {0, 1} : m = More
  BY MoreBits
<1>2. PICK q \in Int, r \in 0..(m - 1) : q = x \div m /\ r = x % m /\ x = m * q + r
  OBVIOUS
<1>3. q >= 0
  <2>1. ASSUME q <= -1 PROVE FALSE
    <3>1. m * q <= -m
      BY <2>1
    <3>. QED  BY <1>2, <3>1
  <2>. QED  BY <2>1
<1>4. q < x
  <2>1. CASE q = 0
    BY <1>1, <2>1
  <2>2. CASE q >= 1
    <3>1. m * q >= 2 * q
      BY <2>2
    <3>. QED  BY <1>2, <2>2, <3>1
  <2>. QED  BY <1>3, <2>1, <2>2
<1>. QED  BY <1>1, <1>2, <1>3, <1>4

\* There is an encoding of the numbers up to any.
LEMMA CodeExists ==
  ASSUME NEW l \in Nat
  PROVE  \E v : IsCode(v, l)
<1>1. More \in Nat \ {0, 1}
  BY MoreBits
<1>2. PICK bad : bad = {n \in Nat : ~ \E f : IsCode(f, n)}
  OBVIOUS
<1>3. SUFFICES ASSUME bad # {} PROVE FALSE
  BY <1>2
<1>4. bad \subseteq Nat
  BY <1>2
<1>5. PICK n \in bad : \A y \in bad : n <= y
  BY <1>3, <1>4, LeastNumber
<1>6. n \in Nat /\ ~ \E f : IsCode(f, n)
  BY <1>2
<1>7. CASE n = 0
  <2>1. PICK f : f = [x \in 0..0 |-> <<x>>]
    OBVIOUS
  <2>2. IsCode(f, 0)
    BY <1>1, <2>1 DEF IsCode
  <2>. QED  BY <1>6, <1>7, <2>2
<1>8. CASE n # 0
  <2>1. n - 1 \in Nat /\ ~ (n <= n - 1)
    BY <1>6, <1>8
  <2>2. n - 1 \notin bad
    BY <1>5, <2>1
  <2>3. PICK g : IsCode(g, n - 1)
    BY <1>2, <2>1, <2>2
  <2>4. PICK c : c = IF n >= More THEN <<(n % More) + More>> \o g[n \div More] ELSE <<n>>
    OBVIOUS
  <2>5. PICK f : f = [i \in 0..n |-> IF i = n THEN c ELSE g[i]]
    OBVIOUS
  <2>6. DOMAIN f = 0..n /\ \A i \in 0..n : f[i] = IF i = n THEN c ELSE g[i]
    BY <2>5
  <2>7. \A i \in 0..(n - 1) : f[i] = g[i]
    BY <1>6, <2>6
  <2>8. \A x \in 0..(n - 1) :
          g[x] = IF x >= More THEN <<(x % More) + More>> \o g[x \div More] ELSE <<x>>
    BY <2>3 DEF IsCode
  <2>9. ASSUME NEW x \in 0..n
        PROVE  f[x] = IF x >= More THEN <<(x % More) + More>> \o f[x \div More] ELSE <<x>>
    <3>1. f[x] = IF x >= More THEN <<(x % More) + More>> \o g[x \div More] ELSE <<x>>
      <4>1. CASE x = n
        BY <2>4, <2>6, <4>1
      <4>2. CASE x # n
        <5>1. x \in 0..(n - 1)
          BY <1>6, <4>2
        <5>. QED  BY <2>7, <2>8, <5>1
      <4>. QED  BY <4>1, <4>2
    <3>2. x >= More => f[x \div More] = g[x \div More]
      <4>1. x \in Nat
        OBVIOUS
      <4>2. x >= More => x \div More \in 0..(n - 1)
        BY <1>6, <4>1, Smaller
      <4>. QED  BY <2>7, <4>2
    <3>. QED  BY <3>1, <3>2
  <2>10. f = [x \in 0..n |-> f[x]]
    BY <2>5
  <2>11. IsCode(f, n)
    BY <2>9, <2>10 DEF IsCode
  <2>. QED  BY <1>6, <2>11
<1>. QED  BY <1>7, <1>8

\* The bytes of an integer are its last bits and the bytes of the others.
LEMMA VarintStep ==
  ASSUME NEW x \in Unsigned
  PROVE  varint(x) = IF x >= More THEN <<(x % More) + More>> \o varint(x \div More) ELSE <<x>>
<1>1. 2^Width - 1 \in Nat
  BY MoreBits
<1>2. \E v : IsCode(v, 2^Width - 1)
  BY <1>1, CodeExists
<1>3. Code = [u \in Unsigned |->
                IF u >= More THEN <<(u % More) + More>> \o Code[u \div More] ELSE <<u>>]
  BY <1>2 DEF Code, IsCode, Unsigned
<1>4. varint(x) = Code[x] /\ varint(x \div More) = Code[x \div More]
  BY DEF varint, Code
<1>5. Code[x] = IF x >= More THEN <<(x % More) + More>> \o Code[x \div More] ELSE <<x>>
  BY <1>3
<1>. QED  BY <1>4, <1>5

\* MaxBytes groups hold an integer, and one less does not.
LEMMA MaxBytesBound ==
  /\ MaxBytes \in Nat \ {0} /\ Group \in Nat \ {0} /\ Width \in Nat
  /\ Width <= Group * MaxBytes /\ Group * MaxBytes <= 2 * Width
<1>1. PICK w \in Nat, g \in Nat \ {0} : w = Width /\ g = Group /\ g < w
  BY ByteArrayAssumption
<1>2. PICK q \in Int, r \in 0..(g - 1) : q = (w + g - 1) \div g /\ w + g - 1 = g * q + r
  OBVIOUS
<1>3. q >= 1
  <2>1. ASSUME q <= 0 PROVE FALSE
    <3>1. g * q <= 0
      BY <2>1
    <3>. QED  BY <1>1, <1>2, <3>1
  <2>. QED  BY <2>1
<1>4. MaxBytes = q
  BY <1>1, <1>2 DEF MaxBytes
<1>5. w <= g * q /\ g * q <= 2 * w
  BY <1>1, <1>2
<1>. QED  BY <1>1, <1>3, <1>4, <1>5

\* One group more multiplies by More.
LEMMA GroupPower ==
  ASSUME NEW k \in 0..MaxBytes
  PROVE  /\ Group * k \in Exponent /\ 2^(Group * k) \in Nat \ {0}
         /\ k < MaxBytes => 2^(Group * (k + 1)) = More * 2^(Group * k)
<1>1. PICK g \in Nat \ {0}, m \in Nat \ {0}, w \in Nat :
         g = Group /\ m = MaxBytes /\ w = Width /\ g * m <= 2 * w
  BY MaxBytesBound
<1>2. ASSUME NEW i \in 0..m PROVE g * i \in 0..(2 * w + 1)
  <2>1. g * i <= g * m /\ g * i >= 0
    OBVIOUS
  <2>. QED  BY <1>1, <2>1
<1>3. \A i \in 0..MaxBytes : Group * i \in Exponent
  BY <1>1, <1>2 DEF Exponent
<1>4. 2^(Group * k) \in Nat \ {0}
  BY <1>3, Power
<1>5. ASSUME k < MaxBytes PROVE 2^(Group * (k + 1)) = More * 2^(Group * k)
  <2>1. k + 1 \in 0..MaxBytes
    BY <1>1, <1>5
  <2>2. Group * (k + 1) = Group + Group * k /\ Group \in Nat /\ Group * k \in Nat
    BY <1>1
  <2>3. Group + Group * k \in Exponent
    BY <1>3, <2>1, <2>2
  <2>4. 2^(Group + Group * k) = 2^Group * 2^(Group * k)
    BY <2>2, <2>3, PowerSum, Zenon
  <2>. QED  BY <2>2, <2>4 DEF More
<1>. QED  BY <1>3, <1>4, <1>5

\* A number of k groups takes at most k bytes.
Fits(x) ==
  /\ varint(x) \in Seq(Int) /\ Len(varint(x)) >= 1
  /\ \A k \in 1..MaxBytes : x < 2^(Group * k) => Len(varint(x)) <= k

\* One byte, and those of what is left.
LEMMA OneMore ==
  ASSUME NEW b \in Int, NEW c \in Seq(Int)
  PROVE  /\ <<b>> \o c \in Seq(Int) /\ Len(<<b>> \o c) = Len(c) + 1
         /\ (<<b>> \o c)[1] = b /\ \A i \in 1..Len(c) : (<<b>> \o c)[i + 1] = c[i]
<1>1. <<b>> \in Seq(Int) /\ Len(<<b>>) = 1 /\ <<b>>[1] = b
  OBVIOUS
<1>2. IsJoined(<<b>> \o c, <<b>>, c)
  BY <1>1, Joined
<1>. QED  BY <1>1, <1>2 DEF IsJoined

\* Every integer fits.
LEMMA VarintFits ==
  \A x \in Unsigned : Fits(x)
<1>1. PICK bad : bad = {x \in Unsigned : ~ Fits(x)}
  OBVIOUS
<1>2. SUFFICES ASSUME bad # {} PROVE FALSE
  BY <1>1
<1>3. bad \subseteq Nat
  BY <1>1 DEF Unsigned
<1>4. PICK x \in bad : \A y \in bad : x <= y
  BY <1>2, <1>3, LeastNumber
<1>5. x \in Unsigned /\ x \in Nat /\ ~ Fits(x)
  BY <1>1, <1>3
<1>6. More \in Nat \ {0, 1} /\ 2^Width \in Nat
  BY MoreBits
<1>7. CASE x < More
  <2>1. varint(x) = <<x>>
    <3>1. ~ (x >= More)
      BY <1>5, <1>6, <1>7
    <3>. QED  BY <1>5, <3>1, VarintStep, Zenon
  <2>2. <<x>> \in Seq(Int) /\ Len(<<x>>) = 1
    BY <1>5
  <2>3. \A k \in 1..MaxBytes : 1 <= k
    OBVIOUS
  <2>. QED  BY <1>5, <2>1, <2>2, <2>3 DEF Fits
<1>8. CASE x >= More
  <2>1. /\ x \div More \in Nat /\ x \div More < x
        /\ x = More * (x \div More) + (x % More) /\ x % More \in 0..(More - 1)
    BY <1>5, <1>8, Smaller
  <2>2. PICK q \in Nat : q = x \div More /\ q < x /\ More * q <= x
    <3>1. PICK m \in Nat, y \in Nat : m = More /\ y = x \div More
      BY <1>6, <2>1
    <3>2. m * y \in Nat
      OBVIOUS
    <3>. QED  BY <1>5, <1>6, <2>1, <3>1, <3>2
  <2>3. q \in Unsigned /\ ~ (x <= q)
    BY <1>5, <1>6, <2>2 DEF Unsigned
  <2>4. Fits(q)
    BY <1>1, <1>4, <2>3, Zenon
  <2>5. PICK b \in Int : b = (x % More) + More
    BY <1>6, <2>1
  <2>6. varint(x) = <<b>> \o varint(q)
    BY <1>5, <1>8, <2>2, <2>5, VarintStep, Zenon
  <2>7. PICK c \in Seq(Int) : c = varint(q) /\ Len(c) >= 1
                              /\ \A k \in 1..MaxBytes : q < 2^(Group * k) => Len(c) <= k
    BY <2>4 DEF Fits
  <2>8. varint(x) \in Seq(Int) /\ Len(varint(x)) = Len(c) + 1
    BY <2>6, <2>7, OneMore
  <2>9. ASSUME NEW k \in 1..MaxBytes, x < 2^(Group * k)
        PROVE  Len(c) + 1 <= k
    <3>1. MaxBytes \in Nat
      BY MaxBytesBound
    <3>2. PICK j \in Nat : k = j + 1 /\ j \in 0..MaxBytes /\ j < MaxBytes
      BY <3>1
    <3>3. PICK y \in Nat : y = 2^(Group * j) /\ 2^(Group * (j + 1)) = More * y
      BY <3>2, GroupPower
    <3>4. q < y
      <4>1. PICK m \in Nat \ {0} : m = More
        BY <1>6
      <4>2. m * q < m * y
        BY <1>5, <2>2, <2>9, <3>2, <3>3, <4>1
      <4>3. ASSUME q >= y PROVE FALSE
        <5>1. m * q >= m * y
          BY <4>3
        <5>. QED  BY <4>2, <5>1
      <4>. QED  BY <4>3
    <3>5. j # 0
      <4>1. Group * 0 = 0 /\ 2^0 = 1
        BY MaxBytesBound
      <4>2. x < More * y
        BY <2>9, <3>2, <3>3
      <4>3. ASSUME j = 0 PROVE FALSE
        <5>1. y = 1
          BY <3>3, <4>1, <4>3
        <5>2. x < More
          BY <1>6, <4>2, <5>1
        <5>. QED  BY <1>5, <1>6, <1>8, <5>2
      <4>. QED  BY <4>3
    <3>6. Len(c) <= j
      BY <2>7, <3>2, <3>3, <3>4, <3>5
    <3>. QED  BY <3>2, <3>6
  <2>10. Len(c) + 1 >= 1
    BY <2>7
  <2>. QED  BY <1>5, <2>8, <2>9, <2>10, Zenon DEF Fits
<1>. QED  BY <1>5, <1>6, <1>7, <1>8

\* An integer takes at most MaxBytes bytes.
LEMMA VarintLength ==
  ASSUME NEW x \in Unsigned
  PROVE  /\ varint(x) \in Seq(Int) /\ Len(varint(x)) \in 1..MaxBytes
<1>1. Fits(x)
  BY VarintFits
<1>2. MaxBytes \in Nat \ {0} /\ Width <= Group * MaxBytes /\ Width \in Nat /\ Group \in Nat
  BY MaxBytesBound
<1>3. MaxBytes \in 1..MaxBytes /\ MaxBytes \in 0..MaxBytes
  BY <1>2
<1>4. Group * MaxBytes \in Exponent
  BY <1>3, GroupPower
<1>5. Width \in Exponent
  BY <1>2 DEF Exponent
<1>6. x < 2^(Group * MaxBytes)
  <2>1. x < 2^Width
    BY MoreBits DEF Unsigned
  <2>2. CASE Width = Group * MaxBytes
    BY <2>1, <2>2
  <2>3. CASE Width < Group * MaxBytes
    <3>1. 2^Width < 2^(Group * MaxBytes)
      BY <1>4, <1>5, <2>3, PowerGrows
    <3>2. 2^Width \in Nat /\ 2^(Group * MaxBytes) \in Nat /\ x \in Nat
      BY <1>4, <1>5, Power DEF Unsigned
    <3>. QED  BY <2>1, <3>1, <3>2
  <2>4. Group * MaxBytes \in Nat
    BY <1>2
  <2>. QED  BY <1>2, <2>2, <2>3, <2>4
<1>7. Len(varint(x)) <= MaxBytes
  BY <1>1, <1>3, <1>6 DEF Fits
<1>. QED  BY <1>1, <1>2, <1>7 DEF Fits

\* The sums for a sequence with one byte in front.
Shifted(f, g, b, c) == \A j \in 0..Len(c) : f[j + 1] = (b % More) + More * g[j]

\* They are More times the others.
LEMMA PartsShift ==
  ASSUME NEW b \in Int, NEW c \in Seq(Int), Len(c) < MaxBytes,
         NEW f, IsParts(f, <<b>> \o c, Len(c) + 1), NEW g, IsParts(g, c, Len(c))
  PROVE  Shifted(f, g, b, c)
<1>1. PICK d : d = <<b>> \o c
  OBVIOUS
<1>2. PICK l \in Nat : l = Len(c)
  OBVIOUS
<1>3. PICK bad : bad = {j \in 0..l : ~ (f[j + 1] = (b % More) + More * g[j])}
  OBVIOUS
<1>4. SUFFICES ASSUME bad # {} PROVE FALSE
  BY <1>2, <1>3 DEF Shifted
<1>5. bad \subseteq Nat
  BY <1>3
<1>6. PICK j \in bad : \A y \in bad : j <= y
  BY <1>4, <1>5, LeastNumber
<1>7. j \in 0..l /\ j \in Nat /\ ~ (f[j + 1] = (b % More) + More * g[j])
  BY <1>3, <1>5
<1>8. PICK m \in Nat \ {0} : m = More
  BY MoreBits
<1>9. j + 1 \in 1..(l + 1) /\ (j + 1) - 1 = j
  BY <1>7
<1>10. f[j + 1] = f[j] + (d[j + 1] % More) * 2^(Group * j)
  <2>1. l + 1 \in Nat /\ IsParts(f, d, l + 1)
    BY <1>1, <1>2
  <2>2. f[j + 1] = f[(j + 1) - 1] + (d[j + 1] % More) * 2^(Group * ((j + 1) - 1))
    <3>1. Adds(f, d, j + 1)
      BY <1>9, <2>1, PartsStep, Zenon
    <3>. QED  BY <3>1 DEF Adds
  <2>. QED  BY <1>9, <2>2, Zenon
<1>11. d[1] = b /\ \A i \in 1..l : d[i + 1] = c[i]
  BY <1>1, <1>2, OneMore
<1>12. CASE j = 0
  <2>1. f[0] = 0 /\ g[0] = 0
    BY <1>2, PartsStart
  <2>2. Group * 0 = 0 /\ 2^0 = 1
    BY MaxBytesBound
  <2>3. f[1] = 0 + (b % m) * 1
    <3>1. j + 1 = 1
      BY <1>12
    <3>. QED  BY <1>8, <1>10, <1>11, <1>12, <2>1, <2>2, <3>1, Zenon
  <2>4. 0 + (b % m) * 1 = (b % m) + m * 0
    OBVIOUS
  <2>. QED  BY <1>7, <1>8, <1>12, <2>1, <2>3, <2>4
<1>13. CASE j # 0
  <2>1. PICK i \in Nat : j = i + 1 /\ i \in 0..l /\ ~ (j <= i) /\ j \in 1..l /\ j - 1 = i
    BY <1>7, <1>13
  <2>2. f[j] = (b % More) + More * g[i]
    BY <1>3, <1>6, <2>1, Zenon
  <2>3. g[j] = g[i] + (c[j] % More) * 2^(Group * i)
    <3>1. l \in Nat /\ IsParts(g, c, l)
      BY <1>2
    <3>2. g[j] = g[j - 1] + (c[j] % More) * 2^(Group * (j - 1))
      <4>1. Adds(g, c, j)
        BY <2>1, <3>1, PartsStep, Zenon
      <4>. QED  BY <4>1 DEF Adds
    <3>. QED  BY <2>1, <3>2, Zenon
  <2>4. i \in 0..MaxBytes /\ i < MaxBytes
    BY <1>2, <2>1, MaxBytesBound
  <2>5. PICK p \in Nat : p = 2^(Group * i) /\ 2^(Group * j) = m * p
    BY <1>8, <2>1, <2>4, GroupPower
  <2>6. PICK y \in Int : y = c[j]
    BY <1>2, <2>1
  <2>7. PICK z \in Int : z = g[i]
    <3>1. i \in 0..Len(c)
      BY <1>2, <2>1
    <3>. QED  BY <3>1, PartsInt
  <2>8. d[j + 1] = y
    BY <1>11, <2>1, <2>6
  <2>9. f[j + 1] = ((b % m) + m * z) + (y % m) * (m * p)
    BY <1>8, <1>10, <2>2, <2>5, <2>7, <2>8
  <2>10. g[j] = z + (y % m) * p
    BY <1>8, <2>3, <2>5, <2>6, <2>7
  <2>11. PICK u \in Int, v \in Int : u = b % m /\ v = y % m
    <3>1. b % m \in Int /\ y % m \in Int
      OBVIOUS
    <3>. QED  BY <3>1
  <2>12. (u + m * z) + v * (m * p) = u + m * (z + v * p)
    <3>1. \A k \in Int : m * (z + k) = m * z + m * k
      OBVIOUS
    <3>2. v * p \in Int
      OBVIOUS
    <3>3. m * (z + v * p) = m * z + m * (v * p)
      BY <3>1, <3>2, Zenon
    <3>4. v * (m * p) = m * (v * p)
      OBVIOUS
    <3>. QED  BY <3>3, <3>4
  <2>13. f[j + 1] = (b % m) + m * g[j]
    BY <2>9, <2>10, <2>11, <2>12
  <2>. QED  BY <1>7, <1>8, <2>13
<1>. QED  BY <1>12, <1>13

\* The sum of the bits of the bytes of x is x.
Inverted(x) ==
  \A f : IsParts(f, varint(x), Len(varint(x))) => f[Len(varint(x))] = x

\* That is so for every integer.
LEMMA VarintInverted ==
  \A x \in Unsigned : Inverted(x)
<1>1. PICK bad : bad = {x \in Unsigned : ~ Inverted(x)}
  OBVIOUS
<1>2. SUFFICES ASSUME bad # {} PROVE FALSE
  BY <1>1
<1>3. bad \subseteq Nat
  BY <1>1 DEF Unsigned
<1>4. PICK x \in bad : \A y \in bad : x <= y
  BY <1>2, <1>3, LeastNumber
<1>5. x \in Unsigned /\ x \in Nat /\ ~ Inverted(x)
  BY <1>1, <1>3
<1>6. PICK m \in Nat \ {0, 1} : m = More
  BY MoreBits
<1>7. PICK f : IsParts(f, varint(x), Len(varint(x))) /\ f[Len(varint(x))] # x
  BY <1>5 DEF Inverted
<1>8. CASE x < More
  <2>1. varint(x) = <<x>>
    <3>1. ~ (x >= More)
      BY <1>5, <1>6, <1>8
    <3>. QED  BY <1>5, <3>1, VarintStep, Zenon
  <2>2. Len(<<x>>) = 1 /\ <<x>>[1] = x /\ 1 \in 1..1 /\ 1 \in Nat /\ 1 - 1 = 0
    OBVIOUS
  <2>3. IsParts(f, <<x>>, 1)
    BY <1>7, <2>1, <2>2
  <2>4. f[0] = 0
    BY <2>3, PartsStart
  <2>5. f[1] = f[0] + (x % More) * 2^(Group * 0)
    <3>1. f[1] = f[1 - 1] + (<<x>>[1] % More) * 2^(Group * (1 - 1))
      <4>1. Adds(f, <<x>>, 1)
        BY <2>2, <2>3, PartsStep, Zenon
      <4>. QED  BY <4>1 DEF Adds
    <3>. QED  BY <2>2, <3>1, Zenon
  <2>6. Group * 0 = 0 /\ 2^0 = 1
    BY MaxBytesBound
  <2>7. x % m = x
    BY <1>5, <1>6, <1>8
  <2>8. f[1] = x
    <3>1. f[1] = 0 + x * 1
      BY <1>6, <2>4, <2>5, <2>6, <2>7, Zenon
    <3>. QED  BY <1>5, <3>1
  <2>. QED  BY <1>7, <2>1, <2>2, <2>8
<1>9. CASE x >= More
  <2>1. /\ x \div More \in Nat /\ x \div More < x
        /\ x = More * (x \div More) + (x % More) /\ x % More \in 0..(More - 1)
    BY <1>5, <1>9, Smaller
  <2>2. PICK q \in Nat, r \in 0..(m - 1) :
           q = x \div More /\ r = x % More /\ q < x /\ x = m * q + r
    BY <1>6, <2>1
  <2>3. 2^Width \in Nat
    BY MoreBits
  <2>4. q \in Unsigned /\ ~ (x <= q)
    BY <1>5, <2>2, <2>3 DEF Unsigned
  <2>5. Inverted(q)
    BY <1>1, <1>4, <2>4, Zenon
  <2>6. PICK b \in Int : b = r + m
    OBVIOUS
  <2>7. PICK c : c = varint(q)
    OBVIOUS
  <2>8. varint(x) = <<b>> \o c
    BY <1>5, <1>6, <1>9, <2>2, <2>6, <2>7, VarintStep, Zenon
  <2>9. c \in Seq(Int) /\ Len(c) \in Nat
    BY <2>4, <2>7, VarintLength
  <2>10. Len(varint(x)) = Len(c) + 1
    BY <2>8, <2>9, OneMore
  <2>11. Len(c) < MaxBytes
    <3>1. Len(varint(x)) \in 1..MaxBytes
      BY <1>5, VarintLength
    <3>. QED  BY <2>9, <2>10, <3>1, MaxBytesBound
  <2>12. PICK g : IsParts(g, c, Len(c))
    BY <2>9, PartsExist
  <2>13. g[Len(c)] = q
    BY <2>5, <2>7, <2>12 DEF Inverted
  <2>14. IsParts(f, varint(x), Len(c) + 1)
    BY <1>7, <2>10
  <2>15. Len(c) \in 0..Len(c)
    BY <2>9
  <2>16. f[Len(c) + 1] = (b % More) + More * g[Len(c)]
    <3>1. Shifted(f, g, b, c)
      BY <2>8, <2>9, <2>11, <2>12, <2>14, PartsShift, Zenon
    <3>. QED  BY <2>15, <3>1 DEF Shifted
  <2>17. b % m = r
    <3>1. b = m * 1 + r
      BY <2>6
    <3>2. (m * 1 + r) % m = r
      BY DivisionUnique
    <3>. QED  BY <3>1, <3>2
  <2>18. f[Len(c) + 1] = x
    BY <1>6, <2>2, <2>13, <2>16, <2>17
  <2>. QED  BY <1>7, <2>10, <2>18
<1>. QED  BY <1>5, <1>6, <1>8, <1>9

\* readUint32 gives what writeUint32 was given.
LEMMA ValueOfVarint ==
  ASSUME NEW x \in Unsigned
  PROVE  Value(varint(x)) = x
<1>1. varint(x) \in Seq(Int)
  BY VarintLength
<1>2. PICK f : IsParts(f, varint(x), Len(varint(x)))
               /\ Value(varint(x)) = f[Len(varint(x))] % 2^Width
  BY <1>1, ValueParts
<1>3. f[Len(varint(x))] = x
  BY <1>2, VarintInverted DEF Inverted
<1>4. PICK w \in Nat \ {0} : w = 2^Width /\ x \in 0..(w - 1)
  BY MoreBits DEF Unsigned
<1>5. x % w = x
  BY <1>4
<1>. QED  BY <1>2, <1>3, <1>4, <1>5

\* The zigzag encoding can be inverted on every value of the type.
LEMMA Zigzag ==
  ASSUME NEW v \in (-(2^(Width - 1)))..(2^(Width - 1) - 1)
  PROVE  EncodeZigzag(v) \in Unsigned /\ DecodeZigzag(EncodeZigzag(v)) = v
<1>1. PICK h \in Nat \ {0} : h = 2^(Width - 1) /\ 2^Width = 2 * h
  BY MoreBits
<1>2. v \in Int /\ -h <= v /\ v <= h - 1
  BY <1>1
<1>3. PICK u : u = EncodeZigzag(v)
  OBVIOUS
<1>4. CASE v < 0
  <2>1. PICK y \in 1..h : y = -v
    BY <1>2, <1>4
  <2>2. y % (2 * h) = y
    BY <2>1
  <2>3. (y * 2 - 1) % (2 * h) = y * 2 - 1
    BY <2>1
  <2>4. u = y * 2 - 1
    BY <1>1, <1>3, <1>4, <2>1, <2>2, <2>3 DEF EncodeZigzag
  <2>5. u % 2 = 1 /\ u \div 2 = y - 1
    <3>1. y * 2 - 1 = 2 * (y - 1) + 1 /\ y - 1 \in Int /\ 1 \in 0..(2 - 1) /\ 2 \in Nat \ {0}
      BY <2>1
    <3>2. (2 * (y - 1) + 1) \div 2 = y - 1 /\ (2 * (y - 1) + 1) % 2 = 1
      BY <3>1, DivisionUnique, Zenon
    <3>. QED  BY <2>4, <3>1, <3>2
  <2>6. DecodeZigzag(u) = v
    BY <1>2, <2>1, <2>5 DEF DecodeZigzag
  <2>7. u \in Unsigned
    BY <1>1, <2>1, <2>4 DEF Unsigned
  <2>. QED  BY <1>3, <2>6, <2>7
<1>5. CASE v >= 0
  <2>1. u = v * 2
    BY <1>2, <1>3, <1>5 DEF EncodeZigzag
  <2>2. u % 2 = 0 /\ u \div 2 = v
    <3>1. v * 2 = 2 * v + 0 /\ v \in Int /\ 0 \in 0..(2 - 1) /\ 2 \in Nat \ {0}
      BY <1>2
    <3>2. (2 * v + 0) \div 2 = v /\ (2 * v + 0) % 2 = 0
      BY <3>1, DivisionUnique, Zenon
    <3>. QED  BY <2>1, <3>1, <3>2
  <2>3. DecodeZigzag(u) = v
    BY <2>2 DEF DecodeZigzag
  <2>4. u \in Unsigned
    BY <1>1, <1>2, <1>5, <2>1 DEF Unsigned
  <2>. QED  BY <1>3, <2>3, <2>4
<1>. QED  BY <1>2, <1>4, <1>5

\* Integers of two bytes can be read in the order they were written in.
LEMMA FixedBytes ==
  ASSUME NEW v \in Nat, NEW little \in BOOLEAN
  PROVE  /\ fixed(v, little) \in Seq(Int) /\ unfixed(fixed(v, little), little) = v
<1>1. PICK m \in Nat \ {0} : m = 2 * More
  BY MoreBits
<1>2. PICK lo \in Int, hi \in Int : lo = v % m /\ hi = v \div m /\ v = lo + m * hi
  OBVIOUS
<1>3. fixed(v, little) = IF little THEN <<lo, hi>> ELSE <<hi, lo>>
  BY <1>1, <1>2 DEF fixed
<1>4. <<lo, hi>> \in Seq(Int) /\ <<hi, lo>> \in Seq(Int)
  OBVIOUS
<1>5. CASE little
  <2>1. fixed(v, little) = <<lo, hi>>
    BY <1>3, <1>5
  <2>2. unfixed(<<lo, hi>>, little) = lo + m * hi
    BY <1>1, <1>5 DEF unfixed
  <2>. QED  BY <1>2, <1>4, <2>1, <2>2, Zenon
<1>6. CASE ~ little
  <2>1. fixed(v, little) = <<hi, lo>>
    BY <1>3, <1>6
  <2>2. unfixed(<<hi, lo>>, little) = lo + m * hi
    BY <1>1, <1>6 DEF unfixed
  <2>. QED  BY <1>2, <1>4, <2>1, <2>2, Zenon
<1>. QED  BY <1>5, <1>6

-----------------------------------------------------------------------------
(* Files.                                                                   *)

\* writeToFile before the first block, and at the i-th.
SaveStart(s) == [left |-> getReadSize(s), pos |-> s.position, data |-> << >>, bad |-> FALSE]
SaveLen(s, p) == (IF p.left > s.base THEN s.base ELSE p.left) - (p.pos % s.base)
SaveFrom(s, i, p) == At(s, s.cur + i - 1, p.pos % s.base)
SaveStep(s, i, p) ==
  IF p.left <= 0 \/ s.cur + i - 1 > Capacity(s) \div s.base THEN p
  ELSE [left |-> p.left - SaveLen(s, p), pos |-> p.pos + SaveLen(s, p),
        bad |-> p.bad \/ SaveLen(s, p) < 0,
        data |-> IF p.bad \/ SaveLen(s, p) < 0 THEN p.data
                 ELSE p.data \o SubSeq(s.cells, SaveFrom(s, i, p) + 1,
                                       SaveFrom(s, i, p) + SaveLen(s, p))]

\* f is what writeToFile does at the first n blocks.
IsSaving(f, s, n) ==
  f = [i \in 0..n |-> IF i = 0 THEN SaveStart(s) ELSE SaveStep(s, i, f[i - 1])]

\* There is such a function.
LEMMA SavingExists ==
  ASSUME NEW s, NEW l \in Nat
  PROVE  \E f : IsSaving(f, s, l)
<1>1. PICK bad : bad = {n \in Nat : ~ \E f : IsSaving(f, s, n)}
  OBVIOUS
<1>2. SUFFICES ASSUME bad # {} PROVE FALSE
  BY <1>1
<1>3. bad \subseteq Nat
  BY <1>1
<1>4. PICK n \in bad : \A y \in bad : n <= y
  BY <1>2, <1>3, LeastNumber
<1>5. n \in Nat /\ ~ \E f : IsSaving(f, s, n)
  BY <1>1
<1>6. CASE n = 0
  <2>1. PICK f : f = [i \in 0..0 |-> SaveStart(s)]
    OBVIOUS
  <2>2. IsSaving(f, s, 0)
    BY <2>1 DEF IsSaving
  <2>. QED  BY <1>5, <1>6, <2>2
<1>7. CASE n # 0
  <2>1. n - 1 \in Nat /\ ~ (n <= n - 1)
    BY <1>5, <1>7
  <2>2. n - 1 \notin bad
    BY <1>4, <2>1
  <2>3. PICK g : IsSaving(g, s, n - 1)
    BY <1>1, <2>1, <2>2
  <2>4. PICK f : f = [i \in 0..n |-> IF i = n THEN SaveStep(s, n, g[n - 1]) ELSE g[i]]
    OBVIOUS
  <2>5. \A i \in 0..n : f[i] = IF i = n THEN SaveStep(s, n, g[n - 1]) ELSE g[i]
    BY <2>4
  <2>6. \A i \in 0..(n - 1) : f[i] = g[i]
    BY <1>5, <2>5
  <2>7. \A i \in 0..(n - 1) : g[i] = IF i = 0 THEN SaveStart(s) ELSE SaveStep(s, i, g[i - 1])
    BY <2>3 DEF IsSaving
  <2>8. ASSUME NEW i \in 0..n
        PROVE  f[i] = IF i = 0 THEN SaveStart(s) ELSE SaveStep(s, i, f[i - 1])
    <3>1. CASE i = n
      <4>1. n - 1 \in 0..(n - 1) /\ n \in 0..n
        BY <1>5, <2>1
      <4>. QED  BY <1>7, <2>5, <2>6, <3>1, <4>1
    <3>2. CASE i # n
      <4>1. i \in 0..(n - 1) /\ (i # 0 => i - 1 \in 0..(n - 1))
        BY <1>5, <3>2
      <4>. QED  BY <2>6, <2>7, <4>1
    <3>. QED  BY <3>1, <3>2
  <2>9. f = [i \in 0..n |-> f[i]]
    BY <2>4
  <2>10. IsSaving(f, s, n)
    BY <2>8, <2>9 DEF IsSaving
  <2>. QED  BY <1>5, <2>10
<1>. QED  BY <1>6, <1>7

\* It is what writeToFile computes.
LEMMA SavingIs ==
  ASSUME NEW s, Capacity(s) \div s.base \in Nat
  PROVE  \E f : /\ IsSaving(f, s, Capacity(s) \div s.base)
                /\ Saving(s) = f[Capacity(s) \div s.base]
<1>1. \E f : IsSaving(f, s, Capacity(s) \div s.base)
  BY SavingExists
<1>. QED  BY <1>1 DEF Saving, IsSaving, SaveStart, SaveStep, SaveLen, SaveFrom

\* A part and the one behind it.
Adjoin(c, a, m, n) ==
  SubSeq(c, a + 1, a + m) \o SubSeq(c, (a + m) + 1, (a + m) + n) = SubSeq(c, a + 1, a + (m + n))

\* They are one part.
LEMMA PartsJoined ==
  ASSUME NEW c \in Seq(Int), NEW a \in Nat, NEW m \in Nat, NEW n \in Nat,
         a + (m + n) <= Len(c)
  PROVE  Adjoin(c, a, m, n)
<1>1. PICK e : e = SubSeq(c, a + 1, a + m)
  OBVIOUS
<1>2. PICK f : f = SubSeq(c, (a + m) + 1, (a + m) + n)
  OBVIOUS
<1>3. PICK g : g = SubSeq(c, a + 1, a + (m + n))
  OBVIOUS
<1>4. PICK h : h = e \o f
  OBVIOUS
<1>5. a + m <= Len(c) /\ (a + m) + n <= Len(c) /\ a + m \in Nat /\ m + n \in Nat
  OBVIOUS
<1>6. e \in Seq(Int) /\ Len(e) = m /\ \A i \in 1..m : e[i] = c[a + i]
  BY <1>1, <1>5, Part
<1>7. f \in Seq(Int) /\ Len(f) = n /\ \A i \in 1..n : f[i] = c[(a + m) + i]
  BY <1>2, <1>5, Part
<1>8. g \in Seq(Int) /\ Len(g) = m + n /\ \A i \in 1..(m + n) : g[i] = c[a + i]
  BY <1>3, <1>5, Part
<1>9. /\ h \in Seq(Int) /\ Len(h) = m + n
      /\ \A i \in 1..m : h[i] = e[i]
  <2>1. IsJoined(h, e, f)
    BY <1>4, <1>6, <1>7, Joined
  <2>. QED  BY <1>6, <1>7, <2>1 DEF IsJoined
<1>10. \A k \in 1..n : h[m + k] = f[k]
  <2>1. IsJoined(h, e, f)
    BY <1>4, <1>6, <1>7, Joined
  <2>. QED  BY <1>6, <1>7, <2>1 DEF IsJoined
<1>11. ASSUME NEW i \in 1..(m + n) PROVE h[i] = g[i]
  <2>1. CASE i <= m
    <3>1. i \in 1..m
      BY <2>1
    <3>. QED  BY <1>6, <1>8, <1>9, <3>1, Zenon
  <2>2. CASE i > m
    <3>1. PICK k \in 1..n : k = i - m /\ m + k = i /\ (a + m) + k = a + i
      BY <2>2
    <3>2. h[i] = f[k] /\ f[k] = c[a + i]
      BY <1>7, <1>10, <3>1, Zenon
    <3>3. g[i] = c[a + i]
      BY <1>8, Zenon
    <3>. QED  BY <3>2, <3>3
  <2>. QED  BY <2>1, <2>2
<1>12. h = g
  BY <1>8, <1>9, <1>11, SameSequence
<1>. QED  BY <1>1, <1>2, <1>3, <1>4, <1>12 DEF Adjoin

\* writeToFile has written d bytes.
IsSaved(p, s, d) ==
  /\ p.left = getReadSize(s) - d /\ p.pos = s.position + d /\ p.bad = FALSE
  /\ p.data = SubSeq(s.cells, s.position + 1, s.position + d)

\* A state of writeToFile.
SaveState(left, pos, data) == [left |-> left, pos |-> pos, bad |-> FALSE, data |-> data]
IsSaveState(t, left, pos, data) ==
  t.left = left /\ t.pos = pos /\ t.bad = FALSE /\ t.data = data

\* Its fields.
LEMMA SaveFields ==
  ASSUME NEW left, NEW pos, NEW data
  PROVE  IsSaveState(SaveState(left, pos, data), left, pos, data)
BY DEF SaveState, IsSaveState

\* It has written i - 1 blocks, and writes n bytes next.
Blocks(s, i, d) == d = (i - 1) * s.base
NextBytes(s, d, n) == n = IF getReadSize(s) - d > s.base THEN s.base ELSE getReadSize(s) - d

\* Whole blocks, and how many.
LEMMA WholeBlocks ==
  ASSUME NEW a \in Nat, NEW b \in Nat \ {0}, a % b = 0
  PROVE  a \div b \in Nat /\ a = b * (a \div b)
<1>1. PICK q \in Int : q = a \div b /\ a = b * q
  BY Division
<1>2. ASSUME q <= -1 PROVE FALSE
  <2>1. b * q <= -b
    BY <1>2
  <2>. QED  BY <1>1, <2>1
<1>. QED  BY <1>1, <1>2

\* From the start of a block on it writes one block, or what is left.
LEMMA SaveBlock ==
  ASSUME NEW s, Good(s), s.position % s.base = 0, NEW i \in Nat \ {0},
         NEW d \in Nat, Blocks(s, i, d), d < getReadSize(s), NEW p, IsSaved(p, s, d),
         NEW n \in Nat, NextBytes(s, d, n)
  PROVE  IsSaved(SaveStep(s, i, p), s, d + n)
<1>1. PICK base \in Nat \ {0}, q \in Nat, l \in Nat, cap \in Nat, c \in Seq(Int) :
         /\ base = s.base /\ q = s.position /\ l = s.size /\ cap = Capacity(s) /\ c = s.cells
         /\ cap = Len(c) /\ q <= l /\ l <= cap /\ cap % base = 0 /\ q % base = 0
  BY Fields DEF Good, Placed, Capacity
<1>2. getReadSize(s) = l - q
  BY <1>1 DEF getReadSize
<1>3. /\ d < l - q /\ n = (IF (l - q) - d > base THEN base ELSE (l - q) - d)
      /\ q + d < cap /\ q + (d + n) <= l /\ q < cap /\ n > 0
  <2>1. d < l - q /\ n = IF (l - q) - d > base THEN base ELSE (l - q) - d
    BY <1>1, <1>2 DEF NextBytes
  <2>2. q <= l /\ l <= cap
    BY <1>1
  <2>3. CASE (l - q) - d > base
    BY <2>1, <2>2, <2>3
  <2>4. CASE ~ ((l - q) - d > base)
    BY <2>1, <2>2, <2>4
  <2>. QED  BY <2>3, <2>4
<1>4. PICK j \in Nat : q = base * j /\ j = q \div base
  BY <1>1, WholeBlocks, Zenon
<1>5. PICK k \in Nat : cap = base * k /\ k = cap \div base
  BY <1>1, WholeBlocks, Zenon
<1>6. s.cur = j + 1
  BY <1>1, <1>3, <1>4 DEF Good, Placed
<1>7. (j + (i - 1)) * base = q + d /\ base * (j + (i - 1)) = q + d
  <2>1. (j + (i - 1)) * base = base * j + (i - 1) * base
    OBVIOUS
  <2>2. base * (j + (i - 1)) = base * j + (i - 1) * base
    OBVIOUS
  <2>3. d = (i - 1) * base
    BY <1>1 DEF Blocks
  <2>. QED  BY <1>4, <2>1, <2>2, <2>3
<1>8. j + (i - 1) < k
  <2>1. ASSUME j + (i - 1) >= k PROVE FALSE
    <3>1. base * (j + (i - 1)) >= base * k
      BY <2>1
    <3>. QED  BY <1>3, <1>5, <1>7, <3>1
  <2>. QED  BY <2>1
<1>9. (q + d) % base = 0
  <2>1. q + d \in Int /\ j + (i - 1) \in Int
    OBVIOUS
  <2>. QED  BY <1>7, <2>1, Multiple
<1>10. p.left = (l - q) - d /\ p.pos = q + d /\ p.bad = FALSE /\ p.data = SubSeq(c, q + 1, q + d)
  BY <1>1, <1>2 DEF IsSaved
<1>11. SaveLen(s, p) = n
  <2>1. SaveLen(s, p) = (IF (l - q) - d > base THEN base ELSE (l - q) - d) - 0
    BY <1>1, <1>9, <1>10 DEF SaveLen
  <2>2. n - 0 = n
    OBVIOUS
  <2>. QED  BY <1>3, <2>1, <2>2
<1>12. SaveFrom(s, i, p) = q + d
  <2>1. SaveFrom(s, i, p) = ((j + 1 + i - 1) - 1) * base + (0 % base)
    BY <1>1, <1>6, <1>9, <1>10 DEF SaveFrom, At
  <2>2. (j + 1 + i - 1) - 1 = j + (i - 1) /\ 0 % base = 0
    OBVIOUS
  <2>. QED  BY <1>7, <2>1, <2>2
<1>13. ~ (p.left <= 0) /\ ~ (s.cur + i - 1 > Capacity(s) \div s.base)
  <2>1. ~ ((l - q) - d <= 0)
    BY <1>3
  <2>2. ~ (j + 1 + i - 1 > k)
    BY <1>8
  <2>. QED  BY <1>1, <1>5, <1>6, <1>10, <2>1, <2>2, Zenon
<1>14. ~ (p.bad \/ SaveLen(s, p) < 0)
  <2>1. ~ (n < 0)
    OBVIOUS
  <2>. QED  BY <1>10, <1>11, <2>1
<1>15. SaveStep(s, i, p)
         = [left |-> p.left - n, pos |-> p.pos + n, bad |-> FALSE,
            data |-> p.data \o SubSeq(s.cells, (q + d) + 1, (q + d) + n)]
  BY <1>11, <1>12, <1>13, <1>14 DEF SaveStep
<1>16. SubSeq(c, q + 1, q + d) \o SubSeq(c, (q + d) + 1, (q + d) + n)
         = SubSeq(c, q + 1, q + (d + n))
  <2>1. l <= cap /\ cap = Len(c) /\ q + (d + n) <= l
    BY <1>1, <1>3
  <2>2. q + (d + n) <= Len(c)
    BY <2>1
  <2>3. q \in Nat /\ d \in Nat /\ n \in Nat /\ c \in Seq(Int)
    OBVIOUS
  <2>4. Adjoin(c, q, d, n)
    BY <2>2, <2>3, PartsJoined, Zenon
  <2>. QED  BY <2>4 DEF Adjoin
<1>17. ((l - q) - d) - n = (l - q) - (d + n) /\ (q + d) + n = q + (d + n)
  OBVIOUS
<1>18. PICK t : t = SaveStep(s, i, p)
  OBVIOUS
<1>19. /\ t.left = p.left - n /\ t.pos = p.pos + n /\ t.bad = FALSE
       /\ t.data = p.data \o SubSeq(s.cells, (q + d) + 1, (q + d) + n)
  <2>1. PICK x, y, z : /\ x = p.left - n /\ y = p.pos + n
                       /\ z = p.data \o SubSeq(s.cells, (q + d) + 1, (q + d) + n)
    OBVIOUS
  <2>2. t = SaveState(x, y, z)
    BY <1>15, <1>18, <2>1, Zenon DEF SaveState
  <2>3. t.left = x /\ t.pos = y /\ t.bad = FALSE /\ t.data = z
    <3>1. IsSaveState(t, x, y, z)
      BY <2>2, SaveFields, Zenon
    <3>. QED  BY <3>1, Zenon DEF IsSaveState
  <2>. QED  BY <2>1, <2>3, Zenon
<1>20. /\ t.left = (l - q) - (d + n) /\ t.pos = q + (d + n)
       /\ t.data = SubSeq(c, q + 1, q + (d + n))
  BY <1>1, <1>10, <1>16, <1>17, <1>19, Zenon
<1>. QED  BY <1>1, <1>2, <1>18, <1>19, <1>20, Zenon DEF IsSaved

\* From the start of a block on writeToFile saves what can be read.
LEMMA SavingExact ==
  ASSUME NEW s, Good(s), s.position % s.base = 0
  PROVE  /\ Saving(s).left = 0
         /\ Saving(s).data = SubSeq(s.cells, s.position + 1, s.size)
<1>1. PICK base \in Nat \ {0}, q \in Nat, l \in Nat, cap \in Nat :
         /\ base = s.base /\ q = s.position /\ l = s.size /\ cap = Capacity(s)
         /\ q <= l /\ l <= cap /\ cap % base = 0
  BY Fields DEF Good, Placed
<1>2. PICK r \in Nat : r = getReadSize(s) /\ r = l - q /\ r <= cap
  BY <1>1 DEF getReadSize
<1>3. PICK k \in Nat : cap = base * k /\ k = cap \div base
  BY <1>1, WholeBlocks, Zenon
<1>4. k * base = base * k
  OBVIOUS
<1>5. PICK f : IsSaving(f, s, k) /\ Saving(s) = f[k]
  <2>1. Capacity(s) \div s.base = k
    BY <1>1, <1>3
  <2>. QED  BY <2>1, SavingIs
<1>6. \A i \in 0..k : f[i] = IF i = 0 THEN SaveStart(s) ELSE SaveStep(s, i, f[i - 1])
  BY <1>5 DEF IsSaving
<1>. DEFINE D(i) == IF i * base > r THEN r ELSE i * base
<1>7. PICK bad : bad = {i \in 0..k : ~ IsSaved(f[i], s, D(i))}
  OBVIOUS
<1>8. ASSUME bad # {} PROVE FALSE
  <2>1. bad \subseteq Nat
    BY <1>7
  <2>2. PICK i \in bad : \A y \in bad : i <= y
    BY <1>8, <2>1, LeastNumber
  <2>3. i \in 0..k /\ i \in Nat /\ ~ IsSaved(f[i], s, D(i))
    BY <1>7, <2>1
  <2>4. CASE i = 0
    <3>1. D(0) = 0
      <4>1. 0 * base = 0
        OBVIOUS
      <4>. QED  BY <4>1
    <3>2. f[0] = SaveStart(s)
      BY <1>6, <2>3, <2>4
    <3>3. SubSeq(s.cells, q + 1, q + 0) = << >> /\ r - 0 = r /\ q + 0 = q
      <4>1. s.cells \in Seq(Int)
        BY Fields DEF Good
      <4>. QED  BY <4>1
    <3>4. IsSaved(SaveStart(s), s, 0)
      BY <1>1, <1>2, <3>3 DEF IsSaved, SaveStart
    <3>. QED  BY <2>3, <2>4, <3>1, <3>2, <3>4
  <2>5. CASE i # 0
    <3>1. PICK h \in Nat : h = i - 1 /\ h \in 0..k /\ ~ (i <= h) /\ i = h + 1
      BY <2>3, <2>5
    <3>2. PICK d \in Nat : d = D(h)
      <4>1. h * base \in Nat
        OBVIOUS
      <4>. QED  BY <4>1
    <3>3. IsSaved(f[h], s, d)
      BY <1>7, <2>2, <3>1, <3>2, Zenon
    <3>4. f[i] = SaveStep(s, i, f[h])
      BY <1>6, <2>3, <2>5, <3>1
    <3>5. PICK x \in Nat, y \in Nat : x = h * base /\ y = i * base /\ y = x + base
      <4>1. (h + 1) * base = h * base + base /\ h * base \in Nat /\ (h + 1) * base \in Nat
        OBVIOUS
      <4>. QED  BY <3>1, <4>1
    <3>6. CASE x >= r
      <4>1. d = r /\ D(i) = r
        BY <3>2, <3>5, <3>6
      <4>2. f[h].left = 0
        <5>1. f[h].left = r - r
          BY <1>2, <3>3, <4>1 DEF IsSaved
        <5>. QED  BY <5>1
      <4>3. SaveStep(s, i, f[h]) = f[h]
        BY <4>2 DEF SaveStep
      <4>. QED  BY <2>3, <3>3, <3>4, <4>1, <4>3
    <3>7. CASE x < r
      <4>1. d = x
        BY <3>2, <3>5, <3>7
      <4>2. PICK n \in Nat : n = IF r - d > base THEN base ELSE r - d
        BY <3>7, <4>1
      <4>3. d + n = D(i)
        BY <3>5, <3>7, <4>1, <4>2
      <4>4. i \in Nat \ {0} /\ Blocks(s, i, d) /\ d < getReadSize(s)
        BY <1>1, <1>2, <2>3, <2>5, <3>1, <3>5, <3>7, <4>1 DEF Blocks
      <4>5. NextBytes(s, d, n)
        BY <1>1, <1>2, <4>2 DEF NextBytes
      <4>6. IsSaved(SaveStep(s, i, f[h]), s, d + n)
        BY <3>3, <4>4, <4>5, SaveBlock, Zenon
      <4>. QED  BY <2>3, <3>4, <4>3, <4>6
    <3>. QED  BY <3>6, <3>7
  <2>. QED  BY <2>4, <2>5
<1>9. k \in 0..k /\ k * base = cap
  BY <1>3, <1>4
<1>10. D(k) = r
  BY <1>2, <1>9
<1>11. IsSaved(f[k], s, r)
  BY <1>7, <1>8, <1>9, <1>10, Zenon
<1>12. q + r = l /\ r - r = 0
  BY <1>2
<1>. QED  BY <1>1, <1>2, <1>5, <1>11, <1>12 DEF IsSaved

\* readFromFile: how often it writes, and what.
FileParts(s, data) == Len(data) \div s.base + 1
FilePart(s, data, i) ==
  SubSeq(data, (i - 1) * s.base + 1, IF i = FileParts(s, data) THEN Len(data) ELSE i * s.base)
Loaded(s, data, b) ==
  LET done[i \in 0..FileParts(s, data)] ==
        IF i = 0 THEN s ELSE write(done[i - 1], FilePart(s, data, i), b)
  IN  done

\* f is what readFromFile does in its first n writes.
IsLoading(f, s, data, b, n) ==
  f = [i \in 0..n |-> IF i = 0 THEN s ELSE write(f[i - 1], FilePart(s, data, i), b)]

\* There is such a function.
LEMMA LoadingExists ==
  ASSUME NEW s, NEW data, NEW b, NEW l \in Nat
  PROVE  \E f : IsLoading(f, s, data, b, l)
<1>1. PICK bad : bad = {n \in Nat : ~ \E f : IsLoading(f, s, data, b, n)}
  OBVIOUS
<1>2. SUFFICES ASSUME bad # {} PROVE FALSE
  BY <1>1
<1>3. bad \subseteq Nat
  BY <1>1
<1>4. PICK n \in bad : \A y \in bad : n <= y
  BY <1>2, <1>3, LeastNumber
<1>5. n \in Nat /\ ~ \E f : IsLoading(f, s, data, b, n)
  BY <1>1
<1>6. CASE n = 0
  <2>1. PICK f : f = [i \in 0..0 |-> s]
    OBVIOUS
  <2>2. IsLoading(f, s, data, b, 0)
    BY <2>1 DEF IsLoading
  <2>. QED  BY <1>5, <1>6, <2>2
<1>7. CASE n # 0
  <2>1. n - 1 \in Nat /\ ~ (n <= n - 1)
    BY <1>5, <1>7
  <2>2. n - 1 \notin bad
    BY <1>4, <2>1
  <2>3. PICK g : IsLoading(g, s, data, b, n - 1)
    BY <1>1, <2>1, <2>2
  <2>4. PICK f : f = [i \in 0..n |->
                    IF i = n THEN write(g[n - 1], FilePart(s, data, n), b) ELSE g[i]]
    OBVIOUS
  <2>5. \A i \in 0..n : f[i] = IF i = n THEN write(g[n - 1], FilePart(s, data, n), b) ELSE g[i]
    BY <2>4
  <2>6. \A i \in 0..(n - 1) : f[i] = g[i]
    BY <1>5, <2>5
  <2>7. \A i \in 0..(n - 1) : g[i] = IF i = 0 THEN s ELSE write(g[i - 1], FilePart(s, data, i), b)
    BY <2>3 DEF IsLoading
  <2>8. ASSUME NEW i \in 0..n
        PROVE  f[i] = IF i = 0 THEN s ELSE write(f[i - 1], FilePart(s, data, i), b)
    <3>1. CASE i = n
      <4>1. n - 1 \in 0..(n - 1) /\ n \in 0..n
        BY <1>5, <2>1
      <4>. QED  BY <1>7, <2>5, <2>6, <3>1, <4>1
    <3>2. CASE i # n
      <4>1. i \in 0..(n - 1) /\ (i # 0 => i - 1 \in 0..(n - 1))
        BY <1>5, <3>2
      <4>. QED  BY <2>6, <2>7, <4>1
    <3>. QED  BY <3>1, <3>2
  <2>9. f = [i \in 0..n |-> f[i]]
    BY <2>4
  <2>10. IsLoading(f, s, data, b, n)
    BY <2>8, <2>9 DEF IsLoading
  <2>. QED  BY <1>5, <2>10
<1>. QED  BY <1>6, <1>7

\* The writes of readFromFile.
LEMMA LoadedSteps ==
  ASSUME NEW s, NEW data, NEW b, FileParts(s, data) \in Nat
  PROVE  /\ Loaded(s, data, b)[0] = s
         /\ \A i \in 1..FileParts(s, data) :
              Loaded(s, data, b)[i]
                = write(Loaded(s, data, b)[i - 1], FilePart(s, data, i), b)
<1>1. \E f : IsLoading(f, s, data, b, FileParts(s, data))
  BY LoadingExists
<1>2. IsLoading(Loaded(s, data, b), s, data, b, FileParts(s, data))
  BY <1>1 DEF Loaded, IsLoading
<1>3. PICK n \in Nat : n = FileParts(s, data)
  OBVIOUS
<1>4. PICK f : f = Loaded(s, data, b)
  OBVIOUS
<1>5. \A i \in 0..n : f[i] = IF i = 0 THEN s ELSE write(f[i - 1], FilePart(s, data, i), b)
  BY <1>2, <1>3, <1>4 DEF IsLoading
<1>6. f[0] = s
  BY <1>5
<1>7. ASSUME NEW i \in 1..n PROVE f[i] = write(f[i - 1], FilePart(s, data, i), b)
  <2>1. i \in 0..n /\ i # 0
    OBVIOUS
  <2>. QED  BY <1>5, <2>1
<1>. QED  BY <1>3, <1>4, <1>6, <1>7

\* The end of the i-th part.
FileEnd(s, data, i) == IF i = FileParts(s, data) THEN Len(data) ELSE i * s.base

\* The first parts and the next.
LEMMA NextPart ==
  ASSUME NEW s, s.base \in Nat \ {0}, NEW data \in Seq(Int), NEW i \in 1..FileParts(s, data)
  PROVE  /\ FilePart(s, data, i) \in Seq(Int)
         /\ SubSeq(data, 1, FileEnd(s, data, i - 1)) \in Seq(Int)
         /\ SubSeq(data, 1, FileEnd(s, data, i - 1)) \o FilePart(s, data, i)
              = SubSeq(data, 1, FileEnd(s, data, i))
<1>1. PICK base \in Nat \ {0}, l \in Nat : base = s.base /\ l = Len(data)
  OBVIOUS
<1>2. PICK q \in Int, r \in 0..(base - 1) : q = l \div base /\ l = base * q + r
  OBVIOUS
<1>3. FileParts(s, data) = q + 1
  BY <1>1, <1>2 DEF FileParts
<1>4. PICK m \in Nat : m = (i - 1) * base
  <2>1. i - 1 \in Nat
    OBVIOUS
  <2>. QED  BY <2>1
<1>5. i - 1 <= q /\ i - 1 # FileParts(s, data)
  BY <1>3
<1>6. m <= l
  <2>1. (i - 1) * base <= base * q
    BY <1>5
  <2>. QED  BY <1>2, <1>4, <2>1
<1>7. FileEnd(s, data, i - 1) = m
  BY <1>1, <1>4, <1>5 DEF FileEnd
<1>8. PICK e \in Nat : e = FileEnd(s, data, i) /\ m <= e /\ e <= l
  <2>1. CASE i = FileParts(s, data)
    BY <1>1, <1>6, <2>1 DEF FileEnd
  <2>2. CASE i # FileParts(s, data)
    <3>1. i <= q
      BY <1>3, <2>2
    <3>2. i * base <= base * q /\ i * base = (i - 1) * base + base /\ i * base \in Nat
      BY <3>1
    <3>3. FileEnd(s, data, i) = i * base
      BY <1>1, <2>2 DEF FileEnd
    <3>. QED  BY <1>2, <1>4, <3>2, <3>3
  <2>. QED  BY <2>1, <2>2
<1>9. FilePart(s, data, i) = SubSeq(data, m + 1, e)
  BY <1>1, <1>4, <1>8 DEF FilePart, FileEnd
<1>10. PICK n \in Nat : e = m + n
  <2>1. e - m \in Nat /\ e = m + (e - m)
    BY <1>8
  <2>. QED  BY <2>1
<1>11. /\ 0 + (m + n) <= Len(data) /\ 0 + m <= Len(data) /\ m + n <= Len(data) /\ 0 \in Nat
       /\ 0 + m = m /\ 0 + 1 = 1 /\ 0 + (m + n) = m + n
  BY <1>1, <1>8, <1>10
<1>12. Adjoin(data, 0, m, n)
  BY <1>11, PartsJoined, Zenon
<1>13. SubSeq(data, 1, m) \o SubSeq(data, m + 1, m + n) = SubSeq(data, 1, m + n)
  BY <1>11, <1>12, Zenon DEF Adjoin
<1>14. SubSeq(data, m + 1, m + n) \in Seq(Int)
  BY <1>11, Part
<1>15. SubSeq(data, 0 + 1, 0 + m) \in Seq(Int)
  BY <1>11, Part, Zenon
<1>. QED  BY <1>7, <1>8, <1>9, <1>10, <1>11, <1>13, <1>14, <1>15, Zenon

\* One of the writes has found too few blocks.
FewLoaded(s, data, b) ==
  \E i \in 1..FileParts(s, data) : TooFew(Loaded(s, data, b)[i - 1], Len(FilePart(s, data, i)))

\* readFromFile writes the file, unless one of its writes has found too few blocks.
LEMMA LoadExact ==
  ASSUME NEW s, Good(s), NEW f, Holds(s, f), NEW data \in Seq(Int), NEW b \in Int
  PROVE  /\ FileParts(s, data) \in Nat \ {0}
         /\ \/ IsWritten(Loaded(s, data, b)[FileParts(s, data)], s, f, data)
            \/ /\ Loaded(s, data, b)[FileParts(s, data)].status = "null"
               /\ Loaded(s, data, b)[FileParts(s, data)] \in Array
               /\ FewLoaded(s, data, b)
<1>1. s.base \in Nat \ {0}
  BY Fields DEF Good
<1>2. PICK n \in Nat \ {0} : n = FileParts(s, data)
  <2>1. PICK l \in Nat, base \in Nat \ {0} : l = Len(data) /\ base = s.base
    BY <1>1
  <2>2. l \div base \in Nat
    OBVIOUS
  <2>. QED  BY <2>1, <2>2 DEF FileParts
<1>3. PICK g : g = Loaded(s, data, b)
  OBVIOUS
<1>4. g[0] = s /\ \A i \in 1..n : g[i] = write(g[i - 1], FilePart(s, data, i), b)
  BY <1>2, <1>3, LoadedSteps
<1>. DEFINE Stopped(i) == /\ g[i].status = "null" /\ g[i] \in Array
                          /\ \E j \in 1..i : TooFew(g[j - 1], Len(FilePart(s, data, j)))
            Reached(i) == IsWritten(g[i], s, f, SubSeq(data, 1, FileEnd(s, data, i)))
<1>5. PICK bad : bad = {i \in 0..n : ~ (Reached(i) \/ Stopped(i))}
  OBVIOUS
<1>6. ASSUME bad # {} PROVE FALSE
  <2>1. bad \subseteq Nat
    BY <1>5
  <2>2. PICK i \in bad : \A y \in bad : i <= y
    BY <1>6, <2>1, LeastNumber
  <2>3. i \in 0..n /\ i \in Nat /\ ~ Reached(i) /\ ~ Stopped(i)
    BY <1>5, <2>1
  <2>4. CASE i = 0
    <3>1. 0 # FileParts(s, data) /\ 0 * s.base = 0
      BY <1>1, <1>2
    <3>2. FileEnd(s, data, 0) = 0
      BY <3>1 DEF FileEnd
    <3>3. SubSeq(data, 1, 0) = << >>
      OBVIOUS
    <3>4. IsWritten(s, s, f, << >>)
      BY NothingWritten
    <3>. QED  BY <1>4, <2>3, <2>4, <3>2, <3>3, <3>4
  <2>5. CASE i # 0
    <3>1. PICK h \in Nat : h = i - 1 /\ h \in 0..n /\ ~ (i <= h) /\ i \in 1..n
      BY <2>3, <2>5
    <3>2. Reached(h) \/ Stopped(h)
      BY <1>5, <2>2, <3>1, Zenon
    <3>3. g[i] = write(g[h], FilePart(s, data, i), b)
      BY <1>4, <3>1
    <3>4. CASE Stopped(h)
      <4>1. g[i] = g[h]
        BY <3>3, <3>4, WriteAfterCrash
      <4>2. \A j \in 1..h : j \in 1..i
        BY <3>1
      <4>3. Stopped(i)
        BY <3>4, <4>1, <4>2
      <4>. QED  BY <2>3, <4>3
    <3>5. CASE Reached(h)
      <4>1. PICK c, d : c = SubSeq(data, 1, FileEnd(s, data, h)) /\ d = FilePart(s, data, i)
        OBVIOUS
      <4>2. d \in Seq(Int) /\ c \in Seq(Int) /\ c \o d = SubSeq(data, 1, FileEnd(s, data, i))
        BY <1>1, <1>2, <3>1, <4>1, NextPart
      <4>3. IsWritten(g[h], s, f, c)
        BY <3>5, <4>1
      <4>4. \/ IsWritten(write(g[h], d, b), s, f, c \o d)
            \/ /\ write(g[h], d, b).status = "null" /\ TooFew(g[h], Len(d))
               /\ write(g[h], d, b) \in Array
        BY <4>2, <4>3, WriteMore, Zenon
      <4>5. Reached(i) \/ Stopped(i)
        <5>1. i \in 1..i
          BY <3>1
        <5>. QED  BY <3>1, <3>3, <4>1, <4>2, <4>4, <5>1, Zenon
      <4>. QED  BY <2>3, <4>5
    <3>. QED  BY <3>2, <3>4, <3>5
  <2>. QED  BY <2>4, <2>5
<1>7. n \in 0..n
  OBVIOUS
<1>8. Reached(n) \/ Stopped(n)
  BY <1>5, <1>6, <1>7, Zenon
<1>9. SubSeq(data, 1, FileEnd(s, data, n)) = data
  <2>1. FileEnd(s, data, n) = Len(data)
    BY <1>2 DEF FileEnd
  <2>. QED  BY <2>1
<1>. QED  BY <1>2, <1>3, <1>8, <1>9, Zenon DEF FewLoaded

-----------------------------------------------------------------------------
(* Setting the position.                                                    *)

\* What setPosition, clear and recvmsg change.
Sought(s, cur, position, size) == [s EXCEPT !.position = position, !.size = size, !.cur = cur]
Cut(s, c) == [s EXCEPT !.position = 0, !.size = 0, !.cells = c, !.cur = 1]
Refilled(s, c) == [s EXCEPT !.cells = c]

\* They leave the other fields.
LEMMA SeekFields ==
  ASSUME NEW s \in Array, NEW c, NEW cur, NEW position, NEW size
  PROVE  /\ Sought(s, cur, position, size) = Moved(s, s.cells, cur, position, size)
         /\ Cut(s, c) = Moved(s, c, 1, 0, 0)
         /\ Refilled(s, c) = Moved(s, c, s.cur, s.position, s.size)
BY DEF Moved, Array, Sought, Cut, Refilled

\* setPosition moves within the blocks, or throws.
LEMMA SetPosition ==
  ASSUME NEW s, Good(s), NEW v \in Nat
  PROVE  /\ v > Capacity(s) => setPosition(s, v) = Throw(s)
         /\ ~ (v > Capacity(s)) =>
              IsAt(setPosition(s, v), s, s.cells, v, IF v > s.size THEN v ELSE s.size)
<1>1. CASE v > Capacity(s)
  BY <1>1 DEF setPosition
<1>2. CASE ~ (v > Capacity(s))
  <2>1. /\ s \in Array /\ s.cells \in Seq(Int) /\ Len(s.cells) = Capacity(s) /\ Capacity(s) \in Nat
        /\ s.size \in Nat /\ s.size <= Capacity(s)
    BY Fields DEF Good, Placed, Capacity
  <2>2. PICK size \in Nat : size = (IF v > s.size THEN v ELSE s.size)
                            /\ v <= size /\ size <= Capacity(s)
    BY <1>2, <2>1
  <2>3. setPosition(s, v) = Sought(s, BlockAfter(s, v), v, size)
    BY <1>2, <2>2, Zenon DEF setPosition, Sought
  <2>4. setPosition(s, v) = Moved(s, s.cells, BlockAfter(s, v), v, size)
    BY <2>1, <2>3, SeekFields, ZenonT(30)
  <2>5. IsAt(setPosition(s, v), s, s.cells, v, size)
    BY <2>1, <2>2, <2>4, GoodPlace, Zenon
  <2>. QED  BY <1>2, <2>2, <2>5, Zenon
<1>. QED  BY <1>1, <1>2

\* What there is behind m_size counts as written once the position is behind it.
LEMMA SeekHolds ==
  ASSUME NEW s, Good(s), NEW f, Holds(s, f), NEW v \in Nat, v <= Capacity(s),
         NEW w, IsAt(w, s, s.cells, v, IF v > s.size THEN v ELSE s.size)
  PROVE  Holds(w, IF v \in (s.size + 1)..Capacity(s)
                  THEN f \o SubSeq(s.cells, s.size + 1, v) ELSE f)
<1>1. PICK c \in Seq(Int), l \in Nat, cap \in Nat :
         /\ c = s.cells /\ l = s.size /\ cap = Capacity(s) /\ cap = Len(c) /\ l <= cap
  BY Fields DEF Good, Placed, Capacity
<1>2. f \in Seq(Int) /\ Len(f) = l /\ \A i \in 1..l : c[i] = f[i]
  BY <1>1 DEF Holds
<1>3. w.cells = c /\ w.size = IF v > l THEN v ELSE l
  BY <1>1 DEF IsAt
<1>4. CASE v > l
  <2>1. v \in (l + 1)..cap
    BY <1>1, <1>4
  <2>2. PICK n \in Nat : v = l + n /\ l + n <= Len(c)
    <3>1. v - l \in Nat /\ v = l + (v - l) /\ l + (v - l) <= Len(c)
      BY <1>1, <1>4
    <3>. QED  BY <3>1
  <2>3. PICK e : e = SubSeq(c, l + 1, v)
    OBVIOUS
  <2>4. e \in Seq(Int) /\ Len(e) = n /\ \A i \in 1..n : e[i] = c[l + i]
    BY <2>2, <2>3, Part
  <2>5. PICK g : g = f \o e
    OBVIOUS
  <2>6. /\ g \in Seq(Int) /\ Len(g) = l + n
        /\ \A i \in 1..l : g[i] = f[i]
    <3>1. IsJoined(g, f, e)
      BY <1>2, <2>4, <2>5, Joined
    <3>. QED  BY <1>2, <2>4, <3>1 DEF IsJoined
  <2>7. \A i \in 1..n : g[l + i] = e[i]
    <3>1. IsJoined(g, f, e)
      BY <1>2, <2>4, <2>5, Joined
    <3>. QED  BY <1>2, <2>4, <3>1 DEF IsJoined
  <2>8. ASSUME NEW i \in 1..v PROVE c[i] = g[i]
    <3>1. CASE i <= l
      <4>1. i \in 1..l
        BY <3>1
      <4>. QED  BY <1>2, <2>6, <4>1, Zenon
    <3>2. CASE i > l
      <4>1. PICK k \in 1..n : i = l + k
        <5>1. i - l \in 1..n /\ i = l + (i - l)
          BY <2>2, <3>2
        <5>. QED  BY <5>1
      <4>. QED  BY <2>4, <2>7, <4>1
    <3>. QED  BY <3>1, <3>2
  <2>9. w.size = v
    BY <1>3, <1>4
  <2>10. Holds(w, g)
    BY <1>3, <2>2, <2>6, <2>8, <2>9 DEF Holds
  <2>. QED  BY <1>1, <2>1, <2>3, <2>5, <2>10, Zenon
<1>5. CASE ~ (v > l)
  <2>1. v \notin (l + 1)..cap
    BY <1>5
  <2>2. w.size = l
    BY <1>3, <1>5
  <2>3. Holds(w, f)
    BY <1>2, <1>3, <2>2 DEF Holds
  <2>. QED  BY <1>1, <2>1, <2>3, Zenon
<1>. QED  BY <1>4, <1>5

\* clear leaves one block.
LEMMA Cleared ==
  ASSUME NEW s, Good(s)
  PROVE  Good(clear(s)) /\ Holds(clear(s), << >>)
<1>1. PICK base \in Nat \ {0}, c \in Seq(Int) :
         base = s.base /\ c = s.cells /\ base <= Len(c) /\ s \in Array /\ Works(s)
  BY Fields DEF Good, Placed, Capacity
<1>2. PICK d : d = SubSeq(c, 1, base)
  OBVIOUS
<1>3. d \in Seq(Int) /\ Len(d) = base
  BY <1>1, <1>2
<1>4. PICK w : w = clear(s)
  OBVIOUS
<1>5. w = Moved(s, d, 1, 0, 0)
  <2>1. w = Cut(s, d)
    BY <1>1, <1>2, <1>4, Zenon DEF clear, Cut
  <2>. QED  BY <1>1, <2>1, SeekFields, Zenon
<1>6. IsMoved(Moved(s, d, 1, 0, 0), s, d, 1, 0, 0)
  BY <1>1, <1>3, MovedFields
<1>7. /\ w \in Array /\ w.base = base /\ w.cells = d /\ w.cur = 1
      /\ w.position = 0 /\ w.size = 0 /\ w.status = s.status
  BY <1>1, <1>5, <1>6 DEF IsMoved
<1>8. Capacity(w) = base
  BY <1>3, <1>7 DEF Capacity
<1>9. base % base = 0 /\ 0 \div base + 1 = 1 /\ 0 # base
  <2>1. base * 1 + 0 = base /\ base * 0 + 0 = 0 /\ 0 \in 0..(base - 1)
    OBVIOUS
  <2>2. (base * 1 + 0) % base = 0 /\ (base * 0 + 0) \div base = 0
    BY <2>1, DivisionUnique
  <2>. QED  BY <2>1, <2>2
<1>10. Placed(w)
  BY <1>7, <1>8, <1>9 DEF Placed
<1>11. Holds(w, << >>)
  BY <1>7 DEF Holds
<1>. QED  BY <1>1, <1>4, <1>7, <1>10, <1>11 DEF Good, Works

\* What recvmsg has filled is behind the position, which is then behind it.
LEMMA Received ==
  ASSUME NEW s, Good(s), NEW f, Holds(s, f), NEW n \in Nat \ {0}, NEW t, IsRoom(t, s, n),
         s.position + n <= Capacity(t), NEW got \in Seq(Int), got # << >>, Len(got) <= n,
         NEW filled, filled = Refilled(t, Fill(t.cells, s.position, got))
  PROVE  /\ Good(setPosition(filled, s.position + Len(got)))
         /\ Holds(setPosition(filled, s.position + Len(got)), Overwrite(f, s.position, got))
<1>1. PICK p \in Nat : p = s.position
  BY Fields DEF Good
<1>2. /\ Good(t) /\ t.base = s.base /\ t.position = p /\ t.size = s.size
      /\ p < Capacity(t) /\ Capacity(s) <= Capacity(t)
      /\ \A i \in 1..Capacity(s) : t.cells[i] = s.cells[i]
  BY <1>1 DEF IsRoom
<1>3. PICK cap \in Nat, l \in Nat, c \in Seq(Int) :
         /\ cap = Capacity(t) /\ l = t.size /\ c = t.cells /\ cap = Len(c)
         /\ p <= l /\ l <= cap
  BY <1>2, Fields DEF Good, Placed, Capacity
<1>4. PICK k \in Nat \ {0} : k = Len(got) /\ p + k <= cap
  <2>1. PICK k \in Nat \ {0} : k = Len(got)
    OBVIOUS
  <2>2. k <= n /\ p + n <= cap
    BY <1>1, <1>3, <2>1
  <2>3. p + k <= cap
    BY <2>2
  <2>. QED  BY <2>1, <2>3
<1>5. PICK d : d = Fill(c, p, got)
  OBVIOUS
<1>6. d \in Seq(Int) /\ Len(d) = cap
  <2>1. IsFilled(d, c, p, got)
    BY <1>5, Filled
  <2>. QED  BY <1>3, <2>1 DEF IsFilled
<1>7. t.cur = BlockAfter(t, p)
  <2>1. p # Capacity(t) /\ p \in Nat /\ p < Capacity(t)
    BY <1>2, <1>3
  <2>2. t.cur = p \div t.base + 1
    BY <1>2, <2>1 DEF Good, Placed
  <2>. QED  BY <1>2, <2>1, <2>2, AtPosition
<1>8. filled = Moved(t, d, BlockAfter(t, p), p, l)
  <2>1. t \in Array
    BY <1>2 DEF Good
  <2>2. filled = Refilled(t, d)
    BY <1>1, <1>3, <1>5
  <2>3. filled = Moved(t, d, t.cur, t.position, t.size)
    BY <2>1, <2>2, SeekFields, Zenon
  <2>. QED  BY <1>2, <1>3, <1>7, <2>3
<1>9. IsAt(filled, t, d, p, l)
  <2>1. Len(d) = Capacity(t) /\ p <= l /\ l <= Capacity(t) /\ p \in Nat /\ l \in Nat
    BY <1>3, <1>6
  <2>. QED  BY <1>2, <1>6, <1>8, <2>1, GoodPlace, Zenon
<1>10. Good(filled) /\ filled.cells = d /\ filled.size = l /\ Capacity(filled) = cap
  BY <1>3, <1>9 DEF IsAt
<1>11. PICK w : w = setPosition(filled, p + k)
  OBVIOUS
<1>12. ~ (p + k > Capacity(filled)) /\ p + k \in Nat
  BY <1>4, <1>10
<1>13. IsAt(w, filled, filled.cells, p + k, IF p + k > filled.size THEN p + k ELSE filled.size)
  BY <1>10, <1>11, <1>12, SetPosition, Zenon
<1>14. Good(w) /\ w.cells = d /\ w.size = IF p + k > l THEN p + k ELSE l
  BY <1>10, <1>13, Zenon DEF IsAt
<1>15. Holds(w, Overwrite(f, s.position, got))
  <2>1. /\ w.cells = Fill(c, s.position, got)
        /\ w.size = IF s.position + Len(got) > s.size THEN s.position + Len(got) ELSE s.size
    BY <1>1, <1>2, <1>3, <1>4, <1>5, <1>14, Zenon
  <2>2. s.size <= Len(c) /\ s.position + Len(got) <= Len(c)
    BY <1>1, <1>2, <1>3, <1>4
  <2>3. \A i \in 1..s.size : c[i] = s.cells[i]
    <3>1. s.size \in Nat /\ Capacity(s) \in Nat /\ s.size <= Capacity(s)
      BY Fields DEF Good, Placed
    <3>. QED  BY <1>2, <1>3, <3>1
  <2>. QED  BY <2>1, <2>2, <2>3, FillHolds, Zenon
<1>. QED  BY <1>1, <1>4, <1>11, <1>14, <1>15

-----------------------------------------------------------------------------
(* The invariant.                                                           *)

\* The array is well placed and holds the bytes of the reference, or it has crashed where
\* the code can; and the last operation has returned what it should.
Sound == \/ Good(ba) /\ Holds(ba, flat)
         \/ ba.status = "null" /\ out.excused
Inv == Sound /\ out.ok

\* It says what the runs check.
LEMMA InvImplies ==
  Inv => CurAtPosition /\ ContentsExact /\ ReadsExact /\ CrashesExplained
<1>. SUFFICES ASSUME Inv PROVE CurAtPosition /\ ContentsExact /\ ReadsExact /\ CrashesExplained
  OBVIOUS
<1>1. out.ok
  BY Zenon DEF Inv
<1>2. CASE Good(ba) /\ Holds(ba, flat)
  <2>1. PICK s, f : s = ba /\ f = flat
    OBVIOUS
  <2>2. Good(s) /\ Holds(s, f)
    BY <1>2, <2>1
  <2>3. Placed(s) /\ s.status = "works" /\ s.status # "null"
    BY <2>2 DEF Good, Works
  <2>4. SubSeq(s.cells, 1, s.size) = f
    <3>1. s.size \in Nat /\ 0 + s.size = s.size /\ 0 + 1 = 1 /\ 0 + s.size <= s.size /\ 0 \in Nat
      BY <2>2, Fields DEF Good
    <3>2. SubSeq(s.cells, 0 + 1, 0 + s.size) = SubSeq(f, 0 + 1, 0 + s.size)
      BY <2>2, <3>1, ReadBytes, Zenon
    <3>3. SubSeq(f, 1, Len(f)) = f /\ Len(f) = s.size
      BY <2>2 DEF Holds
    <3>. QED  BY <3>1, <3>2, <3>3, Zenon
  <2>5. CurAtPosition
    BY <2>1, <2>3, Zenon DEF CurAtPosition, Placed
  <2>6. ContentsExact /\ CrashesExplained
    BY <2>1, <2>3, <2>4 DEF ContentsExact, CrashesExplained
  <2>. QED  BY <1>1, <2>5, <2>6 DEF ReadsExact
<1>3. CASE ba.status = "null" /\ out.excused
  <2>1. ~ Ready
    BY <1>3 DEF Ready
  <2>. QED  BY <1>1, <1>3, <2>1, Zenon
              DEF CurAtPosition, ContentsExact, ReadsExact, CrashesExplained
<1>. QED  BY <1>2, <1>3, Zenon DEF Inv, Sound

\* What the allocator leaves are bytes.
LEMMA LeftoverInt ==
  ASSUME NEW b \in Leftovers
  PROVE  b \in Int
BY MoreBits, InputAssumption DEF Byte

\* It holds at the start.
LEMMA InvInit ==
  Init => Inv
<1>. SUFFICES ASSUME Init PROVE Inv
  OBVIOUS
<1>1. PICK base \in Bases, b \in Leftovers :
         ba = [base |-> base, cells |-> [i \in 1..base |-> b], cur |-> 1,
               position |-> 0, size |-> 0, status |-> "works"]
  BY DEF Init
<1>2. base \in Nat \ {0} /\ b \in Int
  BY ByteArrayAssumption, LeftoverInt
<1>3. PICK c : c = [i \in 1..base |-> b]
  OBVIOUS
<1>4. c \in Seq(Int) /\ Len(c) = base
  BY <1>2, <1>3
<1>5. PICK s : s = ba
  OBVIOUS
<1>6. s \in Array /\ s.base = base /\ s.cells = c /\ s.cur = 1 /\ s.position = 0 /\ s.size = 0
      /\ s.status = "works"
  BY <1>1, <1>2, <1>3, <1>4, <1>5 DEF Array
<1>7. base % base = 0 /\ 0 \div base + 1 = 1 /\ 0 # base
  <2>1. base * 1 + 0 = base /\ base * 0 + 0 = 0 /\ 0 \in 0..(base - 1)
    BY <1>2
  <2>2. (base * 1 + 0) % base = 0 /\ (base * 0 + 0) \div base = 0
    BY <1>2, <2>1, DivisionUnique
  <2>. QED  BY <1>2, <2>1, <2>2
<1>8. Placed(s)
  BY <1>2, <1>4, <1>6, <1>7 DEF Placed, Capacity
<1>9. Holds(s, << >>)
  BY <1>6 DEF Holds
<1>10. Good(s)
  BY <1>6, <1>8 DEF Good, Works
<1>11. flat = << >> /\ out.ok
  BY Zenon DEF Init
<1>. QED  BY <1>5, <1>9, <1>10, <1>11, Zenon DEF Inv, Sound

\* What an operation must leave for the invariant.
Leaves(w, f, excused) ==
  \/ Good(w) /\ Holds(w, f)
  \/ \E s : w = Throw(s) /\ Good(s) /\ Holds(s, f)
  \/ w.status = "null" /\ w \in Array /\ excused

\* An operation that leaves it keeps the invariant.
LEMMA EndsKeeps ==
  ASSUME NEW w, NEW excused, Leaves(w, flat', excused), NEW ok, ok, Ends(w, ok, excused)
  PROVE  Inv'
<1>1. ba' = Caught(w) /\ out' = [ok |-> ok, excused |-> w.status = "null" /\ excused]
  BY DEF Ends
<1>2. out'.ok
  BY <1>1, Zenon
<1>3. PICK f : f = flat'
  OBVIOUS
<1>4. CASE Good(w) /\ Holds(w, f)
  <2>1. w \in Array /\ Works(w)
    BY <1>4 DEF Good
  <2>2. ba' = w
    BY <1>1, <2>1, Catching
  <2>. QED  BY <1>2, <1>3, <1>4, <2>2, Zenon DEF Inv, Sound
<1>5. CASE \E s : w = Throw(s) /\ Good(s) /\ Holds(s, f)
  <2>1. PICK s : w = Throw(s) /\ Good(s) /\ Holds(s, f)
    BY <1>5
  <2>2. s \in Array /\ Works(s)
    BY <2>1 DEF Good
  <2>3. ba' = s
    BY <1>1, <2>1, <2>2, Catching
  <2>. QED  BY <1>2, <1>3, <2>1, <2>3, Zenon DEF Inv, Sound
<1>6. CASE w.status = "null" /\ w \in Array /\ excused
  <2>1. ba' = w
    BY <1>1, <1>6, Catching
  <2>2. out'.excused
    BY <1>1, <1>6, Zenon
  <2>. QED  BY <1>2, <1>6, <2>1, <2>2, Zenon DEF Inv, Sound
<1>. QED  BY <1>3, <1>4, <1>5, <1>6, Zenon DEF Leaves

-----------------------------------------------------------------------------
(* One operation after the other keeps the invariant.                       *)

\* Before it crashes the array is good.
LEMMA ReadyGood ==
  ASSUME Inv, Ready
  PROVE  Good(ba) /\ Holds(ba, flat)
BY Zenon DEF Inv, Sound, Ready

\* Writing an integer or a string.
LEMMA PutKeeps ==
  ASSUME Inv, NEW d \in Seq(Int), NEW e \in Seq(Int), NEW inverse, inverse,
         Put(d, e, inverse)
  PROVE  Inv'
<1>1. Ready /\ Good(ba) /\ Holds(ba, flat)
  BY ReadyGood DEF Put
<1>2. PICK s : s = ba
  OBVIOUS
<1>3. PICK f : f = flat
  OBVIOUS
<1>4. Good(s) /\ Holds(s, f)
  BY <1>1, <1>2, <1>3
<1>5. PICK b \in Leftovers :
         Ends(write(write(s, d, b), e, b), inverse,
              TooFew(s, Len(d)) \/ TooFew(write(s, d, b), Len(e)))
  BY <1>2, Zenon DEF Put
<1>6. b \in Int
  BY LeftoverInt
<1>7. PICK t : t = write(s, d, b)
  OBVIOUS
<1>8. PICK w : w = write(t, e, b)
  OBVIOUS
<1>9. \/ IsWritten(w, s, f, d \o e)
      \/ w.status = "null" /\ (TooFew(s, Len(d)) \/ TooFew(t, Len(e))) /\ w \in Array
  BY <1>4, <1>6, <1>7, <1>8, WriteTwice
<1>10. flat' = Overwrite(f, s.position, d \o e)
  BY <1>2, <1>3, Zenon DEF Put
<1>11. Leaves(w, flat', TooFew(s, Len(d)) \/ TooFew(t, Len(e)))
  BY <1>9, <1>10, Zenon DEF Leaves, IsWritten
<1>12. Ends(w, inverse, TooFew(s, Len(d)) \/ TooFew(t, Len(e)))
  BY <1>5, <1>7, <1>8, Zenon
<1>. QED  BY <1>11, <1>12, EndsKeeps, Zenon

\* writeUint32.
LEMMA WriteUint32Keeps ==
  ASSUME Inv, NEW u \in Unsigned, writeUint32(u)
  PROVE  Inv'
<1>1. Put(varint(u), << >>, Value(varint(u)) = u /\ Len(varint(u)) <= MaxBytes)
  BY Zenon DEF writeUint32
<1>2. varint(u) \in Seq(Int) /\ << >> \in Seq(Int) /\ Len(varint(u)) <= MaxBytes
  BY VarintLength, MaxBytesBound
<1>3. Value(varint(u)) = u
  BY ValueOfVarint
<1>. QED  BY <1>1, <1>2, <1>3, PutKeeps, Zenon

\* writeInt32.
LEMMA WriteInt32Keeps ==
  ASSUME Inv, NEW v \in (-(2^(Width - 1)))..(2^(Width - 1) - 1), writeInt32(v)
  PROVE  Inv'
<1>1. PICK u : u = EncodeZigzag(v)
  OBVIOUS
<1>2. Put(varint(u), << >>, u \in Unsigned /\ DecodeZigzag(u) = v)
  BY <1>1, Zenon DEF writeInt32
<1>3. u \in Unsigned /\ DecodeZigzag(u) = v
  BY <1>1, Zigzag
<1>4. varint(u) \in Seq(Int) /\ << >> \in Seq(Int)
  BY <1>3, VarintLength
<1>. QED  BY <1>2, <1>3, <1>4, PutKeeps, Zenon

\* writeFint16 and the other integers of fixed length.
LEMMA WriteFint16Keeps ==
  ASSUME Inv, NEW v \in Nat, NEW little \in BOOLEAN, writeFint16(v, little)
  PROVE  Inv'
<1>1. Put(fixed(v, little), << >>, unfixed(fixed(v, little), little) = v)
  BY Zenon DEF writeFint16
<1>2. fixed(v, little) \in Seq(Int) /\ unfixed(fixed(v, little), little) = v
  BY FixedBytes
<1>3. << >> \in Seq(Int)
  OBVIOUS
<1>. QED  BY <1>1, <1>2, <1>3, PutKeeps, Zenon

\* writeStringVint.
LEMMA WriteStringVintKeeps ==
  ASSUME Inv, NEW str \in Seq(Int), Len(str) \in Unsigned, writeStringVint(str)
  PROVE  Inv'
<1>1. Put(varint(Len(str)), str, TRUE)
  BY Zenon DEF writeStringVint
<1>2. varint(Len(str)) \in Seq(Int)
  BY VarintLength
<1>. QED  BY <1>1, <1>2, PutKeeps, Zenon

\* The bytes between two positions, as read and as written.
LEMMA Agree ==
  ASSUME NEW s, Good(s), NEW f, Holds(s, f), NEW n \in Nat, s.position + n <= s.size,
         s.position < Capacity(s)
  PROVE  Given(s, n) = SubSeq(f, s.position + 1, s.position + n)
<1>1. s.position \in Nat
  BY Fields DEF Good
<1>2. SubSeq(s.cells, s.position + 1, s.position + n) = SubSeq(f, s.position + 1, s.position + n)
  BY <1>1, ReadBytes
<1>. QED  BY <1>2, GivenBytes

\* A thrown exception is not a crash.
LEMMA Thrown ==
  ASSUME NEW s, Good(s)
  PROVE  ~ Works(Throw(s)) /\ Throw(s).status = "out_of_range"
<1>1. s \in Array
  BY DEF Good
<1>. QED  BY <1>1, Catching DEF Works

\* readFint8 and the other reads of some bytes.
LEMMA ReadBytesKeeps ==
  ASSUME Inv, NEW n \in Nat \ {0}, readBytes(n)
  PROVE  Inv'
<1>1. Ready /\ Good(ba) /\ Holds(ba, flat)
  BY ReadyGood DEF readBytes
<1>2. PICK s, f : s = ba /\ f = flat
  OBVIOUS
<1>3. Good(s) /\ Holds(s, f)
  BY <1>1, <1>2
<1>4. PICK w : w = read(s, n)
  OBVIOUS
<1>5. /\ Ends(w, Works(w) => Given(s, n) = SubSeq(f, s.position + 1, w.position), FALSE)
      /\ flat' = f
  BY <1>2, <1>4, Zenon DEF readBytes, Get
<1>6. \/ w = Throw(s)
      \/ n <= getReadSize(s) /\ s.position < Capacity(s)
         /\ IsAt(w, s, s.cells, s.position + n, s.size)
  BY <1>3, <1>4, Read
<1>7. CASE w = Throw(s)
  <2>1. ~ Works(w)
    BY <1>3, <1>7, Thrown
  <2>2. Leaves(w, flat', FALSE)
    BY <1>3, <1>5, <1>7, Zenon DEF Leaves
  <2>. QED  BY <1>5, <2>1, <2>2, EndsKeeps, Zenon
<1>8. CASE n <= getReadSize(s) /\ s.position < Capacity(s)
           /\ IsAt(w, s, s.cells, s.position + n, s.size)
  <2>1. Good(w) /\ w.cells = s.cells /\ w.size = s.size /\ w.position = s.position + n
    BY <1>8 DEF IsAt
  <2>2. Holds(w, f)
    BY <1>3, <2>1, StillHolds
  <2>3. s.position + n <= s.size
    <3>1. s.position \in Nat /\ s.size \in Nat
      BY <1>3, Fields DEF Good
    <3>. QED  BY <1>8, <3>1 DEF getReadSize
  <2>4. Given(s, n) = SubSeq(f, s.position + 1, w.position)
    BY <1>3, <1>8, <2>1, <2>3, Agree
  <2>5. Leaves(w, flat', FALSE)
    BY <1>5, <2>1, <2>2, Zenon DEF Leaves
  <2>. QED  BY <1>5, <2>4, <2>5, EndsKeeps, Zenon
<1>. QED  BY <1>6, <1>7, <1>8, Zenon

\* readUint32 and the other integers of variable length.
LEMMA ReadUint32Keeps ==
  ASSUME Inv, readUint32
  PROVE  Inv'
<1>1. Ready /\ Good(ba) /\ Holds(ba, flat)
  BY ReadyGood DEF readUint32
<1>2. PICK s, f : s = ba /\ f = flat
  OBVIOUS
<1>3. Good(s) /\ Holds(s, f)
  BY <1>1, <1>2
<1>4. PICK w : w = readVarint(s)
  OBVIOUS
<1>5. /\ Ends(w, Works(w) => Given(s, w.position - s.position)
                               = SubSeq(f, s.position + 1, w.position), FALSE)
      /\ flat' = f
  BY <1>2, <1>4, Zenon DEF readUint32, Get
<1>6. CASE \E t : w = Throw(t) /\ Good(t) /\ t.cells = s.cells /\ t.size = s.size
  <2>1. PICK t : w = Throw(t) /\ Good(t) /\ t.cells = s.cells /\ t.size = s.size
    BY <1>6
  <2>2. ~ Works(w)
    BY <2>1, Thrown
  <2>3. Holds(t, f)
    BY <1>3, <2>1, StillHolds
  <2>4. Leaves(w, flat', FALSE)
    BY <1>5, <2>1, <2>3, Zenon DEF Leaves
  <2>. QED  BY <1>5, <2>2, <2>4, EndsKeeps, Zenon
<1>7. CASE /\ s.position < Capacity(s)
           /\ \E n \in 1..getReadSize(s) : IsAt(w, s, s.cells, s.position + n, s.size)
  <2>1. PICK n \in 1..getReadSize(s) : IsAt(w, s, s.cells, s.position + n, s.size)
    BY <1>7
  <2>2. Good(w) /\ w.cells = s.cells /\ w.size = s.size /\ w.position = s.position + n
    BY <2>1 DEF IsAt
  <2>3. Holds(w, f)
    BY <1>3, <2>2, StillHolds
  <2>4. n \in Nat /\ s.position + n <= s.size /\ w.position - s.position = n
    <3>1. PICK p \in Nat, l \in Nat : p = s.position /\ l = s.size
      BY <1>3, Fields DEF Good
    <3>2. n \in 1..(l - p)
      BY <3>1 DEF getReadSize
    <3>. QED  BY <2>2, <3>1, <3>2
  <2>5. Given(s, w.position - s.position) = SubSeq(f, s.position + 1, w.position)
    BY <1>3, <1>7, <2>2, <2>4, Agree
  <2>6. Leaves(w, flat', FALSE)
    BY <1>5, <2>2, <2>3, Zenon DEF Leaves
  <2>. QED  BY <1>5, <2>5, <2>6, EndsKeeps, Zenon
<1>. QED  BY <1>3, <1>4, <1>6, <1>7, ReadVarint

\* readStringVint.
LEMMA ReadStringVintKeeps ==
  ASSUME Inv, readStringVint
  PROVE  Inv'
<1>1. Ready /\ Good(ba) /\ Holds(ba, flat)
  BY ReadyGood DEF readStringVint
<1>2. PICK s, f : s = ba /\ f = flat
  OBVIOUS
<1>3. Good(s) /\ Holds(s, f)
  BY <1>1, <1>2
<1>4. PICK r : r = readVarint(s)
  OBVIOUS
<1>5. PICK n : n = Value(Given(s, r.position - s.position))
  OBVIOUS
<1>6. PICK w : w = read(r, n)
  OBVIOUS
<1>7. /\ Ends(w, Works(w) => Given(s, w.position - s.position)
                               = SubSeq(f, s.position + 1, w.position), n = 0)
      /\ flat' = f
  BY <1>2, <1>4, <1>5, <1>6, Zenon DEF readStringVint
<1>8. CASE \E t : r = Throw(t) /\ Good(t) /\ t.cells = s.cells /\ t.size = s.size
  <2>1. PICK t : r = Throw(t) /\ Good(t) /\ t.cells = s.cells /\ t.size = s.size
    BY <1>8
  <2>2. ~ Works(r)
    BY <2>1, Thrown
  <2>3. w = r
    BY <1>6, <2>2 DEF read
  <2>4. Holds(t, f)
    BY <1>3, <2>1, StillHolds
  <2>5. Leaves(w, flat', n = 0)
    BY <1>7, <2>1, <2>3, <2>4, Zenon DEF Leaves
  <2>. QED  BY <1>7, <2>2, <2>3, <2>5, EndsKeeps, Zenon
<1>9. CASE /\ s.position < Capacity(s)
           /\ \E k \in 1..getReadSize(s) : IsAt(r, s, s.cells, s.position + k, s.size)
  <2>1. PICK k \in 1..getReadSize(s) : IsAt(r, s, s.cells, s.position + k, s.size)
    BY <1>9
  <2>2. Good(r) /\ r.cells = s.cells /\ r.size = s.size /\ r.position = s.position + k
    BY <2>1 DEF IsAt
  <2>3. Holds(r, f)
    BY <1>3, <2>2, StillHolds
  <2>4. PICK p \in Nat, l \in Nat, c \in Seq(Int) :
           p = s.position /\ l = s.size /\ c = s.cells /\ l <= Len(c)
    BY <1>3, Fields DEF Good, Placed, Capacity
  <2>5. k \in Nat /\ p + k <= l /\ r.position - s.position = k
    <3>1. k \in 1..(l - p)
      BY <2>4 DEF getReadSize
    <3>. QED  BY <2>2, <2>4, <3>1
  <2>6. n \in Nat
    <3>1. Given(s, k) = SubSeq(c, p + 1, p + k)
      BY <1>3, <1>9, <2>4, GivenBytes
    <3>2. p + k <= Len(c)
      BY <2>4, <2>5
    <3>3. SubSeq(c, p + 1, p + k) \in Seq(Int)
      BY <2>5, <3>2, Part
    <3>. QED  BY <1>5, <2>5, <3>1, <3>3, ValueNat
  <2>7. \/ w = Throw(r)
        \/ n = 0 /\ w = Crash(r)
        \/ n <= getReadSize(r) /\ IsAt(w, r, r.cells, r.position + n, r.size)
    BY <1>6, <2>2, <2>6, Read
  <2>8. CASE w = Throw(r)
    <3>1. ~ Works(w)
      BY <2>2, <2>8, Thrown
    <3>2. Leaves(w, flat', n = 0)
      BY <1>7, <2>2, <2>3, <2>8, Zenon DEF Leaves
    <3>. QED  BY <1>7, <3>1, <3>2, EndsKeeps, Zenon
  <2>9. CASE n = 0 /\ w = Crash(r)
    <3>1. r \in Array
      BY <2>2 DEF Good
    <3>2. w \in Array /\ w.status = "null"
      BY <2>9, <3>1, Catching
    <3>3. ~ Works(w)
      BY <3>2 DEF Works
    <3>4. Leaves(w, flat', n = 0)
      BY <2>9, <3>2, Zenon DEF Leaves
    <3>. QED  BY <1>7, <3>3, <3>4, EndsKeeps, Zenon
  <2>10. CASE n <= getReadSize(r) /\ IsAt(w, r, r.cells, r.position + n, r.size)
    <3>1. Good(w) /\ w.cells = r.cells /\ w.size = r.size /\ w.position = r.position + n
      BY <2>10 DEF IsAt
    <3>2. Holds(w, f)
      BY <2>3, <3>1, StillHolds
    <3>3. n <= l - (p + k)
      BY <2>2, <2>4, <2>10 DEF getReadSize
    <3>4. /\ k + n \in Nat /\ s.position + (k + n) <= s.size
          /\ w.position - s.position = k + n /\ w.position = s.position + (k + n)
      <4>1. w.position = (p + k) + n /\ s.position = p /\ s.size = l
        BY <2>2, <2>4, <3>1
      <4>2. k + n \in Nat /\ p + (k + n) <= l /\ (p + k) + n = p + (k + n)
            /\ (p + (k + n)) - p = k + n
        BY <2>5, <2>6, <3>3
      <4>. QED  BY <4>1, <4>2
    <3>5. Given(s, k + n) = SubSeq(f, s.position + 1, s.position + (k + n))
      BY <1>3, <1>9, <3>4, Agree
    <3>6. Given(s, w.position - s.position) = SubSeq(f, s.position + 1, w.position)
      BY <3>4, <3>5
    <3>7. Leaves(w, flat', n = 0)
      BY <1>7, <3>1, <3>2, Zenon DEF Leaves
    <3>. QED  BY <1>7, <3>6, <3>7, EndsKeeps, Zenon
  <2>. QED  BY <2>7, <2>8, <2>9, <2>10, Zenon
<1>. QED  BY <1>3, <1>4, <1>8, <1>9, ReadVarint

\* setPosition.
LEMMA SeekKeeps ==
  ASSUME Inv, NEW v \in Nat, Seek(v)
  PROVE  Inv'
<1>1. Ready /\ Good(ba) /\ Holds(ba, flat)
  BY ReadyGood DEF Seek
<1>2. PICK s, f : s = ba /\ f = flat
  OBVIOUS
<1>3. Good(s) /\ Holds(s, f)
  BY <1>1, <1>2
<1>4. PICK w : w = setPosition(s, v)
  OBVIOUS
<1>5. /\ Ends(w, TRUE, FALSE)
      /\ flat' = IF v \in (s.size + 1)..Capacity(s)
                 THEN f \o SubSeq(s.cells, s.size + 1, v) ELSE f
  BY <1>2, <1>4, Zenon DEF Seek
<1>6. Capacity(s) \in Nat
  BY <1>3, Fields DEF Good
<1>7. CASE v > Capacity(s)
  <2>1. w = Throw(s)
    BY <1>3, <1>4, <1>7, SetPosition
  <2>2. v \notin (s.size + 1)..Capacity(s)
    BY <1>6, <1>7
  <2>3. flat' = f
    BY <1>5, <2>2
  <2>4. Leaves(w, flat', FALSE)
    BY <1>3, <2>1, <2>3, Zenon DEF Leaves
  <2>. QED  BY <1>5, <2>4, EndsKeeps, Zenon
<1>8. CASE ~ (v > Capacity(s))
  <2>1. IsAt(w, s, s.cells, v, IF v > s.size THEN v ELSE s.size)
    BY <1>3, <1>4, <1>8, SetPosition, Zenon
  <2>2. v <= Capacity(s)
    BY <1>6, <1>8
  <2>3. Holds(w, IF v \in (s.size + 1)..Capacity(s)
                 THEN f \o SubSeq(s.cells, s.size + 1, v) ELSE f)
    BY <1>3, <2>1, <2>2, SeekHolds, Zenon
  <2>4. Good(w)
    BY <2>1 DEF IsAt
  <2>5. Leaves(w, flat', FALSE)
    BY <1>5, <2>3, <2>4, Zenon DEF Leaves
  <2>. QED  BY <1>5, <2>5, EndsKeeps, Zenon
<1>. QED  BY <1>7, <1>8

\* clear.
LEMMA ClearKeeps ==
  ASSUME Inv, Clear
  PROVE  Inv'
<1>1. Ready /\ Good(ba) /\ Holds(ba, flat)
  BY ReadyGood DEF Clear
<1>2. PICK s : s = ba
  OBVIOUS
<1>3. PICK w : w = clear(s)
  OBVIOUS
<1>4. Ends(w, TRUE, FALSE) /\ flat' = << >>
  BY <1>2, <1>3, Zenon DEF Clear
<1>5. Good(w) /\ Holds(w, << >>)
  BY <1>1, <1>2, <1>3, Cleared
<1>6. Leaves(w, flat', FALSE)
  BY <1>4, <1>5, Zenon DEF Leaves
<1>. QED  BY <1>4, <1>6, EndsKeeps, Zenon

\* A look at some bytes, which is right or excused.
LEMMA LookKeeps ==
  ASSUME Inv, Ready, NEW cur, NEW a, NEW n, NEW pos, NEW excused, Look(cur, a, n, pos, excused),
         \/ excused
         \/ /\ ~ (cur = Null \/ a + n > Capacity(ba))
            /\ SubSeq(ba.cells, a + 1, a + n) = SubSeq(flat, pos + 1, pos + n)
  PROVE  Inv'
<1>1. Good(ba) /\ Holds(ba, flat)
  BY ReadyGood
<1>2. PICK s, f : s = ba /\ f = flat
  OBVIOUS
<1>3. Good(s) /\ Holds(s, f)
  BY <1>1, <1>2
<1>4. PICK w : w = IF cur = Null \/ a + n > Capacity(s) THEN Crash(s) ELSE s
  OBVIOUS
<1>5. /\ Ends(w, excused \/ SubSeq(s.cells, a + 1, a + n) = SubSeq(f, pos + 1, pos + n), excused)
      /\ flat' = f
  BY <1>2, <1>4, Zenon DEF Look
<1>6. CASE cur = Null \/ a + n > Capacity(s)
  <2>1. excused
    BY <1>2, <1>6, Zenon
  <2>2. s \in Array
    BY <1>3 DEF Good
  <2>3. w \in Array /\ w.status = "null"
    BY <1>4, <1>6, <2>2, Catching
  <2>4. Leaves(w, flat', excused)
    BY <2>1, <2>3, Zenon DEF Leaves
  <2>. QED  BY <1>5, <2>1, <2>4, EndsKeeps, Zenon
<1>7. CASE ~ (cur = Null \/ a + n > Capacity(s))
  <2>1. w = s
    BY <1>4, <1>7, Zenon
  <2>2. excused \/ SubSeq(s.cells, a + 1, a + n) = SubSeq(f, pos + 1, pos + n)
    BY <1>2, Zenon
  <2>3. Leaves(w, flat', excused)
    BY <1>3, <1>5, <2>1, Zenon DEF Leaves
  <2>. QED  BY <1>5, <2>2, <2>3, EndsKeeps, Zenon
<1>. QED  BY <1>6, <1>7

\* The look from cell a in block cur on finds the bytes at pos.
RightLook(s, f, cur, a, n, pos) ==
  /\ ~ (cur = Null \/ a + n > Capacity(s))
  /\ SubSeq(s.cells, a + 1, a + n) = SubSeq(f, pos + 1, pos + n)

\* From the position's own block on it does.
LEMMA LookRight ==
  ASSUME NEW s, Good(s), NEW f, Holds(s, f), NEW n \in Nat \ {0}, NEW pos \in Nat,
         pos + n <= s.size
  PROVE  RightLook(s, f, pos \div s.base + 1, pos, n, pos)
<1>1. Capacity(s) \in Nat /\ s.size \in Nat /\ s.size <= Capacity(s)
  BY Fields DEF Good, Placed
<1>2. pos < Capacity(s) /\ ~ (pos + n > Capacity(s))
  BY <1>1
<1>3. pos \div s.base + 1 # Null
  BY <1>2, AtPosition DEF Null
<1>4. SubSeq(s.cells, pos + 1, pos + n) = SubSeq(f, pos + 1, pos + n)
  BY ReadBytes
<1>. QED  BY <1>2, <1>3, <1>4 DEF RightLook

\* read at a position.
LEMMA ReadAtKeeps ==
  ASSUME Inv, NEW n \in Nat \ {0}, NEW pos \in Nat, readAt(n, pos)
  PROVE  Inv'
<1>1. Ready /\ Good(ba) /\ Holds(ba, flat)
  BY ReadyGood DEF readAt
<1>2. PICK s, f : s = ba /\ f = flat
  OBVIOUS
<1>3. Good(s) /\ Holds(s, f)
  BY <1>1, <1>2
<1>4. PICK p \in Nat, l \in Nat, base \in Nat \ {0} :
         p = s.position /\ l = s.size /\ base = s.base /\ Capacity(s) \in Nat
         /\ p <= l /\ l <= Capacity(s)
  BY <1>3, Fields DEF Good, Placed
<1>5. CASE Ends(Throw(s), TRUE, FALSE) /\ flat' = f
  <2>1. Leaves(Throw(s), flat', FALSE)
    BY <1>3, <1>5, Zenon DEF Leaves
  <2>. QED  BY <1>5, <2>1, EndsKeeps, Zenon
<1>6. CASE /\ pos > s.size \/ n <= s.size - pos
           /\ Look(s.cur, At(s, s.cur, pos), n, pos,
                   pos > s.size \/ pos \div s.base # s.position \div s.base)
  <2>1. PICK cur, a : cur = s.cur /\ a = At(s, s.cur, pos)
    OBVIOUS
  <2>2. CASE pos > s.size \/ pos \div s.base # s.position \div s.base
    BY <1>1, <1>6, <2>1, <2>2, LookKeeps, Zenon
  <2>3. CASE ~ (pos > s.size) /\ pos \div s.base = s.position \div s.base
    <3>1. pos + n <= l /\ pos < Capacity(s) /\ pos + n <= s.size
      <4>1. n <= l - pos
        BY <1>4, <1>6, <2>3
      <4>2. pos + n <= l
        BY <1>4, <4>1
      <4>. QED  BY <1>4, <4>2
    <3>2. p < Capacity(s)
      <4>1. ASSUME p = Capacity(s) PROVE FALSE
        <5>1. pos < p /\ p % base = 0
          BY <1>3, <1>4, <3>1, <4>1 DEF Good, Placed
        <5>2. pos \div base + 1 <= p \div base /\ pos \div base \in Nat
          BY <5>1, EarlierBlock
        <5>3. pos \div base = p \div base
          BY <1>4, <2>3
        <5>. QED  BY <5>2, <5>3
      <4>. QED  BY <1>4, <4>1
    <3>3. s.cur = p \div s.base + 1
      BY <1>3, <1>4, <3>2 DEF Good, Placed
    <3>4. cur = pos \div s.base + 1 /\ a = pos
      BY <1>3, <1>4, <2>1, <2>3, <3>1, <3>3, AtPosition
    <3>5. /\ ~ (cur = Null \/ a + n > Capacity(s))
          /\ SubSeq(s.cells, a + 1, a + n) = SubSeq(f, pos + 1, pos + n)
      <4>1. RightLook(s, f, pos \div s.base + 1, pos, n, pos)
        BY <1>3, <3>1, LookRight
      <4>. QED  BY <3>4, <4>1, Zenon DEF RightLook
    <3>. QED  BY <1>1, <1>2, <1>6, <2>1, <3>5, LookKeeps, Zenon
  <2>. QED  BY <2>2, <2>3
<1>. QED  BY <1>2, <1>5, <1>6, Zenon DEF readAt

\* getReadBuffers.
LEMMA GetReadBuffersKeeps ==
  ASSUME Inv, NEW len \in Nat \ {0}, getReadBuffers(len)
  PROVE  Inv'
<1>1. Ready /\ Good(ba) /\ Holds(ba, flat)
  BY ReadyGood DEF getReadBuffers
<1>2. PICK s, f : s = ba /\ f = flat
  OBVIOUS
<1>3. Good(s) /\ Holds(s, f)
  BY <1>1, <1>2
<1>4. PICK p \in Nat, l \in Nat :
         p = s.position /\ l = s.size /\ Capacity(s) \in Nat /\ p <= l /\ l <= Capacity(s)
  BY <1>3, Fields DEF Good, Placed
<1>5. getReadSize(s) = l - p
  BY <1>4 DEF getReadSize
<1>6. PICK n : n = IF len > l - p THEN l - p ELSE len
  OBVIOUS
<1>7. PICK cur, a : cur = s.cur /\ a = At(s, s.cur, s.position)
  OBVIOUS
<1>8. l - p > 0 /\ Look(cur, a, n, p, FALSE)
  BY <1>2, <1>4, <1>5, <1>6, <1>7, Zenon DEF getReadBuffers
<1>9. n \in Nat \ {0} /\ p + n <= l
  BY <1>4, <1>6, <1>8
<1>10. p < Capacity(s) /\ p + n <= s.size
  BY <1>4, <1>9
<1>11. cur = p \div s.base + 1 /\ a = p
  <2>1. s.cur = p \div s.base + 1
    BY <1>3, <1>4, <1>10 DEF Good, Placed
  <2>. QED  BY <1>3, <1>4, <1>7, <1>10, <2>1, AtPosition
<1>12. p \in Nat
  OBVIOUS
<1>13. /\ ~ (cur = Null \/ a + n > Capacity(s))
       /\ SubSeq(s.cells, a + 1, a + n) = SubSeq(f, p + 1, p + n)
  <2>1. RightLook(s, f, p \div s.base + 1, p, n, p)
    BY <1>3, <1>9, <1>10, <1>12, LookRight
  <2>. QED  BY <1>11, <2>1, Zenon DEF RightLook
<1>. QED  BY <1>1, <1>2, <1>8, <1>13, LookKeeps, Zenon

\* getReadBuffers at a position.
LEMMA GetReadBuffersAtKeeps ==
  ASSUME Inv, NEW len \in Nat \ {0}, NEW pos \in Nat, getReadBuffersAt(len, pos)
  PROVE  Inv'
<1>1. Ready /\ Good(ba) /\ Holds(ba, flat)
  BY ReadyGood DEF getReadBuffersAt
<1>2. PICK s, f : s = ba /\ f = flat
  OBVIOUS
<1>3. Good(s) /\ Holds(s, f)
  BY <1>1, <1>2
<1>4. PICK p \in Nat, l \in Nat :
         p = s.position /\ l = s.size /\ Capacity(s) \in Nat /\ p <= l /\ l <= Capacity(s)
  BY <1>3, Fields DEF Good, Placed
<1>5. getReadSize(s) = l - p
  BY <1>4 DEF getReadSize
<1>6. PICK n : n = IF len > l - p THEN l - p ELSE len
  OBVIOUS
<1>7. PICK cur : cur = BlockAfter(s, pos)
  OBVIOUS
<1>8. l - p > 0 /\ Look(cur, pos, n, pos, pos > p)
  BY <1>2, <1>4, <1>5, <1>6, <1>7, Zenon DEF getReadBuffersAt
<1>9. CASE pos > p
  BY <1>1, <1>8, <1>9, LookKeeps, Zenon
<1>10. CASE ~ (pos > p)
  <2>1. n \in Nat \ {0} /\ p + n <= l
    BY <1>4, <1>6, <1>8
  <2>2. pos < Capacity(s) /\ pos + n <= s.size
    BY <1>4, <1>10, <2>1
  <2>3. cur = pos \div s.base + 1
    BY <1>3, <1>7, <2>2, AtPosition
  <2>4. /\ ~ (cur = Null \/ pos + n > Capacity(s))
        /\ SubSeq(s.cells, pos + 1, pos + n) = SubSeq(f, pos + 1, pos + n)
    <3>1. RightLook(s, f, pos \div s.base + 1, pos, n, pos)
      BY <1>3, <2>1, <2>2, LookRight
    <3>. QED  BY <2>3, <3>1, Zenon DEF RightLook
  <2>. QED  BY <1>1, <1>2, <1>8, <2>4, LookKeeps, Zenon
<1>. QED  BY <1>9, <1>10

\* getWriteBuffers, recvmsg and setPosition.
LEMMA GetWriteBuffersKeeps ==
  ASSUME Inv, NEW len \in Nat \ {0}, NEW got \in Seq(Int), Len(got) <= len,
         getWriteBuffers(len, got)
  PROVE  Inv'
<1>1. Ready /\ Good(ba) /\ Holds(ba, flat)
  BY ReadyGood DEF getWriteBuffers
<1>2. PICK s, f : s = ba /\ f = flat
  OBVIOUS
<1>3. Good(s) /\ Holds(s, f)
  BY <1>1, <1>2
<1>4. PICK b \in Leftovers :
         LET t == addCapacity(s, len, b)
             a == At(t, t.cur, t.position)
             filled == [t EXCEPT !.cells = [i \in DOMAIN t.cells |->
                          IF i \in (a + 1)..(a + Len(got)) THEN got[i - a] ELSE @[i]]]
         IN  Ends(IF t.cur = Null \/ a + len > Capacity(t) THEN Crash(t)
                  ELSE IF got = << >> THEN t
                  ELSE setPosition(filled, t.position + Len(got)), TRUE, TooFew(s, len))
  BY <1>2, Zenon DEF getWriteBuffers
<1>5. b \in Int
  BY LeftoverInt
<1>6. PICK t : t = addCapacity(s, len, b)
  OBVIOUS
<1>7. IsRoom(t, s, len)
  BY <1>3, <1>5, <1>6, AddCapacity, Zenon
<1>8. /\ Good(t) /\ t.position = s.position /\ t.size = s.size /\ t.position < Capacity(t)
      /\ Capacity(s) <= Capacity(t)
      /\ \A i \in 1..Capacity(s) : t.cells[i] = s.cells[i]
      /\ Capacity(t) < t.position + len <=> TooFew(s, len)
  BY <1>7 DEF IsRoom
<1>9. t.cur # Null /\ At(t, t.cur, t.position) = s.position
  BY <1>8, Here
<1>10. PICK filled : filled = Refilled(t, Fill(t.cells, s.position, got))
  OBVIOUS
<1>11. PICK w : w = IF s.position + len > Capacity(t) THEN Crash(t)
                    ELSE IF got = << >> THEN t
                    ELSE setPosition(filled, s.position + Len(got))
  OBVIOUS
<1>12. Ends(w, TRUE, TooFew(s, len))
  BY <1>4, <1>6, <1>8, <1>9, <1>10, <1>11, Zenon DEF Refilled, Fill
<1>13. flat' = Overwrite(f, s.position, got)
  BY <1>2, Zenon DEF getWriteBuffers
<1>14. t \in Array /\ Capacity(t) \in Nat /\ s.position \in Nat
  BY <1>3, <1>8, Fields DEF Good
<1>15. CASE s.position + len > Capacity(t)
  <2>1. w = Crash(t)
    BY <1>11, <1>15
  <2>2. w \in Array /\ w.status = "null"
    BY <1>14, <2>1, Catching
  <2>3. TooFew(s, len)
    BY <1>8, <1>14, <1>15
  <2>4. Leaves(w, flat', TooFew(s, len))
    BY <2>2, <2>3, Zenon DEF Leaves
  <2>. QED  BY <1>12, <2>4, EndsKeeps, Zenon
<1>16. CASE ~ (s.position + len > Capacity(t)) /\ got = << >>
  <2>1. w = t
    BY <1>11, <1>16, Zenon
  <2>2. IsWritten(s, s, f, << >>)
    BY <1>3, NothingWritten
  <2>3. Holds(s, flat')
    BY <1>13, <1>16, <2>2, Zenon DEF IsWritten
  <2>4. PICK g : g = flat'
    OBVIOUS
  <2>5. Holds(t, g)
    <3>1. s.size \in Nat /\ Capacity(s) \in Nat /\ s.size <= Capacity(s)
      BY <1>3, Fields DEF Good, Placed
    <3>2. \A i \in 1..s.size : i \in 1..Capacity(s)
      BY <3>1
    <3>3. \A i \in 1..s.size : t.cells[i] = s.cells[i]
      BY <1>8, <3>2, Zenon
    <3>. QED  BY <1>8, <2>3, <2>4, <3>3, Zenon DEF Holds
  <2>6. Leaves(w, flat', TooFew(s, len))
    BY <1>8, <2>1, <2>4, <2>5, Zenon DEF Leaves
  <2>. QED  BY <1>12, <2>6, EndsKeeps, Zenon
<1>17. CASE ~ (s.position + len > Capacity(t)) /\ got # << >>
  <2>1. w = setPosition(filled, s.position + Len(got))
    BY <1>11, <1>17, Zenon
  <2>2. s.position + len <= Capacity(t)
    BY <1>14, <1>17
  <2>3. Good(w) /\ Holds(w, Overwrite(f, s.position, got))
    BY <1>3, <1>7, <1>10, <1>17, <2>1, <2>2, Received
  <2>4. Leaves(w, flat', TooFew(s, len))
    BY <1>13, <2>3, Zenon DEF Leaves
  <2>. QED  BY <1>12, <2>4, EndsKeeps, Zenon
<1>. QED  BY <1>15, <1>16, <1>17

\* writeToFile.
LEMMA WriteToFileKeeps ==
  ASSUME Inv, writeToFile
  PROVE  Inv'
<1>1. Ready /\ Good(ba) /\ Holds(ba, flat)
  BY ReadyGood DEF writeToFile
<1>2. PICK s, f : s = ba /\ f = flat
  OBVIOUS
<1>3. Good(s) /\ Holds(s, f)
  BY <1>1, <1>2
<1>4. PICK saved : saved = Saving(s)
  OBVIOUS
<1>5. PICK w : w = IF saved.left > 0 THEN Crash(s) ELSE s
  OBVIOUS
<1>6. /\ Ends(w, s.position % s.base # 0 \/ saved.data = SubSeq(f, s.position + 1, s.size),
              s.position % s.base # 0)
      /\ flat' = f
  BY <1>2, <1>4, <1>5, Zenon DEF writeToFile
<1>7. CASE s.position % s.base # 0
  <2>1. s \in Array
    BY <1>3 DEF Good
  <2>2. Leaves(w, flat', s.position % s.base # 0)
    <3>1. CASE saved.left > 0
      <4>1. w \in Array /\ w.status = "null"
        BY <1>5, <2>1, <3>1, Catching
      <4>. QED  BY <1>7, <4>1, Zenon DEF Leaves
    <3>2. CASE ~ (saved.left > 0)
      <4>1. w = s
        BY <1>5, <3>2, Zenon
      <4>. QED  BY <1>3, <1>6, <4>1, Zenon DEF Leaves
    <3>. QED  BY <3>1, <3>2
  <2>. QED  BY <1>6, <1>7, <2>2, EndsKeeps, Zenon
<1>8. CASE s.position % s.base = 0
  <2>1. saved.left = 0 /\ saved.data = SubSeq(s.cells, s.position + 1, s.size)
    BY <1>3, <1>4, <1>8, SavingExact
  <2>2. w = s
    BY <1>5, <2>1
  <2>3. PICK p \in Nat, l \in Nat : p = s.position /\ l = s.size /\ p <= l
    BY <1>3, Fields DEF Good, Placed
  <2>4. PICK n \in Nat : l = p + n
    <3>1. l - p \in Nat /\ l = p + (l - p)
      BY <2>3
    <3>. QED  BY <3>1
  <2>5. SubSeq(s.cells, p + 1, p + n) = SubSeq(f, p + 1, p + n)
    <3>1. p \in Nat /\ n \in Nat /\ p + n <= s.size
      BY <2>3, <2>4
    <3>. QED  BY <1>3, <3>1, ReadBytes
  <2>6. saved.data = SubSeq(f, s.position + 1, s.size)
    BY <2>1, <2>3, <2>4, <2>5
  <2>7. Leaves(w, flat', s.position % s.base # 0)
    BY <1>3, <1>6, <2>2, Zenon DEF Leaves
  <2>. QED  BY <1>6, <2>6, <2>7, EndsKeeps, Zenon
<1>. QED  BY <1>7, <1>8

\* readFromFile.
LEMMA ReadFromFileKeeps ==
  ASSUME Inv, NEW data \in Seq(Int), readFromFile(data)
  PROVE  Inv'
<1>1. Ready /\ Good(ba) /\ Holds(ba, flat)
  BY ReadyGood DEF readFromFile
<1>2. PICK s, f : s = ba /\ f = flat
  OBVIOUS
<1>3. Good(s) /\ Holds(s, f)
  BY <1>1, <1>2
<1>4. PICK b \in Leftovers :
         Ends(Loaded(s, data, b)[FileParts(s, data)], TRUE, FewLoaded(s, data, b))
  <2>1. \E b \in Leftovers :
          Ends(Loaded(ba, data, b)[FileParts(ba, data)], TRUE, FewLoaded(ba, data, b))
    BY DEF readFromFile, Loaded, FileParts, FilePart, FewLoaded
  <2>. QED  BY <1>2, <2>1
<1>5. b \in Int
  BY LeftoverInt
<1>6. flat' = Overwrite(f, s.position, data)
  BY <1>2, Zenon DEF readFromFile
<1>7. PICK w : w = Loaded(s, data, b)[FileParts(s, data)]
  OBVIOUS
<1>8. \/ IsWritten(w, s, f, data)
      \/ w.status = "null" /\ w \in Array /\ FewLoaded(s, data, b)
  BY <1>3, <1>5, <1>7, LoadExact
<1>9. Leaves(w, flat', FewLoaded(s, data, b))
  BY <1>6, <1>8, Zenon DEF Leaves, IsWritten
<1>10. Ends(w, TRUE, FewLoaded(s, data, b))
  BY <1>4, <1>7
<1>. QED  BY <1>9, <1>10, EndsKeeps, Zenon

-----------------------------------------------------------------------------
(* Theorems.                                                                *)

\* Strings and files are sequences of bytes whose length is an integer.
LEMMA BufferBytes ==
  ASSUME NEW d \in Buffers
  PROVE  d \in Seq(Int) /\ Len(d) \in Unsigned
<1>1. More \in Nat /\ 2^Width \in Nat /\ MaxSize \in 0..(2^Width - 1)
  BY MoreBits, ByteArrayAssumption
<1>2. d \in Seq(Byte) /\ Len(d) <= MaxSize
  BY InputAssumption
<1>3. d \in Seq(Int) /\ Len(d) \in Nat
  BY <1>1, <1>2 DEF Byte
<1>. QED  BY <1>1, <1>2, <1>3 DEF Unsigned

\* Every step keeps the invariant.
LEMMA InvNext ==
  Inv /\ [Next]_vars => Inv'
<1>. SUFFICES ASSUME Inv, [Next]_vars PROVE Inv'
  OBVIOUS
<1>1. MaxSize \in Nat /\ \A n \in 1..MaxSize : n \in Nat \ {0}
  BY ByteArrayAssumption, MoreBits
<1>2. \A n \in 0..MaxSize : n \in Nat
  OBVIOUS
<1>3. CASE Writes
  <2>1. ASSUME NEW u \in Uints, writeUint32(u) PROVE Inv'
    <3>1. u \in Unsigned
      BY InputAssumption
    <3>. QED  BY <2>1, <3>1, WriteUint32Keeps
  <2>2. ASSUME NEW v \in Ints, writeInt32(v) PROVE Inv'
    <3>1. v \in Signed
      BY InputAssumption
    <3>. QED  BY <2>2, <3>1, WriteInt32Keeps DEF Signed
  <2>3. ASSUME NEW v \in Shorts, NEW little \in BOOLEAN, writeFint16(v, little) PROVE Inv'
    <3>1. v \in Nat
      BY MoreBits, InputAssumption
    <3>. QED  BY <2>3, <3>1, WriteFint16Keeps
  <2>4. ASSUME NEW str \in Buffers, writeStringVint(str) PROVE Inv'
    BY <2>4, BufferBytes, WriteStringVintKeeps
  <2>5. ASSUME NEW len \in 1..MaxSize, NEW got \in Buffers, Len(got) <= len,
               getWriteBuffers(len, got)
        PROVE  Inv'
    BY <1>1, <2>5, BufferBytes, GetWriteBuffersKeeps
  <2>6. ASSUME NEW data \in Buffers, readFromFile(data) PROVE Inv'
    BY <2>6, BufferBytes, ReadFromFileKeeps
  <2>. QED  BY <1>3, <2>1, <2>2, <2>3, <2>4, <2>5, <2>6 DEF Writes
<1>4. CASE Reads
  <2>1. ASSUME NEW n \in 1..MaxSize, readBytes(n) PROVE Inv'
    BY <1>1, <2>1, ReadBytesKeeps
  <2>2. ASSUME NEW n \in 1..MaxSize, NEW pos \in 0..MaxSize, readAt(n, pos) PROVE Inv'
    BY <1>1, <1>2, <2>2, ReadAtKeeps
  <2>3. ASSUME NEW n \in 1..MaxSize, getReadBuffers(n) PROVE Inv'
    BY <1>1, <2>3, GetReadBuffersKeeps
  <2>4. ASSUME NEW n \in 1..MaxSize, NEW pos \in 0..MaxSize, getReadBuffersAt(n, pos) PROVE Inv'
    BY <1>1, <1>2, <2>4, GetReadBuffersAtKeeps
  <2>. QED  BY <1>4, <2>1, <2>2, <2>3, <2>4, ReadUint32Keeps, ReadStringVintKeeps,
               WriteToFileKeeps DEF Reads
<1>5. ASSUME NEW v \in 0..MaxSize, Seek(v) PROVE Inv'
  BY <1>2, <1>5, SeekKeeps
<1>6. CASE Clear
  BY <1>6, ClearKeeps
<1>7. CASE UNCHANGED vars
  BY <1>7 DEF vars, Inv, Sound
<1>. QED  BY <1>3, <1>4, <1>5, <1>6, <1>7 DEF Next

\* The invariant always holds.
LEMMA InvAlways ==
  Spec => []Inv
<1>. QED  BY InvInit, InvNext, PTL DEF Spec

\* After every sequence of writes, reads, seeks and clears m_cur is the block of
\* m_position, or null exactly at the end of the last block, and
\* m_position <= m_size <= m_capacity, for blocks of any size (bytearray.cc).
THEOREM CurAlwaysAtPosition ==
  Spec => []CurAtPosition
<1>. QED  BY InvAlways, InvImplies, PTL

\* However the writes are cut at the ends of blocks (bytearray.cc, write and
\* addCapacity), the blocks hold the bytes written, in order.
THEOREM ContentsAlwaysExact ==
  Spec => []ContentsExact
<1>. QED  BY InvAlways, InvImplies, PTL

\* A read gives the bytes written at m_position, over any number of blocks, and the
\* integer encodings can be inverted, for integers of any width (bytearray.cc,
\* read, readUint32 and writeUint32, EncodeZigzag32 and DecodeZigzag32).
THEOREM ReadsAlwaysExact ==
  Spec => []ReadsExact
<1>. QED  BY InvAlways, InvImplies, PTL

\* The code follows a null pointer only after addCapacity has added one block too few,
\* at an empty string whose length ends the last block, and in the reads and looks
\* at a position of another block (bytearray.cc).
THEOREM CrashesAlwaysExplained ==
  Spec => []CrashesExplained
<1>. QED  BY InvAlways, InvImplies, PTL
=============================================================================
