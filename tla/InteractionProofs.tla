---------------------------- MODULE InteractionProofs ----------------------------
(***************************************************************************)
(* Interaction for any widgets, texts, boxes and bounds.                      *)
(***************************************************************************)
EXTENDS Interaction, TLAPS, WellFoundedInduction, SequenceTheorems, FiniteSetTheorems

LEMMA LeastNat ==
  ASSUME NEW T, T \subseteq Nat, T # {}
  PROVE  \E m \in T : \A n \in T : m <= n
<1> DEFINE R == OpToRel(<, Nat)
<1>1. IsWellFoundedOn(R, Nat)
  BY NatLessThanWellFounded
<1>2. \A m, n \in Nat : m < n => <<m, n>> \in R
  BY DEF OpToRel
<1> HIDE DEF R
<1>3. PICK m \in T : \A n \in T : ~ (<<n, m>> \in R)
  BY <1>1, WFMin
<1>4. \A n \in T : ~ (n < m)
  BY <1>2, <1>3
<1> QED
  BY <1>4

\* The same from above: a set of numbers up to n has a greatest one.
LEMMA GreatestNat ==
  ASSUME NEW n \in Nat, NEW T, T \subseteq 0..n, T # {}
  PROVE  \E m \in T : \A k \in T : k <= m
<1> DEFINE U == {n - k : k \in T}
<1>1. U \subseteq Nat /\ U # {}
  <2>1. \A k \in T : n - k \in Nat
    OBVIOUS
  <2> QED
    BY <2>1
<1>2. PICK u \in U : \A v \in U : u <= v
  <2> HIDE DEF U
  <2> QED
    BY <1>1, LeastNat
<1>3. PICK m \in T : u = n - m
  BY <1>2
<1>4. \A k \in T : n - k \in U
  OBVIOUS
<1>5. \A k \in T : n - m <= n - k
  <2> HIDE DEF U
  <2> QED
    BY <1>2, <1>3, <1>4
<1> QED
  BY <1>3, <1>5

\* f climbs from first to n: base at first, and elsewhere step of what f is one below.
Climbs(f, first, n, base, step) ==
  \A i \in first..n : f[i] = IF i = first THEN base ELSE step[<<i, f[i - 1]>>]

\* There is such a function, which is what a recursive definition over numbers needs.
LEMMA ClimbExists ==
  ASSUME NEW first \in Nat, NEW n \in Nat, NEW Vals, NEW base \in Vals,
         NEW step \in [(first..n) \X Vals -> Vals]
  PROVE  \E f \in [first..n -> Vals] : Climbs(f, first, n, base, step)
<1> DEFINE Some(k) == \E f \in [first..k -> Vals] : Climbs(f, first, k, base, step)
           T == {k \in first..n : ~ Some(k)}
<1>0. ASSUME first > n PROVE \E f \in [first..n -> Vals] : Climbs(f, first, n, base, step)
  <2>1. [i \in first..n |-> base] \in [first..n -> Vals]
    OBVIOUS
  <2>2. Climbs([i \in first..n |-> base], first, n, base, step)
    BY <1>0 DEF Climbs
  <2> QED
    BY <2>1, <2>2
<1> SUFFICES ASSUME T # {}, first <= n PROVE FALSE
  BY <1>0
<1>1. T \subseteq Nat
  OBVIOUS
<1>2. PICK k \in T : \A j \in T : k <= j
  <2> HIDE DEF T
  <2> QED
    BY <1>1, LeastNat
<1>3. k # first
  <2>1. [i \in first..first |-> base] \in [first..first -> Vals]
    OBVIOUS
  <2>2. Climbs([i \in first..first |-> base], first, first, base, step)
    BY DEF Climbs
  <2> QED
    BY <2>1, <2>2
<1>4. k - 1 \in first..n /\ k \in first..n /\ ~ Some(k)
  BY <1>2, <1>3
<1>5. Some(k - 1)
  <2>1. k - 1 \notin T
    <3> HIDE DEF T
    <3> QED
      BY <1>2, <1>4
  <2> QED
    BY <1>4, <2>1
<1>6. PICK f \in [first..k - 1 -> Vals] : Climbs(f, first, k - 1, base, step)
  BY <1>5
<1> DEFINE g == [i \in first..k |-> IF i = k THEN step[<<k, f[k - 1]>>] ELSE f[i]]
<1>7. step[<<k, f[k - 1]>>] \in Vals
  BY <1>4, <1>6
<1>8. g \in [first..k -> Vals]
  BY <1>4, <1>6, <1>7
<1>9. Climbs(g, first, k, base, step)
  <2> SUFFICES ASSUME NEW i \in first..k
               PROVE  g[i] = IF i = first THEN base ELSE step[<<i, g[i - 1]>>]
    BY DEF Climbs
  <2>1. CASE i = k
    BY <1>3, <1>4, <2>1, SMTT(30)
  <2>2. CASE i # k
    <3>1. i \in first..k - 1 /\ g[i] = f[i] /\ (i # first => g[i - 1] = f[i - 1])
      BY <1>4, <2>2
    <3>2. f[i] = IF i = first THEN base ELSE step[<<i, f[i - 1]>>]
      BY <1>6, <3>1 DEF Climbs
    <3> QED
      BY <3>1, <3>2
  <2> QED
    BY <2>1, <2>2
<1> QED
  BY <1>4, <1>8, <1>9

\* What holds of 0, and of k + 1 if of k, holds up to n.
LEMMA UpTo ==
  ASSUME NEW n \in Nat, NEW S, 0 \in S, \A k \in 0..n - 1 : k \in S => k + 1 \in S
  PROVE  \A k \in 0..n : k \in S
<1> DEFINE T == {k \in 0..n : k \notin S}
<1> SUFFICES ASSUME T # {} PROVE FALSE
  OBVIOUS
<1>1. PICK k \in T : \A j \in T : k <= j
  <2>1. T \subseteq Nat
    OBVIOUS
  <2> HIDE DEF T
  <2> QED
    BY <2>1, LeastNat
<1>2. k \in 1..n
  OBVIOUS
<1>3. k - 1 \notin T
  <2> HIDE DEF T
  <2> QED
    BY <1>1, <1>2
<1>4. k - 1 \in S
  BY <1>2, <1>3
<1> QED
  BY <1>2, <1>4

LEMMA SumBeforeIs ==
  ASSUME NEW n \in Nat \ {0}, NEW shares \in [1..n -> Nat]
  PROVE  /\ SumBefore(shares, 1) = 0
         /\ \A i \in 1..n : SumBefore(shares, i) \in Nat
         /\ \A i \in 1..n - 1 :
              SumBefore(shares, i + 1) = SumBefore(shares, i) + shares[i]
<1> DEFINE step == [p \in (1..n) \X Nat |-> IF p[1] = 1 THEN 0 ELSE p[2] + shares[p[1] - 1]]
           Sums(f) == f = [k \in DOMAIN shares |-> IF k = 1 THEN 0 ELSE f[k - 1] + shares[k - 1]]
           before == CHOOSE f : Sums(f)
<1>1. step \in [(1..n) \X Nat -> Nat]
  <2>1. \A p \in (1..n) \X Nat : p[1] # 1 => p[1] - 1 \in 1..n
    OBVIOUS
  <2> QED
    BY <2>1
<1>2. PICK f \in [1..n -> Nat] : Climbs(f, 1, n, 0, step)
  <2> HIDE DEF step
  <2> QED
    BY <1>1, ClimbExists
<1>3. \A k \in 1..n : f[k] = IF k = 1 THEN 0 ELSE f[k - 1] + shares[k - 1]
  <2> SUFFICES ASSUME NEW k \in 1..n, k # 1 PROVE f[k] = f[k - 1] + shares[k - 1]
    BY <1>2 DEF Climbs
  <2>1. f[k] = step[<<k, f[k - 1]>>] /\ <<k, f[k - 1]>> \in (1..n) \X Nat
    <3> HIDE DEF step
    <3> QED
      BY <1>2 DEF Climbs
  <2> QED
    BY <2>1
<1>4. Sums(f)
  BY <1>3
<1>5. Sums(before)
  BY <1>4
<1>6. \A i \in 1..n : SumBefore(shares, i) = before[i]
  BY DEF SumBefore
<1> HIDE DEF before
<1>7. \A k \in 1..n : before[k] = IF k = 1 THEN 0 ELSE before[k - 1] + shares[k - 1]
  BY <1>5
<1>8. \A k \in 1..n : before[k] \in Nat
  <2> DEFINE T == {k \in 1..n : before[k] \notin Nat}
  <2> SUFFICES ASSUME T # {} PROVE FALSE
    OBVIOUS
  <2>1. PICK k \in T : \A j \in T : k <= j
    <3>1. T \subseteq Nat
      OBVIOUS
    <3> HIDE DEF T
    <3> QED
      BY <3>1, LeastNat
  <2>2. k # 1 /\ k \in 1..n
    BY <1>7
  <2>3. k - 1 \in 1..n /\ k - 1 \notin T
    <3> HIDE DEF T
    <3> QED
      BY <2>1, <2>2
  <2>4. before[k - 1] \in Nat /\ shares[k - 1] \in Nat
    BY <2>3
  <2>5. before[k] = before[k - 1] + shares[k - 1]
    BY <1>7, <2>2
  <2>6. before[k] \notin Nat
    BY <2>1
  <2> QED
    BY <2>4, <2>5, <2>6, SMTT(30)
<1>9. \A k \in 1..n - 1 : before[k + 1] = before[k] + shares[k]
  BY <1>7
<1>10. before[1] = 0
  BY <1>7
<1>11. 1 \in 1..n /\ \A i \in 1..n - 1 : i \in 1..n /\ i + 1 \in 1..n
  OBVIOUS
<1>12. SumBefore(shares, 1) = 0
  BY <1>6, <1>10, <1>11
<1>13. \A i \in 1..n : SumBefore(shares, i) \in Nat
  BY <1>6, <1>8
<1>14. \A i \in 1..n - 1 : SumBefore(shares, i + 1) = SumBefore(shares, i) + shares[i]
  BY <1>6, <1>9, <1>11
<1> QED
  BY <1>12, <1>13, <1>14

Held(shares, i, o) == SumBefore(shares, i) <= o /\ o < SumBefore(shares, i) + shares[i]

\* A length is divided without a gap or an overlap.
LEMMA SharesTile ==
  ASSUME NEW length \in Int, NEW n \in Nat \ {0}, NEW o \in Int
  PROVE  /\ Shares(length, n) \in [1..n -> Nat]
         /\ \A i \in 1..n : SumBefore(Shares(length, n), i) \in Nat
         /\ 0 <= o /\ o < length =>
              \E i \in 1..n : \A j \in 1..n : Held(Shares(length, n), j, o) <=> j = i
         /\ ~ (0 <= o /\ o < length) => \A j \in 1..n : ~ Held(Shares(length, n), j, o)
<1> DEFINE whole == NotNegative(length)
           q == whole \div n
           r == whole % n
           shares == Shares(length, n)
           S(i) == SumBefore(shares, i)
           low(a, b) == IF a <= b THEN a ELSE b
<1>1. whole \in Nat /\ (length >= 0 => whole = length) /\ (length < 0 => whole = 0)
  BY DEF NotNegative
<1> HIDE DEF whole
<1>2. q \in Nat /\ r \in 0..n - 1 /\ whole = n * q + r
  BY <1>1
<1>3. shares \in [1..n -> Nat] /\ \A i \in 1..n : shares[i] = q + (IF i <= r THEN 1 ELSE 0)
  <2>1. shares = [i \in 1..n |-> q + (IF i <= r THEN 1 ELSE 0)]
    BY DEF Shares, whole
  <2> HIDE DEF q, r, shares
  <2> QED
    BY <1>2, <2>1
<1> HIDE DEF q, r, shares
<1>4. S(1) = 0 /\ (\A i \in 1..n : S(i) \in Nat) /\ \A i \in 1..n - 1 : S(i + 1) = S(i) + shares[i]
  BY <1>3, SumBeforeIs
<1> HIDE DEF S
<1>5. \A i \in 1..n : S(i) = (i - 1) * q + low(i - 1, r)
  <2> DEFINE T == {k \in 1..n : S(k) # (k - 1) * q + low(k - 1, r)}
  <2> SUFFICES ASSUME T # {} PROVE FALSE
    OBVIOUS
  <2>1. PICK k \in T : \A j \in T : k <= j
    <3>1. T \subseteq Nat
      OBVIOUS
    <3> HIDE DEF T
    <3> QED
      BY <3>1, LeastNat
  <2>2. k # 1 /\ k \in 1..n
    BY <1>2, <1>4
  <2>3. k - 1 \in 1..n /\ k - 1 \notin T
    <3> HIDE DEF T
    <3> QED
      BY <2>1, <2>2
  <2>4. S(k - 1) = (k - 2) * q + low(k - 2, r) /\ S(k) = S(k - 1) + shares[k - 1]
    BY <1>4, <2>2, <2>3
  <2>5. (k - 2) * q + q = (k - 1) * q /\ (k - 1) * q \in Nat
    BY <1>2, <2>2
  <2>6. shares[k - 1] = q + (IF k - 1 <= r THEN 1 ELSE 0)
    BY <1>3, <2>3
  <2> QED
    BY <1>2, <2>1, <2>2, <2>4, <2>5, <2>6
<1>6. S(n) + shares[n] = whole
  <2>1. S(n) = (n - 1) * q + r /\ shares[n] = q
    BY <1>2, <1>3, <1>5
  <2>2. (n - 1) * q + q = n * q
    BY <1>2
  <2> QED
    BY <1>2, <2>1, <2>2
<1>7. \A i, j \in 1..n : i < j => S(i) + shares[i] <= S(j)
  <2> SUFFICES ASSUME NEW i \in 1..n, NEW j \in 1..n, i < j PROVE S(i) + shares[i] <= S(j)
    OBVIOUS
  <2>1. S(i) + shares[i] = S(i + 1) /\ i + 1 \in 1..n
    BY <1>4
  <2>2. S(i + 1) = i * q + low(i, r) /\ S(j) = (j - 1) * q + low(j - 1, r)
    BY <1>5, <2>1
  <2>3. i * q <= (j - 1) * q /\ i * q \in Nat /\ (j - 1) * q \in Nat
    BY <1>2
  <2> QED
    BY <1>2, <2>1, <2>2, <2>3
<1>8. \A j \in 1..n : S(j) \in Nat /\ shares[j] \in Nat /\ S(j) + shares[j] <= whole
  BY <1>3, <1>4, <1>6, <1>7
<1>9. ASSUME 0 <= o, o < length
      PROVE  \E i \in 1..n : \A j \in 1..n : Held(shares, j, o) <=> j = i
  <2> DEFINE T == {i \in 1..n : S(i) <= o}
  <2>1. T \subseteq 0..n /\ 1 \in T
    BY <1>4, <1>9
  <2>2. PICK i \in T : \A k \in T : k <= i
    <3> HIDE DEF T
    <3> QED
      BY <2>1, GreatestNat
  <2>3. i \in 1..n /\ S(i) <= o
    OBVIOUS
  <2>4. o < S(i) + shares[i]
    <3>1. CASE i = n
      BY <1>1, <1>6, <1>9, <3>1
    <3>2. CASE i # n
      <4>1. i + 1 \in 1..n /\ i + 1 \notin T
        <5> HIDE DEF T
        <5> QED
          BY <2>2, <2>3, <3>2
      <4> QED
        BY <1>4, <2>3, <3>2, <4>1
    <3> QED
      BY <3>1, <3>2
  <2>5. ASSUME NEW j \in 1..n PROVE Held(shares, j, o) <=> j = i
    <3>1. Held(shares, j, o) <=> S(j) <= o /\ o < S(j) + shares[j]
      BY DEF Held, S
    <3>2. j < i => S(j) + shares[j] <= S(i)
      BY <1>7, <2>3
    <3>3. i < j => S(i) + shares[i] <= S(j)
      BY <1>7, <2>3
    <3> QED
      BY <1>8, <2>3, <2>4, <3>1, <3>2, <3>3
  <2> QED
    BY <2>3, <2>5
<1>10. ASSUME ~ (0 <= o /\ o < length), NEW j \in 1..n PROVE ~ Held(shares, j, o)
  BY <1>1, <1>8, <1>10 DEF Held, S
<1> QED
  BY <1>3, <1>4, <1>9, <1>10 DEF S, shares


Rect == [x : Int, y : Int, width : Int, height : Int]

\* Of the children that are placed exactly the one at i has the place, and it is found there.
LEMMA HitOne ==
  ASSUME NEW bounds, NEW placed, NEW x, NEW y, NEW i \in DOMAIN placed, i \in Int,
         {k \in DOMAIN placed : InRect(placed[k], x, y)} = {i}
  PROVE  Hit(bounds, placed, x, y) = i
<1>1. Max({i}) = i
  BY DEF Max
<1> QED
  BY <1>1 DEF Hit

LEMMA TilesFrom ==
  ASSUME NEW bounds, NEW n \in Nat, NEW placed, DOMAIN placed = 1..n,
         \A p \in Places :
           /\ InRect(bounds, p[1], p[2]) =>
                \E i \in 1..n : \A j \in 1..n : InRect(placed[j], p[1], p[2]) <=> j = i
           /\ ~ InRect(bounds, p[1], p[2]) => \A j \in 1..n : ~ InRect(placed[j], p[1], p[2])
  PROVE  Tiles(bounds, placed)
<1> SUFFICES ASSUME NEW p \in Places
             PROVE  LET found == {i \in DOMAIN placed : InRect(placed[i], p[1], p[2])}
                    IN  IF InRect(bounds, p[1], p[2])
                        THEN \E i \in DOMAIN placed : found = {i} /\ Hit(bounds, placed, p[1], p[2]) = i
                        ELSE found = {} /\ Hit(bounds, placed, p[1], p[2]) = -1
  BY DEF Tiles
<1> DEFINE found == {i \in DOMAIN placed : InRect(placed[i], p[1], p[2])}
<1>1. CASE InRect(bounds, p[1], p[2])
  <2>1. PICK i \in 1..n : \A j \in 1..n : InRect(placed[j], p[1], p[2]) <=> j = i
    BY <1>1
  <2>2. found = {i} /\ i \in DOMAIN placed /\ i \in Int
    BY <2>1
  <2>3. Hit(bounds, placed, p[1], p[2]) = i
    BY <2>2, HitOne, Zenon
  <2> QED
    BY <1>1, <2>2, <2>3
<1>2. CASE ~ InRect(bounds, p[1], p[2])
  <2>1. found = {}
    BY <1>2
  <2>2. Hit(bounds, placed, p[1], p[2]) = -1
    BY <1>2, <2>1 DEF Hit
  <2> QED
    BY <1>2, <2>1, <2>2
<1> QED
  BY <1>1, <1>2

LEMMA HBoxTiles ==
  ASSUME NEW bounds \in Rect, NEW n \in Nat \ {0}
  PROVE  Tiles(bounds, HBox(bounds, n))
<1> DEFINE shares == Shares(bounds.width, n)
           placed == HBox(bounds, n)
<1>0. bounds.x \in Int /\ bounds.y \in Int /\ bounds.width \in Int /\ bounds.height \in Int
  BY DEF Rect
<1>1. shares \in [1..n -> Nat] /\ \A i \in 1..n : SumBefore(shares, i) \in Nat
  BY <1>0, SharesTile, 0 \in Int
<1>2. DOMAIN placed = 1..n /\
      \A i \in 1..n : placed[i] = [bounds EXCEPT !.x = @ + SumBefore(shares, i), !.width = shares[i]]
  BY DEF HBox
<1> HIDE DEF placed, shares
<1> SUFFICES ASSUME NEW p \in Places
             PROVE  /\ InRect(bounds, p[1], p[2]) =>
                         \E i \in 1..n : \A j \in 1..n : InRect(placed[j], p[1], p[2]) <=> j = i
                    /\ ~ InRect(bounds, p[1], p[2]) => \A j \in 1..n : ~ InRect(placed[j], p[1], p[2])
  BY <1>2, TilesFrom DEF placed
<1> DEFINE o == p[1] - bounds.x
           beside == p[2] >= bounds.y /\ p[2] < bounds.y + bounds.height
<1>3. p[1] \in Int /\ p[2] \in Int
  BY LayoutAssumption
<1>4. InRect(bounds, p[1], p[2]) <=> (0 <= o /\ o < bounds.width) /\ beside
  BY <1>0, <1>3 DEF InRect
<1>5. ASSUME NEW j \in 1..n PROVE InRect(placed[j], p[1], p[2]) <=> Held(shares, j, o) /\ beside
  <2>1. /\ placed[j].x = bounds.x + SumBefore(shares, j) /\ placed[j].width = shares[j]
        /\ placed[j].y = bounds.y /\ placed[j].height = bounds.height
    BY <1>2 DEF Rect
  <2>2. SumBefore(shares, j) \in Nat /\ shares[j] \in Nat
    BY <1>1
  <2>3. InRect(placed[j], p[1], p[2]) <=>
          /\ p[1] >= placed[j].x /\ p[2] >= placed[j].y
          /\ p[1] < placed[j].x + placed[j].width /\ p[2] < placed[j].y + placed[j].height
    BY DEF InRect
  <2> QED
    BY <1>0, <1>3, <2>1, <2>2, <2>3 DEF Held
<1>6. /\ 0 <= o /\ o < bounds.width => \E i \in 1..n : \A j \in 1..n : Held(shares, j, o) <=> j = i
      /\ ~ (0 <= o /\ o < bounds.width) => \A j \in 1..n : ~ Held(shares, j, o)
  <2>1. o \in Int
    BY <1>0, <1>3
  <2> HIDE DEF o
  <2> QED
    BY <1>0, <2>1, SharesTile DEF shares
<1> QED
  BY <1>4, <1>5, <1>6

LEMMA VBoxTiles ==
  ASSUME NEW bounds \in Rect, NEW n \in Nat \ {0}
  PROVE  Tiles(bounds, VBox(bounds, n))
<1> DEFINE shares == Shares(bounds.height, n)
           placed == VBox(bounds, n)
<1>0. bounds.x \in Int /\ bounds.y \in Int /\ bounds.width \in Int /\ bounds.height \in Int
  BY DEF Rect
<1>1. shares \in [1..n -> Nat] /\ \A i \in 1..n : SumBefore(shares, i) \in Nat
  BY <1>0, SharesTile, 0 \in Int
<1>2. DOMAIN placed = 1..n /\
      \A i \in 1..n : placed[i] = [bounds EXCEPT !.y = @ + SumBefore(shares, i), !.height = shares[i]]
  BY DEF VBox
<1> HIDE DEF placed, shares
<1> SUFFICES ASSUME NEW p \in Places
             PROVE  /\ InRect(bounds, p[1], p[2]) =>
                         \E i \in 1..n : \A j \in 1..n : InRect(placed[j], p[1], p[2]) <=> j = i
                    /\ ~ InRect(bounds, p[1], p[2]) => \A j \in 1..n : ~ InRect(placed[j], p[1], p[2])
  BY <1>2, TilesFrom DEF placed
<1> DEFINE o == p[2] - bounds.y
           beside == p[1] >= bounds.x /\ p[1] < bounds.x + bounds.width
<1>3. p[1] \in Int /\ p[2] \in Int
  BY LayoutAssumption
<1>4. InRect(bounds, p[1], p[2]) <=> (0 <= o /\ o < bounds.height) /\ beside
  BY <1>0, <1>3 DEF InRect
<1>5. ASSUME NEW j \in 1..n PROVE InRect(placed[j], p[1], p[2]) <=> Held(shares, j, o) /\ beside
  <2>1. /\ placed[j].y = bounds.y + SumBefore(shares, j) /\ placed[j].height = shares[j]
        /\ placed[j].x = bounds.x /\ placed[j].width = bounds.width
    BY <1>2 DEF Rect
  <2>2. SumBefore(shares, j) \in Nat /\ shares[j] \in Nat
    BY <1>1
  <2>3. InRect(placed[j], p[1], p[2]) <=>
          /\ p[1] >= placed[j].x /\ p[2] >= placed[j].y
          /\ p[1] < placed[j].x + placed[j].width /\ p[2] < placed[j].y + placed[j].height
    BY DEF InRect
  <2> QED
    BY <1>0, <1>3, <2>1, <2>2, <2>3 DEF Held
<1>6. /\ 0 <= o /\ o < bounds.height => \E i \in 1..n : \A j \in 1..n : Held(shares, j, o) <=> j = i
      /\ ~ (0 <= o /\ o < bounds.height) => \A j \in 1..n : ~ Held(shares, j, o)
  <2>1. o \in Int
    BY <1>0, <1>3
  <2> HIDE DEF o
  <2> QED
    BY <1>0, <2>1, SharesTile DEF shares
<1> QED
  BY <1>4, <1>5, <1>6

LEMMA BoxesCardinality == ASSUME NEW S PROVE Cardinality(S) = Cardinality(S)
BY DEF Cardinality, Cardinality

LEMMA DivisionBelow ==
  ASSUME NEW a \in Nat, NEW b \in Nat \ {0}, NEW k \in Nat, a <= b
  PROVE  (a * k) \div b \in 0..k
<1>1. a * k \in Nat /\ b * k \in Nat /\ a * k <= b * k
  OBVIOUS
<1>2. (a * k) \div b \in Int /\ b * ((a * k) \div b) <= a * k /\ a * k < b * ((a * k) \div b) + b
  BY <1>1
<1>3. ASSUME NEW q \in Int, b * q <= b * k PROVE q <= k
  BY <1>3
<1>4. ASSUME NEW q \in Int, 0 < b * q + b PROVE q >= 0
  BY <1>4
<1> QED BY <1>1, <1>2, <1>3, <1>4

LEMMA SplitFirst ==
  ASSUME NEW length \in Int, NEW ratio \in 0..100
  PROVE  /\ Quotient(length * ratio, 100) \in Int
         /\ length >= 0 => Quotient(length * ratio, 100) \in 0..length
         /\ length <= 0 => Quotient(length * ratio, 100) \in length..0
<1> DEFINE product == length * ratio
<1>1. CASE length >= 0
  <2>1. product = ratio * length /\ product \in Nat
    BY <1>1
  <2>2. (ratio * length) \div 100 \in 0..length
    BY <1>1, DivisionBelow
  <2>3. Quotient(product, 100) = product \div 100
    BY <2>1 DEF Quotient
  <2> HIDE DEF product
  <2>4. Quotient(product, 100) \in 0..length
    BY <2>1, <2>2, <2>3
  <2>5. length <= 0 => Quotient(product, 100) \in length..0
    BY <1>1, <2>4
  <2> QED
    BY <1>1, <2>4, <2>5 DEF product
<1>2. CASE length < 0
  <2>0. -length \in Nat
    BY <1>2
  <2>1. -product = ratio * (-length) /\ -product \in Nat /\ product \in Int
    BY <1>2
  <2>2. (ratio * (-length)) \div 100 \in 0..(-length)
    BY <2>0, DivisionBelow
  <2>3. Quotient(product, 100) = IF product < 0 THEN -((-product) \div 100) ELSE product \div 100
    BY DEF Quotient
  <2> HIDE DEF product
  <2>4. (-product) \div 100 \in 0..(-length)
    BY <2>1, <2>2
  <2>5. Quotient(product, 100) \in length..0
    <3>1. CASE product < 0
      BY <1>2, <2>3, <2>4, <3>1
    <3>2. CASE ~ (product < 0)
      BY <1>2, <2>1, <2>3, <3>2
    <3> QED
      BY <3>1, <3>2
  <2> QED
    BY <1>2, <2>5 DEF product
<1> QED
  BY <1>1, <1>2

LEMMA SplitTiles ==
  ASSUME NEW bounds \in Rect, NEW ratio \in Int, NEW across \in BOOLEAN
  PROVE  Tiles(bounds, Split(bounds, ratio, across))
<1> DEFINE length == IF across THEN bounds.width ELSE bounds.height
           first == Quotient(length * Ratio(ratio), 100)
           placed == Split(bounds, ratio, across)
<1>0. /\ bounds.x \in Int /\ bounds.y \in Int /\ bounds.width \in Int /\ bounds.height \in Int
      /\ length \in Int /\ Ratio(ratio) \in 0..100
  BY DEF Rect, Ratio
<1>1. first \in Int /\ (length >= 0 => first \in 0..length) /\ (length <= 0 => first \in length..0)
  BY <1>0, SplitFirst
<1>2. DOMAIN placed = 1..2
  BY DEF Split
<1>3. placed[1] = IF across THEN [bounds EXCEPT !.width = first] ELSE [bounds EXCEPT !.height = first]
  BY DEF Split
<1>4. placed[2] = IF across THEN [bounds EXCEPT !.x = @ + first, !.width = @ - first]
                  ELSE [bounds EXCEPT !.y = @ + first, !.height = @ - first]
  BY DEF Split
<1>5. \A p \in Places : p[1] \in Int /\ p[2] \in Int
  BY LayoutAssumption
<1> HIDE DEF placed, first
<1> SUFFICES ASSUME NEW p \in Places
             PROVE  /\ InRect(bounds, p[1], p[2]) =>
                         \E i \in 1..2 : \A j \in 1..2 : InRect(placed[j], p[1], p[2]) <=> j = i
                    /\ ~ InRect(bounds, p[1], p[2]) => \A j \in 1..2 : ~ InRect(placed[j], p[1], p[2])
  BY <1>2, TilesFrom DEF placed
<1> DEFINE x == p[1]
           y == p[2]
           one == InRect(placed[1], x, y)
           two == InRect(placed[2], x, y)
<1>6. x \in Int /\ y \in Int
  BY <1>5
<1>7. InRect(bounds, x, y) <=>
        x >= bounds.x /\ y >= bounds.y /\ x < bounds.x + bounds.width /\ y < bounds.y + bounds.height
  BY DEF InRect
<1>8. CASE across
  <2>1. one <=> x >= bounds.x /\ y >= bounds.y /\ x < bounds.x + first /\ y < bounds.y + bounds.height
    BY <1>3, <1>8 DEF InRect, Rect
  <2>2. two <=> /\ x >= bounds.x + first /\ y >= bounds.y
                /\ x < bounds.x + first + (bounds.width - first) /\ y < bounds.y + bounds.height
    BY <1>4, <1>8 DEF InRect, Rect
  <2> HIDE DEF x, y, one, two
  <2>3. (one => ~ two) /\ (InRect(bounds, x, y) <=> one \/ two)
    BY <1>0, <1>1, <1>6, <1>7, <1>8, <2>1, <2>2
  <2> QED
    BY <2>3 DEF x, y, one, two
<1>9. CASE ~ across
  <2>1. one <=> x >= bounds.x /\ y >= bounds.y /\ x < bounds.x + bounds.width /\ y < bounds.y + first
    BY <1>3, <1>9 DEF InRect, Rect
  <2>2. two <=> /\ x >= bounds.x /\ y >= bounds.y + first
                /\ x < bounds.x + bounds.width /\ y < bounds.y + first + (bounds.height - first)
    BY <1>4, <1>9 DEF InRect, Rect
  <2> HIDE DEF x, y, one, two
  <2>3. (one => ~ two) /\ (InRect(bounds, x, y) <=> one \/ two)
    BY <1>0, <1>1, <1>6, <1>7, <1>9, <2>1, <2>2
  <2> QED
    BY <2>3 DEF x, y, one, two
<1> QED
  BY <1>8, <1>9

LEMMA GridCells ==
  ASSUME NEW bounds \in Rect, NEW n \in Nat \ {0}, NEW columns \in 1..3
  PROVE  CellsApart(bounds, Grid(bounds, 2, columns, n))
<1> SUFFICES ASSUME NEW p \in Places
             PROVE  LET placed == Grid(bounds, 2, columns, n)
                        found == {i \in DOMAIN placed : InRect(placed[i], p[1], p[2])}
                    IN  Cardinality(found) <= 1 /\ (found # {} => InRect(bounds, p[1], p[2]))
  BY DEF CellsApart
<1> DEFINE placed == Grid(bounds, 2, columns, n)
           found == {i \in DOMAIN placed : InRect(placed[i], p[1], p[2])}
           width == Quotient(bounds.width, columns)
           height == Quotient(bounds.height, 2)
           column(i) == (i - 1) % columns
           line_(i) == (i - 1) \div columns
           last_ == Min({n, 2 * columns})
<1>0. /\ bounds.x \in Int /\ bounds.y \in Int /\ bounds.width \in Int /\ bounds.height \in Int
      /\ p[1] \in Int /\ p[2] \in Int /\ columns \in Nat \ {0}
  BY LayoutAssumption DEF Rect
<1>1. width \in Int /\ (width > 0 => columns * width <= bounds.width)
  BY <1>0 DEF Quotient
<1>2. height \in Int /\ (height > 0 => 2 * height <= bounds.height)
  BY <1>0 DEF Quotient
<1>3. last_ \in Nat /\ last_ <= 2 * columns
  <2> DEFINE both == {n, 2 * columns}
  <2>1. 2 * columns \in Nat
    BY <1>0
  <2>2. \E m \in both : \A k \in both : m <= k
    BY <2>1
  <2>3. last_ \in both /\ \A k \in both : last_ <= k
    <3> HIDE DEF both
    <3> QED
      BY <2>2 DEF Min, both
  <2> QED
    BY <2>1, <2>3
<1>4. DOMAIN placed = 1..last_ /\
      \A i \in 1..last_ :
        /\ placed[i].x = bounds.x + column(i) * width /\ placed[i].width = width
        /\ placed[i].y = bounds.y + line_(i) * height /\ placed[i].height = height
  BY DEF Grid
<1> HIDE DEF placed, width, height, last_
<1>5. ASSUME NEW i \in 1..last_
      PROVE  /\ column(i) \in 0..columns - 1 /\ line_(i) \in 0..1
             /\ i - 1 = columns * line_(i) + column(i)
  <2>1. i - 1 \in 0..2 * columns - 1
    BY <1>0, <1>3
  <2>2. CASE columns = 1
    BY <2>1, <2>2
  <2>3. CASE columns = 2
    BY <2>1, <2>3
  <2>4. CASE columns = 3
    BY <2>1, <2>4
  <2> QED
    BY <2>2, <2>3, <2>4
<1> HIDE DEF column, line_
<1> DEFINE o == p[1] - bounds.x
           u == p[2] - bounds.y
<1>6. ASSUME NEW i \in found
      PROVE  /\ i \in 1..last_ /\ width > 0 /\ height > 0
             /\ column(i) * width <= o /\ o < (column(i) + 1) * width
             /\ line_(i) * height <= u /\ u < (line_(i) + 1) * height
  <2>1. i \in 1..last_ /\ InRect(placed[i], p[1], p[2])
    BY <1>4
  <2>2. column(i) \in Int /\ line_(i) \in Int
    BY <1>5, <2>1
  <2>3. /\ p[1] >= bounds.x + column(i) * width /\ p[2] >= bounds.y + line_(i) * height
        /\ p[1] < bounds.x + column(i) * width + width /\ p[2] < bounds.y + line_(i) * height + height
    BY <1>4, <2>1 DEF InRect
  <2>4. column(i) * width \in Int /\ line_(i) * height \in Int
    BY <1>1, <1>2, <2>2
  <2>5. (column(i) + 1) * width = column(i) * width + width /\ (line_(i) + 1) * height = line_(i) * height + height
    BY <1>1, <1>2, <2>2
  <2> QED
    BY <1>0, <1>1, <1>2, <2>1, <2>3, <2>4, <2>5
<1>7. ASSUME NEW a \in Int, NEW b \in Int, NEW w \in Int, w > 0, a < b PROVE (a + 1) * w <= b * w
  <2>1. b * w = (a + 1) * w + (b - (a + 1)) * w /\ (b - (a + 1)) * w >= 0 /\ (a + 1) * w \in Int
    BY <1>7
  <2> QED
    BY <2>1
<1>8. ASSUME NEW i \in found, NEW j \in found PROVE i = j
  <2> HIDE DEF found
  <2>1. i \in 1..last_ /\ j \in 1..last_
    BY <1>6
  <2>2. column(i) \in Int /\ column(j) \in Int /\ line_(i) \in Int /\ line_(j) \in Int
    BY <1>5, <2>1
  <2>3. o \in Int /\ u \in Int
    BY <1>0
  <2> HIDE DEF o, u
  <2>4. /\ (column(i) + 1) * width \in Int /\ (column(j) + 1) * width \in Int
        /\ column(i) * width \in Int /\ column(j) * width \in Int
        /\ (line_(i) + 1) * height \in Int /\ (line_(j) + 1) * height \in Int
        /\ line_(i) * height \in Int /\ line_(j) * height \in Int
    BY <1>1, <1>2, <2>2
  <2>5. ~ (column(i) < column(j)) /\ ~ (column(j) < column(i))
    BY <1>1, <1>6, <1>7, <2>2, <2>3, <2>4
  <2>6. ~ (line_(i) < line_(j)) /\ ~ (line_(j) < line_(i))
    BY <1>2, <1>6, <1>7, <2>2, <2>3, <2>4
  <2>7. column(i) = column(j) /\ line_(i) = line_(j)
    BY <2>2, <2>5, <2>6
  <2> QED
    BY <1>5, <2>1, <2>7
<1>9. Cardinality(found) <= 1
  <2>1. CASE found = {}
    BY <2>1, BoxesCardinality, FS_EmptySet
  <2>2. CASE found # {}
    <3>1. PICK i \in found : found = {i}
      BY <1>8, <2>2
    <3>2. Cardinality({i}) = 1
      BY FS_Singleton, Zenon
    <3>3. Cardinality(found) = 1
      BY <3>1, <3>2, BoxesCardinality, Zenon
    <3> QED
      BY <3>3
  <2> QED
    BY <2>1, <2>2
<1>10. ASSUME found # {} PROVE InRect(bounds, p[1], p[2])
  <2>1. PICK i \in found : TRUE
    BY <1>10
  <2>2. i \in 1..last_ /\ column(i) \in 0..columns - 1 /\ line_(i) \in 0..1
    BY <1>5, <1>6
  <2>3. ASSUME NEW c \in Int, NEW k \in Int, NEW w \in Int, 0 <= c, c + 1 <= k, w > 0
        PROVE  0 <= c * w /\ (c + 1) * w <= k * w /\ c * w \in Int /\ (c + 1) * w \in Int /\ k * w \in Int
    <3>1. k * w = (c + 1) * w + (k - (c + 1)) * w /\ (k - (c + 1)) * w >= 0 /\ (c + 1) * w \in Int
      BY <2>3
    <3> QED
      BY <2>3, <3>1
  <2>4. 0 <= o /\ o < bounds.width
    BY <1>0, <1>1, <1>6, <2>2, <2>3
  <2>5. 0 <= u /\ u < bounds.height
    BY <1>0, <1>2, <1>6, <2>2, <2>3
  <2> QED
    BY <1>0, <2>4, <2>5 DEF InRect
<1> QED
  BY <1>9, <1>10 DEF placed

LEMMA StackShowsLast ==
  ASSUME NEW bounds, NEW n \in Nat \ {0}, NEW x, NEW y, InRect(bounds, x, y)
  PROVE  Hit(bounds, Stack(bounds, n), x, y) = n
<1> DEFINE at_ == {i \in DOMAIN Stack(bounds, n) : InRect(Stack(bounds, n)[i], x, y)}
<1>1. at_ = 1..n /\ at_ # {}
  BY DEF Stack
<1>2. Max(1..n) = n
  <2>1. n \in 1..n /\ \A k \in 1..n : n >= k
    OBVIOUS
  <2>2. \A m \in 1..n : (\A k \in 1..n : m >= k) => m = n
    BY <2>1
  <2> QED
    BY <2>1, <2>2 DEF Max
<1> QED
  BY <1>1, <1>2 DEF Hit

LEMMA FrameWidth ==
  ASSUME NEW width \in Int, NEW height \in Int
  PROVE  \A i \in DOMAIN BoxRows(NotNegative(width), NotNegative(height)) :
           BoxRows(NotNegative(width), NotNegative(height))[i] = width \/ width = 1
<1>1. CASE NotNegative(width) = 0
  BY <1>1 DEF BoxRows
<1>2. CASE NotNegative(width) # 0
  <2>1. NotNegative(width) = width /\ width > 0
    BY <1>2 DEF NotNegative
  <2> QED
    BY <2>1 DEF BoxRows
<1> QED
  BY <1>1, <1>2

\* Boxes of any size and any number of children.
THEOREM BoxesTile ==
  \A bounds \in Rect, n \in Nat \ {0} : LayoutTiles(bounds, n)
<1> SUFFICES ASSUME NEW bounds \in Rect, NEW n \in Nat \ {0} PROVE LayoutTiles(bounds, n)
  OBVIOUS
<1>1. \A ratio \in Ratios, across \in BOOLEAN :
        Tiles(bounds, Split(bounds, ratio, across))
  <2>1. \A ratio \in Ratios : ratio \in Int
    BY LayoutAssumption
  <2> QED
    BY <2>1, SplitTiles
<1>2. \A columns \in 1..3 : CellsApart(bounds, Grid(bounds, 2, columns, n))
  BY GridCells
<1>3. TopFound(bounds, n)
  BY StackShowsLast DEF TopFound
<1>4. FrameFits(bounds)
  BY FrameWidth DEF Rect, FrameFits
<1> QED
  BY <1>1, <1>2, <1>3, <1>4, HBoxTiles, VBoxTiles, Zenon DEF LayoutTiles

\* f flattens seqs, one sequence after the other.
Flattens(f, seqs) ==
  \A i \in 1..Len(seqs) : f[i] = IF i = 1 THEN seqs[1] ELSE f[i - 1] \o seqs[i]

LEMMA FlattenExists ==
  ASSUME NEW S, NEW seqs \in Seq(Seq(S))
  PROVE  \E f \in [1..Len(seqs) -> Seq(S)] :
           Flattens(f, seqs) /\ FlattenSeq(seqs) = IF seqs = <<>> THEN <<>> ELSE f[Len(seqs)]
<1> DEFINE n == Len(seqs)
<1>1. CASE seqs = <<>>
  <2>1. [i \in 1..n |-> <<>>] \in [1..n -> Seq(S)] /\ Flattens([i \in 1..n |-> <<>>], seqs)
    BY <1>1 DEF Flattens
  <2>2. FlattenSeq(seqs) = <<>>
    BY <1>1 DEF FlattenSeq
  <2> QED
    BY <1>1, <2>1, <2>2
<1>2. CASE seqs # <<>>
  <2> DEFINE step == [p \in (1..n) \X Seq(S) |-> p[2] \o seqs[p[1]]]
             Flat(f) == f = [i \in 1..Len(seqs) |-> IF i = 1 THEN seqs[i] ELSE f[i - 1] \o seqs[i]]
             flatten == CHOOSE f : Flat(f)
  <2>0. n \in Nat /\ n # 0 /\ \A i \in 1..n : seqs[i] \in Seq(S)
    BY <1>2
  <2>1. step \in [(1..n) \X Seq(S) -> Seq(S)]
    <3>1. \A p \in (1..n) \X Seq(S) : p[2] \o seqs[p[1]] \in Seq(S)
      BY <2>0
    <3> QED
      BY <3>1
  <2>2. PICK f \in [1..n -> Seq(S)] : Climbs(f, 1, n, seqs[1], step)
    <3>1. seqs[1] \in Seq(S)
      BY <2>0
    <3> HIDE DEF step, n
    <3> QED
      BY <2>0, <2>1, <3>1, ClimbExists
  <2>3. ASSUME NEW i \in 1..n PROVE f[i] = IF i = 1 THEN seqs[1] ELSE f[i - 1] \o seqs[i]
    <3>1. CASE i = 1
      BY <2>2, <3>1 DEF Climbs
    <3>2. CASE i # 1
      <4>1. f[i] = step[<<i, f[i - 1]>>]
        <5> HIDE DEF step
        <5> QED
          BY <2>2, <3>2 DEF Climbs
      <4>2. i - 1 \in 1..n /\ f[i - 1] \in Seq(S)
        <5> HIDE DEF n
        <5> QED
          BY <2>0, <2>2, <3>2
      <4> QED
        BY <3>2, <4>1, <4>2
    <3> QED
      BY <3>1, <3>2
  <2>4. Flat(f)
    BY <2>2, <2>3, Zenon
  <2>5. Flat(flatten)
    BY <2>4, Zenon
  <2>6. FlattenSeq(seqs) = flatten[Len(seqs)]
    BY <2>0 DEF FlattenSeq
  <2> HIDE DEF flatten, step
  <2>7. \A i \in 1..n : flatten[i] = IF i = 1 THEN seqs[1] ELSE flatten[i - 1] \o seqs[i]
    BY <2>5
  <2>8. \A i \in 1..n : flatten[i] = f[i]
    <3> DEFINE T == {i \in 1..n : flatten[i] # f[i]}
    <3> SUFFICES ASSUME T # {} PROVE FALSE
      OBVIOUS
    <3>1. PICK i \in T : \A j \in T : i <= j
      <4>1. T \subseteq Nat
        OBVIOUS
      <4> HIDE DEF T
      <4> QED
        BY <4>1, LeastNat
    <3>2. i # 1 /\ i \in 1..n
      BY <2>3, <2>7
    <3>3. i - 1 \in 1..n /\ i - 1 \notin T
      <4> HIDE DEF T
      <4> QED
        BY <2>0, <3>1, <3>2
    <3>4. flatten[i - 1] = f[i - 1]
      BY <3>3
    <3>5. flatten[i] = f[i - 1] \o seqs[i]
      BY <2>7, <3>2, <3>4
    <3>6. f[i] = f[i - 1] \o seqs[i]
      BY <2>3, <3>2
    <3> QED
      BY <3>1, <3>5, <3>6
  <2>9. FlattenSeq(seqs) = f[n]
    BY <2>0, <2>6, <2>8
  <2> QED
    BY <1>2, <2>2, <2>3, <2>9 DEF Flattens
<1> QED
  BY <1>1, <1>2

LEMMA FlattenAppend ==
  ASSUME NEW S, NEW seqs \in Seq(Seq(S)), NEW s \in Seq(S)
  PROVE  FlattenSeq(Append(seqs, s)) = FlattenSeq(seqs) \o s
<1> DEFINE n == Len(seqs)
           more == Append(seqs, s)
<1>1. more \in Seq(Seq(S)) /\ Len(more) = n + 1 /\ n \in Nat /\ more # <<>>
      /\ more[n + 1] = s /\ \A i \in 1..n : more[i] = seqs[i]
  <2> DEFINE W == Seq(S)
  <2> HIDE DEF W
  <2>1. seqs \in Seq(W) /\ s \in W
    BY DEF W
  <2>2. more \in Seq(W) /\ Len(more) = n + 1 /\ n \in Nat
        /\ more[n + 1] = s /\ \A i \in 1..n : more[i] = seqs[i]
    BY <2>1
  <2>3. more # <<>>
    BY <2>1, AppendProperties
  <2> QED
    BY <2>2, <2>3 DEF W
<1>2. PICK f \in [1..n -> Seq(S)] :
        Flattens(f, seqs) /\ FlattenSeq(seqs) = IF seqs = <<>> THEN <<>> ELSE f[n]
  BY FlattenExists
<1> HIDE DEF more
<1>3. PICK g \in [1..n + 1 -> Seq(S)] : Flattens(g, more) /\ FlattenSeq(more) = g[n + 1]
  BY <1>1, FlattenExists
<1>4. \A i \in 1..n : f[i] = g[i]
  <2> DEFINE T == {i \in 1..n : g[i] # f[i]}
  <2> SUFFICES ASSUME T # {} PROVE FALSE
    OBVIOUS
  <2>1. PICK i \in T : \A j \in T : i <= j
    <3>1. T \subseteq Nat
      OBVIOUS
    <3> HIDE DEF T
    <3> QED
      BY <3>1, LeastNat
  <2>2. /\ f[i] = IF i = 1 THEN seqs[1] ELSE f[i - 1] \o seqs[i]
        /\ g[i] = IF i = 1 THEN seqs[1] ELSE g[i - 1] \o seqs[i]
    <3>1. i \in 1..n /\ i \in 1..Len(more) /\ more[1] = seqs[1] /\ more[i] = seqs[i]
      BY <1>1
    <3>2. g[i] = IF i = 1 THEN more[1] ELSE g[i - 1] \o more[i]
      BY <1>3, <3>1 DEF Flattens
    <3> QED
      BY <1>2, <3>1, <3>2 DEF Flattens
  <2>3. i # 1 /\ i \in 1..n
    BY <2>2
  <2>4. i - 1 \in 1..n /\ i - 1 \notin T
    <3> HIDE DEF T
    <3> QED
      BY <1>1, <2>1, <2>3
  <2> QED
    BY <2>1, <2>2, <2>3, <2>4
<1>5. CASE n = 0
  <2>1. seqs = <<>> /\ g[1] = s
    BY <1>1, <1>3, <1>5 DEF Flattens
  <2> QED
    BY <1>2, <1>3, <1>5, <2>1 DEF more
<1>6. CASE n # 0
  <2>1. n + 1 \in 1..Len(more) /\ n + 1 # 1 /\ (n + 1) - 1 = n /\ more[n + 1] = s
    BY <1>1, <1>6
  <2>2. g[n + 1] = g[(n + 1) - 1] \o more[n + 1]
    BY <1>3, <2>1 DEF Flattens
  <2>3. g[n + 1] = g[n] \o s /\ seqs # <<>> /\ g[n] = f[n]
    BY <1>1, <1>4, <1>6, <2>1, <2>2
  <2> QED
    BY <1>2, <1>3, <2>3 DEF more
<1> QED
  BY <1>5, <1>6

LEMMA ConcatRange ==
  ASSUME NEW S, NEW s \in Seq(S), NEW t \in Seq(S)
  PROVE  Range(s \o t) = Range(s) \cup Range(t)
<1>1. /\ Len(s \o t) = Len(s) + Len(t) /\ s \o t \in Seq(S) /\ Len(s) \in Nat /\ Len(t) \in Nat
      /\ \A i \in 1..Len(s) + Len(t) : (s \o t)[i] = IF i <= Len(s) THEN s[i] ELSE t[i - Len(s)]
  BY ConcatProperties
<1>2. DOMAIN s = 1..Len(s) /\ DOMAIN t = 1..Len(t) /\ DOMAIN (s \o t) = 1..Len(s) + Len(t)
  BY <1>1
<1>3. ASSUME NEW i \in 1..Len(s) PROVE s[i] = (s \o t)[i] /\ i \in 1..Len(s) + Len(t)
  BY <1>1
<1>4. ASSUME NEW i \in 1..Len(t)
      PROVE  t[i] = (s \o t)[Len(s) + i] /\ Len(s) + i \in 1..Len(s) + Len(t)
  <2>1. Len(s) + i \in 1..Len(s) + Len(t) /\ ~ (Len(s) + i <= Len(s)) /\ (Len(s) + i) - Len(s) = i
    BY <1>1
  <2> QED
    BY <1>1, <2>1
<1>5. ASSUME NEW i \in 1..Len(s) + Len(t) PROVE (s \o t)[i] \in Range(s) \cup Range(t)
  <2>1. CASE i <= Len(s)
    BY <1>1, <1>2, <2>1 DEF Range
  <2>2. CASE ~ (i <= Len(s))
    <3>1. i - Len(s) \in 1..Len(t) /\ (s \o t)[i] = t[i - Len(s)]
      BY <1>1, <2>2
    <3> QED
      BY <1>2, <3>1 DEF Range
  <2> QED
    BY <2>1, <2>2
<1>6. Range(s) \subseteq Range(s \o t)
  BY <1>2, <1>3 DEF Range
<1>7. Range(t) \subseteq Range(s \o t)
  BY <1>2, <1>4 DEF Range
<1>8. ASSUME NEW v \in Range(s \o t) PROVE v \in Range(s) \cup Range(t)
  <2>1. PICK i \in 1..Len(s) + Len(t) : v = (s \o t)[i]
    BY <1>2 DEF Range
  <2> QED
    BY <1>5, <2>1
<1> QED
  BY <1>6, <1>7, <1>8

LEMMA ConcatInjective ==
  ASSUME NEW S, NEW s \in Seq(S), NEW t \in Seq(S), IsInjective(s), IsInjective(t),
         Range(s) \cap Range(t) = {}
  PROVE  IsInjective(s \o t)
<1>1. /\ Len(s \o t) = Len(s) + Len(t) /\ s \o t \in Seq(S) /\ Len(s) \in Nat /\ Len(t) \in Nat
      /\ \A i \in 1..Len(s) + Len(t) : (s \o t)[i] = IF i <= Len(s) THEN s[i] ELSE t[i - Len(s)]
  BY ConcatProperties
<1>2. DOMAIN s = 1..Len(s) /\ DOMAIN t = 1..Len(t) /\ DOMAIN (s \o t) = 1..Len(s) + Len(t)
  BY <1>1
<1> SUFFICES ASSUME NEW i \in 1..Len(s) + Len(t), NEW j \in 1..Len(s) + Len(t),
                    (s \o t)[i] = (s \o t)[j]
             PROVE  i = j
  BY <1>2 DEF IsInjective
<1>3. ASSUME NEW k \in 1..Len(s) + Len(t), k <= Len(s)
      PROVE  k \in DOMAIN s /\ (s \o t)[k] = s[k] /\ s[k] \in Range(s)
  BY <1>1, <1>2, <1>3 DEF Range
<1>4. ASSUME NEW k \in 1..Len(s) + Len(t), ~ (k <= Len(s))
      PROVE  k - Len(s) \in DOMAIN t /\ (s \o t)[k] = t[k - Len(s)] /\ t[k - Len(s)] \in Range(t)
  <2>1. k - Len(s) \in 1..Len(t)
    BY <1>1, <1>4
  <2> QED
    BY <1>1, <1>2, <1>4, <2>1 DEF Range
<1>5. CASE i <= Len(s) /\ j <= Len(s)
  BY <1>3, <1>5 DEF IsInjective
<1>6. CASE ~ (i <= Len(s)) /\ ~ (j <= Len(s))
  <2>1. i - Len(s) = j - Len(s)
    BY <1>4, <1>6 DEF IsInjective
  <2> QED
    BY <1>1, <2>1
<1>7. CASE (i <= Len(s)) # (j <= Len(s))
  BY <1>3, <1>4, <1>7
<1> QED
  BY <1>5, <1>6, <1>7

LEMMA FlattenRange ==
  ASSUME NEW S, NEW seqs \in Seq(Seq(S))
  PROVE  /\ FlattenSeq(seqs) \in Seq(S)
         /\ \A v : v \in Range(FlattenSeq(seqs)) <=> \E i \in 1..Len(seqs) : v \in Range(seqs[i])
         /\ (/\ \A i \in 1..Len(seqs) : IsInjective(seqs[i])
             /\ \A i, j \in 1..Len(seqs) : i # j => Range(seqs[i]) \cap Range(seqs[j]) = {})
              => IsInjective(FlattenSeq(seqs))
<1> DEFINE n == Len(seqs)
           Apart == /\ \A i \in 1..n : IsInjective(seqs[i])
                    /\ \A i, j \in 1..n : i # j => Range(seqs[i]) \cap Range(seqs[j]) = {}
<1>1. PICK f \in [1..n -> Seq(S)] :
        Flattens(f, seqs) /\ FlattenSeq(seqs) = IF seqs = <<>> THEN <<>> ELSE f[n]
  BY FlattenExists
<1>2. n \in Nat /\ (n = 0 <=> seqs = <<>>) /\ \A i \in 1..n : seqs[i] \in Seq(S)
  OBVIOUS
<1> DEFINE Ranges(k) == \A v : v \in Range(f[k]) <=> \E i \in 1..k : v \in Range(seqs[i])
           Fits(k) == Ranges(k) /\ (Apart => IsInjective(f[k]))
<1>3. \A k \in 1..n : Fits(k)
  <2> DEFINE T == {k \in 1..n : ~ Fits(k)}
  <2> SUFFICES ASSUME T # {} PROVE FALSE
    OBVIOUS
  <2>1. PICK k \in T : \A j \in T : k <= j
    <3>1. T \subseteq Nat
      OBVIOUS
    <3> HIDE DEF T
    <3> QED
      BY <3>1, LeastNat
  <2>2. k \in 1..n /\ ~ Fits(k)
    OBVIOUS
  <2>3. CASE k = 1
    <3>1. f[1] = seqs[1]
      BY <1>1, <2>2, <2>3 DEF Flattens
    <3>2. Ranges(1)
      BY <3>1
    <3> QED
      BY <2>2, <2>3, <3>1, <3>2
  <2>4. CASE k # 1
    <3>1. k - 1 \in 1..n /\ k - 1 \notin T
      <4> HIDE DEF T
      <4> QED
        BY <1>2, <2>1, <2>2, <2>4
    <3>2. Fits(k - 1)
      BY <3>1
    <3>3. f[k] = f[k - 1] \o seqs[k]
      BY <1>1, <2>2, <2>4 DEF Flattens
    <3>4. f[k - 1] \in Seq(S) /\ seqs[k] \in Seq(S)
      BY <1>1, <1>2, <2>2, <3>1
    <3>5. Range(f[k]) = Range(f[k - 1]) \cup Range(seqs[k])
      BY <3>3, <3>4, ConcatRange
    <3>6. 1..k = (1..k - 1) \cup {k}
      BY <2>2
    <3>7. Ranges(k - 1)
      BY <3>2
    <3>8. Ranges(k)
      BY <3>5, <3>6, <3>7
    <3>9. ASSUME Apart PROVE IsInjective(f[k])
      <4>1. IsInjective(f[k - 1]) /\ IsInjective(seqs[k])
        BY <2>2, <3>2, <3>9
      <4>2. \A i \in 1..k - 1 : Range(seqs[i]) \cap Range(seqs[k]) = {}
        <5>1. \A i \in 1..k - 1 : i \in 1..n /\ i # k
          BY <2>2
        <5> QED
          BY <2>2, <3>9, <5>1
      <4>3. Range(f[k - 1]) \cap Range(seqs[k]) = {}
        BY <3>7, <4>2
      <4> QED
        BY <3>3, <3>4, <4>1, <4>3, ConcatInjective
    <3> QED
      BY <2>2, <3>8, <3>9
  <2> QED
    BY <2>3, <2>4
<1>4. CASE n = 0
  <2>1. FlattenSeq(seqs) = <<>>
    BY <1>1, <1>2, <1>4
  <2> QED
    BY <1>4, <2>1 DEF Range, IsInjective
<1>5. CASE n # 0
  <2>1. FlattenSeq(seqs) = f[n] /\ n \in 1..n /\ f[n] \in Seq(S)
    BY <1>1, <1>2, <1>5
  <2>2. Fits(n)
    BY <1>3, <2>1
  <2> QED
    BY <2>1, <2>2
<1> QED
  BY <1>4, <1>5

LEMMA FlattenSame == ASSUME NEW s PROVE F!FlattenSeq(s) = FlattenSeq(s)
BY DEF F!FlattenSeq, FlattenSeq

Childhood == [Widgets -> Seq(Widgets)]

Own(w) == IF w \in Skipped THEN <<>> ELSE <<w>>
Parts(g, w, below) == [i \in DOMAIN below[w] |-> g[below[w][i]]]
One(g, w, below) == Own(w) \o FlattenSeq(Parts(g, w, below))

LEMMA OneIs ==
  ASSUME NEW below \in Childhood, NEW g \in Childhood, NEW w \in Widgets
  PROVE  /\ One(g, w, below) \in Seq(Widgets)
         /\ \A v : v \in Range(One(g, w, below)) <=>
              (v = w /\ w \notin Skipped) \/ \E i \in DOMAIN below[w] : v \in Range(g[below[w][i]])
         /\ (/\ \A i \in DOMAIN below[w] : IsInjective(g[below[w][i]]) /\ w \notin Range(g[below[w][i]])
             /\ \A i, j \in DOMAIN below[w] :
                  i # j => Range(g[below[w][i]]) \cap Range(g[below[w][j]]) = {})
              => IsInjective(One(g, w, below))
<1> DEFINE parts == Parts(g, w, below)
           W == Seq(Widgets)
           Apart == /\ \A i \in DOMAIN below[w] : IsInjective(g[below[w][i]]) /\ w \notin Range(g[below[w][i]])
                    /\ \A i, j \in DOMAIN below[w] :
                         i # j => Range(g[below[w][i]]) \cap Range(g[below[w][j]]) = {}
<1>1. below[w] \in Seq(Widgets) /\ DOMAIN below[w] = 1..Len(below[w]) /\ Len(below[w]) \in Nat
      /\ \A i \in DOMAIN below[w] : below[w][i] \in Widgets
  BY DEF Childhood
<1>2. parts \in Seq(Seq(Widgets)) /\ Len(parts) = Len(below[w]) /\ DOMAIN parts = DOMAIN below[w]
      /\ \A i \in DOMAIN below[w] : parts[i] = g[below[w][i]]
  <2> HIDE DEF W
  <2>1. \A i \in DOMAIN below[w] : g[below[w][i]] \in W
    BY <1>1 DEF Childhood, W
  <2>2. parts \in [1..Len(below[w]) -> W] /\ \A i \in DOMAIN below[w] : parts[i] = g[below[w][i]]
    BY <1>1, <2>1 DEF Parts
  <2> HIDE DEF parts
  <2>3. parts \in Seq(W) /\ Len(parts) = Len(below[w])
    BY <1>1, <2>2, SeqDef
  <2> QED
    BY <1>1, <2>2, <2>3 DEF W
<1> HIDE DEF parts
<1>3. /\ FlattenSeq(parts) \in Seq(Widgets)
      /\ \A v : v \in Range(FlattenSeq(parts)) <=> \E i \in DOMAIN below[w] : v \in Range(g[below[w][i]])
      /\ Apart => IsInjective(FlattenSeq(parts))
  <2>1. /\ FlattenSeq(parts) \in Seq(Widgets)
        /\ \A v : v \in Range(FlattenSeq(parts)) <=> \E i \in 1..Len(parts) : v \in Range(parts[i])
        /\ (/\ \A i \in 1..Len(parts) : IsInjective(parts[i])
            /\ \A i, j \in 1..Len(parts) : i # j => Range(parts[i]) \cap Range(parts[j]) = {})
             => IsInjective(FlattenSeq(parts))
    BY <1>2, FlattenRange
  <2>2. 1..Len(parts) = DOMAIN below[w]
    BY <1>1, <1>2
  <2>3. Apart => IsInjective(FlattenSeq(parts))
    <3> SUFFICES ASSUME Apart
                 PROVE  /\ \A i \in 1..Len(parts) : IsInjective(parts[i])
                        /\ \A i, j \in 1..Len(parts) : i # j => Range(parts[i]) \cap Range(parts[j]) = {}
      BY <2>1
    <3>1. \A i \in 1..Len(parts) : i \in DOMAIN below[w] /\ parts[i] = g[below[w][i]]
      BY <1>2, <2>2
    <3>2. \A i \in 1..Len(parts) : IsInjective(parts[i])
      BY <3>1
    <3>3. \A i, j \in 1..Len(parts) : i # j => Range(parts[i]) \cap Range(parts[j]) = {}
      BY <3>1
    <3> QED
      BY <3>2, <3>3
  <2>4. \A v : (\E i \in 1..Len(parts) : v \in Range(parts[i]))
                 <=> \E i \in DOMAIN below[w] : v \in Range(g[below[w][i]])
    BY <1>2, <2>2
  <2> QED
    BY <2>1, <2>3, <2>4
<1>4. /\ Own(w) \in Seq(Widgets) /\ IsInjective(Own(w))
      /\ Range(Own(w)) = IF w \in Skipped THEN {} ELSE {w}
  BY DEF Own, Range, IsInjective
<1>5. One(g, w, below) = Own(w) \o FlattenSeq(parts)
  BY DEF One, parts
<1>6. One(g, w, below) \in Seq(Widgets)
      /\ Range(One(g, w, below)) = Range(Own(w)) \cup Range(FlattenSeq(parts))
  BY <1>3, <1>4, <1>5, ConcatRange, ConcatProperties
<1>7. ASSUME Apart PROVE IsInjective(One(g, w, below))
  <2>1. Range(Own(w)) \cap Range(FlattenSeq(parts)) = {}
    BY <1>3, <1>4, <1>7
  <2>2. IsInjective(FlattenSeq(parts)) /\ FlattenSeq(parts) \in Seq(Widgets)
    BY <1>3, <1>7
  <2> HIDE DEF Apart
  <2> QED
    BY <1>4, <1>5, <2>1, <2>2, ConcatInjective
<1> QED
  BY <1>3, <1>4, <1>6, <1>7

N == F!Cardinality(Widgets)

LEMMA NumberOfWidgets == N \in Nat
<1>1. N = Cardinality(Widgets)
  BY DEF N, F!Cardinality, Cardinality
<1> QED
  BY <1>1, FocusAssumption, FS_CardinalityType

\* from[n] lists the widgets of the first n levels.
Levels(from, below) ==
  /\ from \in [0..N -> Childhood]
  /\ \A w \in Widgets : from[0][w] = <<>>
  /\ \A n \in 1..N, w \in Widgets : from[n][w] = One(from[n - 1], w, below)

LEMMA CollectedIs ==
  ASSUME NEW below \in Childhood
  PROVE  \E from : Levels(from, below) /\ \A root \in Widgets : F!Collected(root, below) = from[N][root]
<1> DEFINE step == [p \in (0..N) \X Childhood |-> [w \in Widgets |-> One(p[2], w, below)]]
           none == [w \in Widgets |-> <<>>]
           From(f) ==
             f = [n \in 0..F!Cardinality(Widgets) |->
                   [w \in Widgets |->
                      IF n = 0 THEN <<>>
                      ELSE (IF w \in Skipped THEN <<>> ELSE <<w>>)
                             \o F!FlattenSeq([i \in DOMAIN below[w] |-> f[n - 1][below[w][i]]])]]
           from == CHOOSE f : From(f)
<1>0. N \in Nat
  BY NumberOfWidgets
<1>1. step \in [(0..N) \X Childhood -> Childhood]
  <2>1. \A p \in (0..N) \X Childhood : [w \in Widgets |-> One(p[2], w, below)] \in Childhood
    BY OneIs DEF Childhood
  <2> QED
    BY <2>1
<1>2. none \in Childhood
  BY DEF Childhood
<1>3. PICK f \in [0..N -> Childhood] : Climbs(f, 0, N, none, step)
  <2> HIDE DEF step, none
  <2> QED
    BY <1>0, <1>1, <1>2, ClimbExists
<1>4. f[0] = none
  <2>1. 0 \in 0..N
    BY <1>0
  <2> HIDE DEF step, none
  <2> QED
    BY <1>3, <2>1 DEF Climbs
<1>5. \A n \in 1..N : f[n] = [w \in Widgets |-> One(f[n - 1], w, below)]
  <2> SUFFICES ASSUME NEW n \in 1..N PROVE f[n] = [w \in Widgets |-> One(f[n - 1], w, below)]
    OBVIOUS
  <2>1. n \in 0..N /\ n # 0 /\ n - 1 \in 0..N
    BY <1>0
  <2>2. f[n] = step[<<n, f[n - 1]>>]
    <3> HIDE DEF step
    <3> QED
      BY <1>3, <2>1 DEF Climbs
  <2>3. f[n - 1] \in Childhood
    BY <1>3, <2>1
  <2> QED
    BY <2>1, <2>2, <2>3
<1>6. From(f)
  <2>1. f = [n \in 0..N |-> f[n]]
    BY <1>3
  <2>2. ASSUME NEW n \in 0..N
        PROVE  f[n] = [w \in Widgets |->
                         IF n = 0 THEN <<>>
                         ELSE (IF w \in Skipped THEN <<>> ELSE <<w>>)
                                \o F!FlattenSeq([i \in DOMAIN below[w] |-> f[n - 1][below[w][i]]])]
    <3>1. CASE n = 0
      BY <1>4, <3>1
    <3>2. CASE n # 0
      <4>1. f[n] = [w \in Widgets |-> One(f[n - 1], w, below)]
        <5>1. n \in 1..N
          <6> HIDE DEF N
          <6> QED
            BY <1>0, <3>2
        <5> QED
          BY <1>5, <5>1, Zenon
      <4> QED
        BY <3>2, <4>1, FlattenSame DEF One, Own, Parts
    <3> QED
      BY <3>1, <3>2
  <2> QED
    BY <2>1, <2>2 DEF N
<1>7. From(from)
  BY <1>6, ZenonT(30)
<1>8. \A root : F!Collected(root, below) = from[N][root]
  BY DEF F!Collected, N
<1> HIDE DEF from, step, none
<1>9. /\ from = [n \in 0..N |-> from[n]]
      /\ \A n \in 0..N : from[n] = [w \in Widgets |-> from[n][w]]
      /\ \A n \in 0..N, w \in Widgets :
        from[n][w] = IF n = 0 THEN <<>> ELSE One(from[n - 1], w, below)
  <2> DEFINE valued(n, w) ==
               IF n = 0 THEN <<>>
               ELSE (IF w \in Skipped THEN <<>> ELSE <<w>>)
                      \o F!FlattenSeq([i \in DOMAIN below[w] |-> from[n - 1][below[w][i]]])
  <2>1. from = [n \in 0..N |-> [w \in Widgets |-> valued(n, w)]]
    BY <1>7 DEF N
  <2>2. \A n, w : valued(n, w) = IF n = 0 THEN <<>> ELSE One(from[n - 1], w, below)
    BY FlattenSame DEF One, Own, Parts
  <2> HIDE DEF valued
  <2>3. \A n \in 0..N : from[n] = [w \in Widgets |-> valued(n, w)]
    BY <2>1
  <2>4. \A n \in 0..N, w \in Widgets : from[n][w] = valued(n, w)
    BY <2>3
  <2>5. from = [n \in 0..N |-> from[n]]
    BY <2>1
  <2>6. \A n \in 0..N : from[n] = [w \in Widgets |-> from[n][w]]
    BY <2>3
  <2> QED
    BY <2>2, <2>4, <2>5, <2>6
<1>10. \A n \in 0..N : from[n] \in Childhood
  <2> DEFINE T == {n \in 0..N : from[n] \notin Childhood}
  <2> SUFFICES ASSUME T # {} PROVE FALSE
    OBVIOUS
  <2>1. PICK n \in T : \A m \in T : n <= m
    <3>1. T \subseteq Nat
      OBVIOUS
    <3> HIDE DEF T
    <3> QED
      BY <3>1, LeastNat
  <2>2. n \in 0..N /\ from[n] \notin Childhood
    OBVIOUS
  <2>3. from[n] = [w \in Widgets |-> from[n][w]]
    BY <1>9, <2>2
  <2>4. n # 0
    <3> SUFFICES ASSUME n = 0 PROVE FALSE
      OBVIOUS
    <3>1. \A w \in Widgets : from[n][w] = <<>>
      BY <1>9, <2>2
    <3>2. \A w \in Widgets : from[n][w] \in Seq(Widgets)
      BY <3>1, EmptySeq
    <3> QED
      BY <2>2, <2>3, <3>2 DEF Childhood
  <2>5. n - 1 \in 0..N /\ n - 1 \notin T
    <3> HIDE DEF T
    <3> QED
      BY <1>0, <2>1, <2>2, <2>4
  <2>6. from[n - 1] \in Childhood
    BY <2>5
  <2>7. \A w \in Widgets : from[n][w] \in Seq(Widgets)
    <3> SUFFICES ASSUME NEW w \in Widgets PROVE from[n][w] \in Seq(Widgets)
      OBVIOUS
    <3>1. from[n][w] = One(from[n - 1], w, below)
      BY <1>9, <2>2, <2>4
    <3> QED
      BY <2>6, <3>1, OneIs
  <2> QED
    BY <2>2, <2>3, <2>7 DEF Childhood
<1>11. Levels(from, below)
  BY <1>0, <1>9, <1>10 DEF Levels
<1> QED
  BY <1>8, <1>11

\* Widgets form trees: a child is younger than its parent, has one parent and is no root.
Forest(below) ==
  /\ below \in Childhood
  /\ \A p \in Widgets : \A i \in DOMAIN below[p] : below[p][i] > p /\ below[p][i] \notin Roots
  /\ \A p, q \in Widgets : \A i \in DOMAIN below[p], j \in DOMAIN below[q] :
       below[p][i] = below[q][j] => p = q /\ i = j

Closed(S, below) == \A p \in S : \A i \in DOMAIN below[p] : below[p][i] \in S

\* The widget and all below it: the least set that has it and all children of its members.
Tree(w, below) == {v \in Widgets : \A S \in SUBSET Widgets : w \in S /\ Closed(S, below) => v \in S}

LEMMA TreeHas ==
  ASSUME NEW below, Forest(below), NEW w \in Widgets
  PROVE  /\ w \in Tree(w, below)
         /\ \A p \in Tree(w, below) : \A i \in DOMAIN below[p] : below[p][i] \in Tree(w, below)
         /\ \A v \in Tree(w, below) : v >= w
         /\ \A v \in Tree(w, below) :
              v = w \/ \E p \in Tree(w, below) : \E i \in DOMAIN below[p] : below[p][i] = v
<1>0. Widgets \subseteq Nat /\ \A p \in Widgets : \A i \in DOMAIN below[p] : below[p][i] \in Widgets
  BY FocusAssumption DEF Forest, Childhood
<1>1. w \in Tree(w, below)
  BY DEF Tree
<1>2. \A p \in Tree(w, below) : \A i \in DOMAIN below[p] : below[p][i] \in Tree(w, below)
  BY <1>0 DEF Tree, Closed
<1>3. \A v \in Tree(w, below) : v >= w
  <2> DEFINE S == {u \in Widgets : u >= w}
  <2>1. w \in S
    BY <1>0
  <2>2. Closed(S, below)
    <3> SUFFICES ASSUME NEW p \in S, NEW i \in DOMAIN below[p] PROVE below[p][i] \in S
      BY DEF Closed
    <3>1. below[p][i] > p /\ below[p][i] \in Widgets /\ p \in Widgets /\ p >= w
      BY <1>0 DEF Forest
    <3>2. below[p][i] \in Nat /\ p \in Nat /\ w \in Nat
      BY <1>0, <3>1
    <3>3. below[p][i] >= w
      BY <3>1, <3>2
    <3> QED
      BY <3>1, <3>3
  <2> QED
    BY <2>1, <2>2 DEF Tree
<1>4. ASSUME NEW v \in Tree(w, below), v # w,
             \A p \in Tree(w, below) : \A i \in DOMAIN below[p] : below[p][i] # v
      PROVE  FALSE
  <2> DEFINE S == Tree(w, below) \ {v}
  <2>1. w \in S /\ S \in SUBSET Widgets
    BY <1>1, <1>4 DEF Tree
  <2>2. Closed(S, below)
    BY <1>2, <1>4 DEF Closed
  <2> QED
    BY <2>1, <2>2 DEF Tree
<1> QED
  BY <1>1, <1>2, <1>3, <1>4

LEMMA TreesApart ==
  ASSUME NEW below, Forest(below), NEW w \in Widgets,
         NEW i \in DOMAIN below[w], NEW j \in DOMAIN below[w], i # j
  PROVE  Tree(below[w][i], below) \cap Tree(below[w][j], below) = {}
<1> DEFINE c == below[w][i]
           d == below[w][j]
           T == Tree(c, below) \cap Tree(d, below)
<1>0. Widgets \subseteq Nat /\ c \in Widgets /\ d \in Widgets /\ c # d /\ c > w /\ d > w
  BY FocusAssumption DEF Forest, Childhood
<1> SUFFICES ASSUME T # {} PROVE FALSE
  OBVIOUS
<1>1. PICK v \in T : \A u \in T : v <= u
  <2>1. T \subseteq Nat
    BY <1>0 DEF Tree
  <2> HIDE DEF T
  <2> QED
    BY <2>1, LeastNat
<1>2. ASSUME NEW a \in {c, d}, NEW b \in {c, d}, a # b, a \in Tree(b, below) PROVE FALSE
  <2>0. b \in Widgets
    BY <1>0
  <2>1. PICK p \in Tree(b, below) : \E k \in DOMAIN below[p] : below[p][k] = a
    <3> HIDE DEF c, d
    <3> QED
      BY <1>2, <2>0, TreeHas
  <2>2. p = w /\ p >= b
    <3>1. p \in Widgets /\ b \in Widgets
      BY <1>0 DEF Tree
    <3> QED
      BY <2>1, <3>1, TreeHas DEF Forest
  <2> QED
    BY <1>0, <2>2
<1>3. v \in Tree(c, below) /\ v \in Tree(d, below) /\ v # c /\ v # d
  BY <1>0, <1>2
<1>4. PICK p \in Tree(c, below) : \E k \in DOMAIN below[p] : below[p][k] = v
  BY <1>0, <1>3, TreeHas
<1>5. PICK q \in Tree(d, below) : \E k \in DOMAIN below[q] : below[q][k] = v
  BY <1>0, <1>3, TreeHas
<1>6. p \in Widgets /\ q \in Widgets /\ v \in Widgets
  BY <1>3 DEF Tree
<1>7. p = q /\ p < v
  BY <1>0, <1>4, <1>5, <1>6 DEF Forest
<1> QED
  BY <1>0, <1>1, <1>6, <1>7

LEMMA LevelsInTree ==
  ASSUME NEW below, Forest(below), NEW from, Levels(from, below), NEW n \in 0..N, NEW w \in Widgets
  PROVE  Range(from[n][w]) \subseteq Tree(w, below) /\ IsInjective(from[n][w])
<1> DEFINE Fits(m) == \A u \in Widgets : Range(from[m][u]) \subseteq Tree(u, below) /\ IsInjective(from[m][u])
           T == {m \in 0..N : ~ Fits(m)}
<1>0. N \in Nat /\ below \in Childhood
  BY NumberOfWidgets DEF Forest
<1> SUFFICES ASSUME T # {} PROVE FALSE
  OBVIOUS
<1>1. PICK m \in T : \A k \in T : m <= k
  <2>1. T \subseteq Nat
    OBVIOUS
  <2> HIDE DEF T
  <2> QED
    BY <2>1, LeastNat
<1>2. m \in 0..N /\ ~ Fits(m)
  OBVIOUS
<1>3. m # 0
  <2>1. \A u \in Widgets : from[0][u] = <<>>
    BY DEF Levels
  <2>2. Fits(0)
    BY <2>1 DEF Range, IsInjective
  <2> QED
    BY <1>2, <2>2
<1>4. m - 1 \in 0..N /\ m - 1 \notin T /\ m \in 1..N
  <2> HIDE DEF T
  <2> QED
    BY <1>0, <1>1, <1>2, <1>3
<1>5. Fits(m - 1)
  BY <1>4
<1> DEFINE g == from[m - 1]
<1>6. g \in Childhood /\ \A u \in Widgets : from[m][u] = One(g, u, below)
  BY <1>4 DEF Levels
<1>7. \A u \in Widgets : Range(g[u]) \subseteq Tree(u, below) /\ IsInjective(g[u])
  BY <1>5
<1> HIDE DEF g, T, Fits
<1>8. ASSUME NEW u \in Widgets
      PROVE  Range(from[m][u]) \subseteq Tree(u, below) /\ IsInjective(from[m][u])
  <2>1. \A i \in DOMAIN below[u] : below[u][i] \in Widgets /\ below[u][i] > u /\ below[u][i] \in Tree(u, below)
    <3>1. u \in Tree(u, below)
      BY TreeHas
    <3>2. \A i \in DOMAIN below[u] : below[u][i] \in Tree(u, below)
      BY <3>1, TreeHas
    <3>3. \A i \in DOMAIN below[u] : below[u][i] \in Widgets /\ below[u][i] > u
      BY DEF Forest, Childhood
    <3> QED
      BY <3>2, <3>3
  <2>2. ASSUME NEW i \in DOMAIN below[u] PROVE Tree(below[u][i], below) \subseteq Tree(u, below)
    <3>1. Closed(Tree(u, below), below) /\ Tree(u, below) \in SUBSET Widgets
      BY TreeHas DEF Closed, Tree
    <3> QED
      BY <2>1, <3>1 DEF Tree
  <2>3. Range(One(g, u, below)) \subseteq Tree(u, below)
    <3>1. u \in Tree(u, below)
      BY TreeHas
    <3>2. \A i \in DOMAIN below[u] : Range(g[below[u][i]]) \subseteq Tree(u, below)
      BY <1>7, <2>1, <2>2
    <3> QED
      BY <1>0, <1>6, <3>1, <3>2, OneIs
  <2>4. ASSUME NEW i \in DOMAIN below[u]
        PROVE  IsInjective(g[below[u][i]]) /\ u \notin Range(g[below[u][i]])
    <3>1. below[u][i] \in Widgets /\ below[u][i] > u
      BY <2>1
    <3>2. \A v \in Range(g[below[u][i]]) : v >= below[u][i] /\ v \in Widgets
      BY <1>7, <3>1, TreeHas DEF Tree
    <3>3. u \notin Range(g[below[u][i]])
      BY <3>1, <3>2, FocusAssumption
    <3> QED
      BY <1>7, <3>1, <3>3
  <2>5. ASSUME NEW i \in DOMAIN below[u], NEW j \in DOMAIN below[u], i # j
        PROVE  Range(g[below[u][i]]) \cap Range(g[below[u][j]]) = {}
    BY <1>7, <2>1, <2>5, TreesApart
  <2>6. IsInjective(One(g, u, below))
    BY <1>0, <1>6, <2>4, <2>5, OneIs
  <2> QED
    BY <1>6, <2>3, <2>6
<1>9. Fits(m)
  BY <1>8 DEF Fits
<1> QED
  BY <1>2, <1>9

\* What collect() of a root finds is listed once, in its tree, and stays found when the
\* trees grow.
LEMMA CollectedFits ==
  ASSUME NEW below, Forest(below), NEW root \in Widgets
  PROVE  /\ F!Collected(root, below) \in Seq(Widgets)
         /\ IsInjective(F!Collected(root, below))
         /\ Range(F!Collected(root, below)) \subseteq Tree(root, below)
<1>0. N \in Nat /\ below \in Childhood
  BY NumberOfWidgets DEF Forest
<1>1. PICK from : Levels(from, below) /\ F!Collected(root, below) = from[N][root]
  BY <1>0, CollectedIs
<1>2. N \in 0..N
  BY <1>0
<1>3. from[N][root] \in Seq(Widgets)
  BY <1>1, <1>2 DEF Levels, Childhood
<1> QED
  BY <1>1, <1>2, <1>3, LevelsInTree

LEMMA CollectedGrows ==
  ASSUME NEW below, NEW more, Forest(below), Forest(more), NEW root \in Widgets,
         \A w \in Widgets : \A i \in DOMAIN below[w] : i \in DOMAIN more[w] /\ more[w][i] = below[w][i]
  PROVE  Range(F!Collected(root, below)) \subseteq Range(F!Collected(root, more))
<1>0. N \in Nat /\ below \in Childhood /\ more \in Childhood
  BY NumberOfWidgets DEF Forest
<1>1. PICK from : Levels(from, below) /\ F!Collected(root, below) = from[N][root]
  BY <1>0, CollectedIs
<1>2. PICK wide : Levels(wide, more) /\ F!Collected(root, more) = wide[N][root]
  BY <1>0, CollectedIs
<1> DEFINE Fits(m) == \A u \in Widgets : Range(from[m][u]) \subseteq Range(wide[m][u])
           T == {m \in 0..N : ~ Fits(m)}
<1>3. T = {}
  <2> SUFFICES ASSUME T # {} PROVE FALSE
    OBVIOUS
  <2>1. PICK m \in T : \A k \in T : m <= k
    <3>1. T \subseteq Nat
      OBVIOUS
    <3> HIDE DEF T
    <3> QED
      BY <3>1, LeastNat
  <2>2. m \in 0..N /\ ~ Fits(m)
    OBVIOUS
  <2>3. m # 0
    <3>1. \A u \in Widgets : from[0][u] = <<>> /\ wide[0][u] = <<>>
      BY <1>1, <1>2 DEF Levels
    <3> QED
      BY <2>2, <3>1
  <2>4. m - 1 \in 0..N /\ m - 1 \notin T /\ m \in 1..N
    <3> HIDE DEF T
    <3> QED
      BY <1>0, <2>1, <2>2, <2>3
  <2>5. Fits(m - 1)
    BY <2>4
  <2>6. /\ from[m - 1] \in Childhood /\ wide[m - 1] \in Childhood
        /\ \A u \in Widgets :
             from[m][u] = One(from[m - 1], u, below) /\ wide[m][u] = One(wide[m - 1], u, more)
    BY <1>1, <1>2, <2>4 DEF Levels
  <2>7. ASSUME NEW u \in Widgets, NEW v \in Range(from[m][u]) PROVE v \in Range(wide[m][u])
    <3>1. CASE v = u /\ u \notin Skipped
      BY <1>0, <2>6, <3>1, OneIs
    <3>2. CASE ~ (v = u /\ u \notin Skipped)
      <4>1. PICK i \in DOMAIN below[u] : v \in Range(from[m - 1][below[u][i]])
        BY <1>0, <2>6, <2>7, <3>2, OneIs
      <4>2. i \in DOMAIN more[u] /\ more[u][i] = below[u][i] /\ below[u][i] \in Widgets
        BY <1>0 DEF Childhood
      <4>3. v \in Range(wide[m - 1][more[u][i]])
        BY <2>5, <4>1, <4>2
      <4>4. v \in Range(One(wide[m - 1], u, more))
        BY <1>0, <2>6, <4>2, <4>3, OneIs
      <4> QED
        BY <2>6, <4>4
    <3> QED
      BY <3>1, <3>2
  <2> QED
    BY <2>2, <2>7
<1>4. N \in 0..N
  BY <1>0
<1>5. Fits(N)
  BY <1>3, <1>4
<1> QED
  BY <1>1, <1>2, <1>5

LEMMA RangeSame == ASSUME NEW s PROVE F!Range(s) = Range(s) /\ (F!IsInjective(s) <=> IsInjective(s))
BY DEF F!Range, Range, F!IsInjective, IsInjective

Chains == [root : Roots, widgets : Seq(Widgets), current : Nat]

Found(root, below) == Range(F!Collected(root, below))

ChainOK(c, below) ==
  /\ c \in Chains
  /\ IsInjective(c.widgets) /\ Range(c.widgets) \subseteq Found(c.root, below)
  /\ c.widgets # <<>> => c.current < Len(c.widgets)

FocusInv ==
  /\ Forest(children)
  /\ ChainOK(chain, children)
  /\ forward \in Seq(Chains) /\ \A i \in 1..Len(forward) : ChainOK(forward[i], children)
  /\ backward \in Seq(Chains) /\ \A i \in 1..Len(backward) : ChainOK(backward[i], children)
  /\ calm => focused \subseteq {F!Current(chain)}
  /\ last.root \in Roots \cup {0}
  /\ last.widget # 0 => last.root \in Roots /\ last.widget \in Found(last.root, children)
  /\ last.root # 0 /\ last.widget = 0 => \E i \in 1..Len(forward) : forward[i].widgets = <<>>

LEMMA RebuiltFits ==
  ASSUME NEW below, NEW c, c.root \in Roots, c.current \in Nat, Forest(below)
  PROVE  ChainOK(F!Rebuilt(c, below), below) /\ F!Rebuilt(c, below).root = c.root
         /\ F!Rebuilt(c, below).widgets = F!Collected(c.root, below)
<1> DEFINE widgets == F!Collected(c.root, below)
           new == F!Rebuilt(c, below)
<1>1. c.root \in Widgets
  BY FocusAssumption
<1>2. widgets \in Seq(Widgets) /\ IsInjective(widgets)
  BY <1>1, CollectedFits
<1>3. new = [root |-> c.root, widgets |-> widgets, current |-> F!Clamped(c.current, widgets)]
  BY DEF F!Rebuilt
<1> HIDE DEF new, widgets
<1>4. F!Clamped(c.current, widgets) \in Nat /\ (widgets # <<>> => F!Clamped(c.current, widgets) < Len(widgets))
  BY <1>2 DEF F!Clamped
<1>5. new \in Chains
  BY <1>2, <1>3, <1>4 DEF Chains
<1> QED
  BY <1>2, <1>3, <1>4, <1>5 DEF ChainOK, Found, new, widgets

LEMMA NewChainFits ==
  ASSUME NEW root \in Roots, Forest(children)
  PROVE  ChainOK(F!NewChain(root), children) /\ F!NewChain(root).root = root
BY RebuiltFits DEF F!NewChain

LEMMA AfterFits ==
  ASSUME NEW below, NEW c, ChainOK(c, below)
  PROVE  /\ ChainOK(F!After(c), below) /\ F!After(c).root = c.root /\ F!After(c).widgets = c.widgets
         /\ ChainOK(F!Before(c), below) /\ F!Before(c).root = c.root /\ F!Before(c).widgets = c.widgets
         /\ c.widgets # <<>> => F!Before(F!After(c)) = c
<1>1. c \in Chains /\ c.widgets \in Seq(Widgets) /\ c.current \in Nat /\ Len(c.widgets) \in Nat
      /\ c = [root |-> c.root, widgets |-> c.widgets, current |-> c.current]
  BY DEF ChainOK, Chains
<1>2. CASE c.widgets = <<>>
  <2>1. F!After(c) = c /\ F!Before(c) = c
    BY <1>1, <1>2 DEF F!After, F!Before
  <2> QED
    BY <1>2, <2>1
<1>3. CASE c.widgets # <<>>
  <2> DEFINE n == Len(c.widgets)
             k == c.current
  <2>1. n \in Nat \ {0} /\ k \in Nat /\ k < n
    BY <1>1, <1>3, EmptySeq DEF ChainOK
  <2>2. (k + 1) % n = IF k + 1 = n THEN 0 ELSE k + 1
    BY <2>1
  <2>3. F!After(c) = [root |-> c.root, widgets |-> c.widgets, current |-> IF k + 1 = n THEN 0 ELSE k + 1]
    BY <1>1, <1>3, <2>2 DEF F!After
  <2>4. F!Before(c) = [root |-> c.root, widgets |-> c.widgets, current |-> IF k = 0 THEN n - 1 ELSE k - 1]
    BY <1>1, <1>3 DEF F!Before
  <2>5. F!After(c) \in Chains /\ F!Before(c) \in Chains
    BY <1>1, <2>1, <2>3, <2>4 DEF Chains
  <2>6. F!After(c).current < n /\ F!Before(c).current < n
    BY <2>1, <2>3, <2>4
  <2>7. ChainOK(F!After(c), below) /\ ChainOK(F!Before(c), below)
    BY <2>3, <2>4, <2>5, <2>6 DEF ChainOK
  <2>8. F!Before(F!After(c)) = c
    <3> DEFINE m == IF k + 1 = n THEN 0 ELSE k + 1
               d == [root |-> c.root, widgets |-> c.widgets, current |-> m]
    <3>1. F!Before(d) = [root |-> c.root, widgets |-> c.widgets, current |-> IF m = 0 THEN n - 1 ELSE m - 1]
      BY <1>3 DEF F!Before
    <3>2. (IF m = 0 THEN n - 1 ELSE m - 1) = k
      BY <2>1
    <3> QED
      BY <1>1, <2>3, <3>1, <3>2
  <2> QED
    BY <2>3, <2>4, <2>7, <2>8
<1> QED
  BY <1>2, <1>3

LEMMA CurrentFits ==
  ASSUME NEW below, NEW c, ChainOK(c, below)
  PROVE  IF c.widgets = <<>> THEN F!Current(c) = 0
         ELSE F!Current(c) \in Range(c.widgets) /\ F!Current(c) \in Widgets /\ F!Current(c) # 0
<1>1. CASE c.widgets = <<>>
  BY <1>1 DEF F!Current
<1>2. CASE c.widgets # <<>>
  <2>1. c.widgets \in Seq(Widgets) /\ c.current \in Nat /\ c.current < Len(c.widgets)
    BY <1>2 DEF ChainOK, Chains
  <2>2. c.current + 1 \in 1..Len(c.widgets) /\ F!Current(c) = c.widgets[c.current + 1]
    BY <1>2, <2>1 DEF F!Current
  <2>3. F!Current(c) \in Range(c.widgets) /\ F!Current(c) \in Widgets
    BY <2>1, <2>2 DEF Range
  <2> QED
    BY <1>2, <2>3, FocusAssumption
<1> QED
  BY <1>1, <1>2

LEMMA FocusStart == ASSUME Init PROVE FocusInv
<1>1. F!Init
  BY DEF Init
<1>2. Forest(children)
  <2>1. children = [w \in Widgets |-> <<>>]
    BY <1>1 DEF F!Init
  <2>2. children \in Childhood /\ \A w \in Widgets : DOMAIN children[w] = {}
    BY <2>1 DEF Childhood
  <2> QED
    BY <2>2 DEF Forest
<1>3. PICK r \in Roots : chain = F!NewChain(r)
  BY <1>1 DEF F!Init
<1>4. ChainOK(chain, children)
  BY <1>2, <1>3, NewChainFits
<1>5. /\ forward = <<>> /\ backward = <<>> /\ focused = {}
      /\ last = [root |-> 0, widget |-> 0]
  BY <1>1 DEF F!Init
<1> QED
  BY <1>2, <1>4, <1>5 DEF FocusInv

\* A chain that begins with the root of a tree is a chain of that tree.
LEMMA RootIsFirst ==
  ASSUME NEW c, ChainOK(c, children), Forest(children), NEW root \in Roots,
         c.widgets # <<>>, c.widgets[1] = root
  PROVE  c.root = root
<1>1. c.root \in Roots /\ c.root \in Widgets /\ c.widgets \in Seq(Widgets)
  BY FocusAssumption DEF ChainOK, Chains
<1>2. root \in Range(c.widgets)
  <2>1. 1 \in DOMAIN c.widgets
    BY <1>1
  <2> QED
    BY <2>1 DEF Range
<1>3. root \in Tree(c.root, children)
  BY <1>1, <1>2, CollectedFits DEF ChainOK, Found
<1>4. ASSUME NEW p \in Tree(c.root, children), NEW i \in DOMAIN children[p], children[p][i] = root PROVE FALSE
  BY <1>4 DEF Forest, Tree
<1> QED
  BY <1>1, <1>3, <1>4, TreeHas

\* What focus_next() moves on: the chain at k, or a new one.
Served(root, k) == IF k = 0 THEN F!NewChain(root) ELSE forward[k]

LEMMA FocusNextIs ==
  ASSUME forward \in Seq(Chains), F!FocusNext
  PROVE  \E root \in Roots, k \in 0..Len(forward) :
           /\ k # 0 => forward[k].widgets = <<>> \/ forward[k].widgets[1] = root
           /\ forward' = IF k = 0 THEN Append(forward, F!After(Served(root, k)))
                         ELSE [forward EXCEPT ![k] = F!After(Served(root, k))]
           /\ last' = [root |-> root, widget |-> F!Current(F!After(Served(root, k)))]
<1> DEFINE I(r) == {i \in 1..Len(forward) : forward[i].widgets = <<>> \/ forward[i].widgets[1] = r}
           place(r) == IF I(r) # {} THEN F!Min(I(r)) ELSE 0
<1>1. PICK root \in Roots :
        /\ forward' = IF place(root) = 0 THEN Append(forward, F!After(Served(root, place(root))))
                      ELSE [forward EXCEPT ![place(root)] = F!After(Served(root, place(root)))]
        /\ last' = [root |-> root, widget |-> F!Current(F!After(Served(root, place(root))))]
  BY Zenon DEF F!FocusNext, F!SelectInSeq, Served
<1> DEFINE J == I(root)
           k == place(root)
<1>2. J \subseteq 1..Len(forward) /\ 0 \in 0..Len(forward)
  BY LenProperties
<1>3. J # {} => F!Min(J) \in J
  <2> HIDE DEF J
  <2>1. J \subseteq Nat
    BY <1>2
  <2> QED
    BY <2>1, LeastNat DEF F!Min
<1>4. k \in 0..Len(forward) /\ (k # 0 => k \in J)
  <2> HIDE DEF I
  <2> QED
    BY <1>2, <1>3
<1>5. k # 0 => forward[k].widgets = <<>> \/ forward[k].widgets[1] = root
  BY <1>4
<1> QED
  BY <1>1, <1>4, <1>5, Zenon

LEMMA UniqueParent ==
  ASSUME NEW below, Forest(below), NEW p \in Widgets, NEW q \in Widgets,
         NEW i \in DOMAIN below[p], NEW j \in DOMAIN below[q], below[p][i] = below[q][j]
  PROVE  p = q /\ i = j
BY DEF Forest

LEMMA FocusStep == ASSUME FocusInv, F!Next PROVE FocusInv'
<1> USE DEF FocusInv
<1>1. CASE F!AddChild
  <2>1. PICK parent \in Widgets, child \in Widgets \ Roots :
          /\ \A w \in Widgets : ~ F!Contains(children[w], child)
          /\ child > parent
          /\ children' = [children EXCEPT ![parent] = Append(@, child)]
    BY <1>1 DEF F!AddChild
  <2>2. UNCHANGED <<chain, forward, backward, focused, scopes, calm, last>>
    BY <1>1 DEF F!AddChild
  <2>3. children \in Childhood /\ children[parent] \in Seq(Widgets) /\ Len(children[parent]) \in Nat
    BY DEF Forest, Childhood
  <2>4. /\ children' \in Childhood
        /\ \A w \in Widgets \ {parent} : children'[w] = children[w]
        /\ DOMAIN children'[parent] = DOMAIN children[parent] \cup {Len(children[parent]) + 1}
        /\ Len(children[parent]) + 1 \notin DOMAIN children[parent]
        /\ \A i \in DOMAIN children[parent] : children'[parent][i] = children[parent][i]
        /\ children'[parent][Len(children[parent]) + 1] = child
    <3>1. children'[parent] = Append(children[parent], child)
      BY <2>1, <2>3 DEF Childhood
    <3>2. Append(children[parent], child) \in Seq(Widgets)
      BY <2>3, AppendProperties
    <3>3. children' \in Childhood
      BY <2>1, <2>3, <3>2 DEF Childhood
    <3>4. DOMAIN children[parent] = 1..Len(children[parent])
          /\ DOMAIN Append(children[parent], child) = 1..Len(children[parent]) + 1
      BY <2>3, <3>2, AppendProperties
    <3>5. \A w \in Widgets \ {parent} : children'[w] = children[w]
      BY <2>1, <2>3 DEF Childhood
    <3>6. 1..Len(children[parent]) + 1 = (1..Len(children[parent])) \cup {Len(children[parent]) + 1}
      BY <2>3
    <3>7. Len(children[parent]) + 1 \notin 1..Len(children[parent])
      BY <2>3
    <3> QED
      BY <2>3, <3>1, <3>3, <3>4, <3>5, <3>6, <3>7, AppendProperties
  <2>5. \A w \in Widgets : \A i \in DOMAIN children[w] : children[w][i] # child
    <3>1. \A w \in Widgets : children[w] \in Seq(Widgets) /\ DOMAIN children[w] = 1..Len(children[w])
      BY <2>3 DEF Childhood
    <3> QED
      BY <2>1, <3>1 DEF F!Contains
  <2>6. Forest(children')
    <3>1. \A p \in Widgets : \A i \in DOMAIN children'[p] : children'[p][i] > p /\ children'[p][i] \notin Roots
      BY <2>1, <2>4 DEF Forest
    <3>2. \A p, q \in Widgets : \A i \in DOMAIN children'[p], j \in DOMAIN children'[q] :
            children'[p][i] = children'[q][j] => p = q /\ i = j
      <4> SUFFICES ASSUME NEW p \in Widgets, NEW q \in Widgets,
                          NEW i \in DOMAIN children'[p], NEW j \in DOMAIN children'[q],
                          children'[p][i] = children'[q][j]
                   PROVE  p = q /\ i = j
        OBVIOUS
      <4> DEFINE Fresh(w, k) == w = parent /\ k = Len(children[parent]) + 1
      <4>1. \A w \in Widgets : \A k \in DOMAIN children'[w] :
              Fresh(w, k) \/ (k \in DOMAIN children[w] /\ children'[w][k] = children[w][k])
        BY <2>4
      <4>2. CASE Fresh(p, i) /\ Fresh(q, j)
        BY <4>2
      <4>3. CASE Fresh(p, i) /\ ~ Fresh(q, j)
        BY <2>4, <2>5, <4>1, <4>3
      <4>4. CASE ~ Fresh(p, i) /\ Fresh(q, j)
        BY <2>4, <2>5, <4>1, <4>4
      <4>5. CASE ~ Fresh(p, i) /\ ~ Fresh(q, j)
        <5>1. /\ i \in DOMAIN children[p] /\ children'[p][i] = children[p][i]
              /\ j \in DOMAIN children[q] /\ children'[q][j] = children[q][j]
          BY <4>1, <4>5
        <5>2. Forest(children) /\ children[p][i] = children[q][j]
          BY <5>1
        <5> HIDE DEF FocusInv
        <5> QED
          BY <5>1, <5>2, UniqueParent
      <4> QED
        BY <4>2, <4>3, <4>4, <4>5
    <3> QED
      BY <2>4, <3>1, <3>2 DEF Forest
  <2>7. \A root \in Roots : Found(root, children) \subseteq Found(root, children')
    <3>1. \A w \in Widgets : \A i \in DOMAIN children[w] :
            i \in DOMAIN children'[w] /\ children'[w][i] = children[w][i]
      BY <2>4
    <3> QED
      BY <2>6, <3>1, CollectedGrows, FocusAssumption DEF Found
  <2>8. \A c : ChainOK(c, children) => ChainOK(c, children')
    BY <2>7 DEF ChainOK, Chains
  <2>9. last.widget # 0 => last.root \in Roots /\ last.widget \in Found(last.root, children')
    BY <2>7
  <2> QED
    BY <2>2, <2>6, <2>8, <2>9
<1>2. CASE F!Rebuild \/ F!SetRoot
  <2>1. PICK r \in Roots : chain' = F!Rebuilt([chain EXCEPT !.root = r], children)
    <3>1. chain.root \in Roots /\ chain = [chain EXCEPT !.root = chain.root]
      BY DEF ChainOK, Chains
    <3> QED
      BY <1>2, <3>1 DEF F!Rebuild, F!SetRoot
  <2>2. UNCHANGED <<children, forward, backward, focused, last>>
        /\ (calm' => calm /\ F!Current(chain') = F!Current(chain))
    BY <1>2 DEF F!Rebuild, F!SetRoot
  <2>3. [chain EXCEPT !.root = r].root \in Roots /\ [chain EXCEPT !.root = r].current \in Nat
    BY DEF ChainOK, Chains
  <2>4. ChainOK(chain', children)
    BY <2>1, <2>3, RebuiltFits
  <2>5. calm' => focused' \subseteq {F!Current(chain')}
    BY <2>2
  <2> QED
    BY <2>2, <2>4, <2>5 DEF F!Current
<1>3. CASE F!Move
  <2>1. chain' \in {F!After(chain), F!Before(chain)} /\ focused' = F!FocusAfter(chain, chain')
        /\ UNCHANGED <<children, forward, backward, calm, last>>
    BY <1>3 DEF F!Move
  <2>2. ChainOK(chain', children)
    BY <2>1, AfterFits
  <2>3. calm' => focused' \subseteq {F!Current(chain')}
    BY <2>1 DEF F!FocusAfter
  <2> QED
    BY <2>1, <2>2, <2>3 DEF F!Current
<1>4. CASE F!FocusNext
  <2>1. PICK root \in Roots, k \in 0..Len(forward) :
          /\ k # 0 => forward[k].widgets = <<>> \/ forward[k].widgets[1] = root
          /\ forward' = IF k = 0 THEN Append(forward, F!After(Served(root, k)))
                        ELSE [forward EXCEPT ![k] = F!After(Served(root, k))]
          /\ last' = [root |-> root, widget |-> F!Current(F!After(Served(root, k)))]
    BY <1>4, FocusNextIs
  <2> DEFINE from == Served(root, k)
             next == F!After(from)
  <2>3. /\ forward' = IF k = 0 THEN Append(forward, next) ELSE [forward EXCEPT ![k] = next]
        /\ last' = [root |-> root, widget |-> F!Current(next)]
    BY <2>1
  <2>4. UNCHANGED <<children, chain, backward>> /\ calm' = FALSE
    BY <1>4 DEF F!FocusNext
  <2>5. /\ k = 0 => from = F!NewChain(root)
        /\ k # 0 => k \in 1..Len(forward) /\ from = forward[k]
    BY DEF Served
  <2>6. ChainOK(from, children)
    BY <2>5, NewChainFits
  <2>7. from.widgets = <<>> \/ from.root = root
    <3>1. CASE k = 0
      BY <2>5, <3>1, NewChainFits
    <3>2. CASE k # 0
      BY <2>1, <2>5, <2>6, <3>2, RootIsFirst
    <3> QED
      BY <3>1, <3>2
  <2> HIDE DEF from, next
  <2>8. ChainOK(next, children) /\ next.root = from.root /\ next.widgets = from.widgets
    BY <2>6, AfterFits DEF next
  <2>9. next \in Chains
    BY <2>8 DEF ChainOK
  <2>10. /\ forward' \in Seq(Chains) /\ \A i \in 1..Len(forward') : ChainOK(forward'[i], children)
         /\ \E i \in 1..Len(forward') : forward'[i].widgets = next.widgets
         /\ \A i \in 1..Len(forward) : i \in 1..Len(forward') /\ forward'[i].widgets = forward[i].widgets
    <3>1. CASE k = 0
      <4>1. forward' = Append(forward, next) /\ Len(forward) \in Nat
        BY <2>3, <3>1
      <4>2. /\ forward' \in Seq(Chains) /\ Len(forward') = Len(forward) + 1
            /\ forward'[Len(forward) + 1] = next
            /\ \A i \in 1..Len(forward) : forward'[i] = forward[i]
        BY <2>9, <4>1, AppendProperties
      <4>3. Len(forward) + 1 \in 1..Len(forward')
            /\ \A i \in 1..Len(forward') : i = Len(forward) + 1 \/ i \in 1..Len(forward)
        BY <4>1, <4>2
      <4>4. \A i \in 1..Len(forward') : ChainOK(forward'[i], children)
        BY <2>8, <4>2, <4>3
      <4>5. \A i \in 1..Len(forward) : i \in 1..Len(forward')
        BY <4>1, <4>2
      <4> QED
        BY <4>2, <4>3, <4>4, <4>5
    <3>2. CASE k # 0
      <4>1. k \in 1..Len(forward) /\ from = forward[k]
        BY <2>5, <3>2
      <4>2. /\ forward' \in Seq(Chains) /\ Len(forward') = Len(forward)
            /\ \A i \in 1..Len(forward) : forward'[i] = IF i = k THEN next ELSE forward[i]
        <5>1. forward' = [forward EXCEPT ![k] = next] /\ forward \in Seq(Chains)
          BY <2>3, <3>2
        <5> HIDE DEF FocusInv
        <5> QED
          BY <2>9, <4>1, <5>1, ExceptSeq
      <4>3. \A i \in 1..Len(forward') : ChainOK(forward'[i], children)
        BY <2>8, <4>2
      <4> QED
        BY <2>8, <4>1, <4>2, <4>3
    <3> QED
      BY <3>1, <3>2
  <2>11. last'.root = root /\ root # 0 /\ last'.widget = F!Current(next)
    <3>1. last'.root = root /\ last'.widget = F!Current(next)
      BY <2>3
    <3>2. root # 0
      BY FocusAssumption
    <3> QED
      BY <3>1, <3>2
  <2>12. last'.widget # 0 => last'.root \in Roots /\ last'.widget \in Found(last'.root, children)
    <3>1. next.widgets # <<>> => next.root = root /\ F!Current(next) \in Range(next.widgets)
      BY <2>7, <2>8, CurrentFits
    <3>2. next.widgets = <<>> => F!Current(next) = 0
      BY <2>8, CurrentFits
    <3> QED
      BY <2>8, <2>11, <3>1, <3>2 DEF ChainOK
  <2>13. last'.widget = 0 => \E i \in 1..Len(forward') : forward'[i].widgets = <<>>
    <3>1. next.widgets # <<>> => F!Current(next) # 0
      BY <2>8, CurrentFits
    <3> QED
      BY <2>10, <2>11, <3>1
  <2> QED
    BY <2>4, <2>10, <2>11, <2>12, <2>13
<1>5. CASE F!FocusPrev
  <2>1. PICK root \in Roots : backward' = <<F!Before(IF backward = <<>> THEN F!NewChain(root) ELSE backward[1])>>
    BY <1>5 DEF F!FocusPrev
  <2>2. UNCHANGED <<children, chain, forward, last>> /\ calm' = FALSE
    BY <1>5 DEF F!FocusPrev
  <2> DEFINE from == IF backward = <<>> THEN F!NewChain(root) ELSE backward[1]
  <2>3. ChainOK(from, children)
    <3>1. backward # <<>> => 1 \in 1..Len(backward)
      BY EmptySeq
    <3> QED
      BY <3>1, NewChainFits
  <2> HIDE DEF from
  <2>4. ChainOK(F!Before(from), children)
    BY <2>3, AfterFits
  <2>5. F!Before(from) \in Chains /\ backward' = <<F!Before(from)>>
    BY <2>1, <2>4 DEF ChainOK, from
  <2> HIDE DEF FocusInv
  <2>6. backward' \in Seq(Chains) /\ \A i \in 1..Len(backward') : ChainOK(backward'[i], children)
    BY <2>4, <2>5
  <2> QED
    BY <2>2, <2>6 DEF FocusInv
<1>6. CASE F!EnterScope \/ F!LeaveScope
  <2>1. UNCHANGED <<children, chain, forward, backward, focused, calm, last>>
    BY <1>6 DEF F!EnterScope, F!LeaveScope
  <2> QED
    BY <2>1
<1> QED
  BY <1>1, <1>2, <1>3, <1>4, <1>5, <1>6 DEF F!Next

LEMMA FocusHolds == ASSUME FocusInv PROVE F!FocusExact
<1> USE DEF FocusInv
<1>1. \A root : F!InTree(root) = Found(root, children)
  BY RangeSame DEF F!InTree, Found
<1>2. ASSUME NEW c \in {chain} \cup F!Range(forward) \cup F!Range(backward)
      PROVE  /\ c.widgets # <<>> => c.current < Len(c.widgets) /\ F!Before(F!After(c)) = c
             /\ F!IsInjective(c.widgets) /\ F!Range(c.widgets) \subseteq F!InTree(c.root)
  <2>1. ChainOK(c, children)
    BY <1>2 DEF F!Range
  <2> QED
    <3> HIDE DEF FocusInv
    <3>1. c.widgets # <<>> => c.current < Len(c.widgets) /\ F!Before(F!After(c)) = c
      BY <2>1, AfterFits DEF ChainOK
    <3>2. F!IsInjective(c.widgets)
      BY <2>1, RangeSame DEF ChainOK
    <3>3. F!Range(c.widgets) \subseteq F!InTree(c.root)
      BY <1>1, <2>1, RangeSame DEF ChainOK
    <3> QED
      BY <3>1, <3>2, <3>3
<1>3. last.widget # 0 => last.widget \in F!InTree(last.root)
  BY <1>1
<1>4. last.root # 0 /\ last.widget = 0 => \E i \in DOMAIN forward : forward[i].widgets = <<>>
  OBVIOUS
<1> QED
  BY <1>2, <1>3, <1>4 DEF F!FocusExact

LEMMA ViewsCardinality == ASSUME NEW S PROVE V!Cardinality(S) = Cardinality(S)
BY DEF V!Cardinality, Cardinality

\* The chosen tab stays at the place that is remembered.
TabInv ==
  /\ tabs \in Seq(Tabs) /\ selectedTab \in Nat
  /\ chosenTab # "none" => selectedTab + 1 \in 1..Len(tabs) /\ tabs[selectedTab + 1] = chosenTab

\* A text has a line; the pager begins at one or behind all.
PagerInv == lines \in 1..Rows /\ offset \in 0..lines

ListInv == row \in Nat /\ rows \in Nat /\ (rowKnown => row = 0 \/ row < rows)

\* What Single promises holds as long as the policy is in force.
TreeInv == single => policy = "single" /\ (expanded = {} \/ \E p \in Paths : expanded = {p})

BarInv == total \in Nat /\ value \in Nat /\ (~ raised => value <= total)

InputInv == ~ masked => Accepts(mask, input)

\* Each task has an entry of its own, which holds what it advanced.
TaskInv ==
  /\ progress \in Seq(Nat)
  /\ tasks \subseteq [entry : 1..Len(progress), within : Nat, done : Nat]
  /\ reserved \in Nat
  /\ \A t \in tasks : progress[t.entry] = t.done
  /\ \A t, u \in tasks : t.entry = u.entry => t = u

LEMMA TabStep == ASSUME TabInv, V!TabNext PROVE TabInv'
<1>1. CASE V!AddTab
  BY <1>1 DEF TabInv, V!AddTab
<1>2. CASE V!SelectTab
  BY <1>2 DEF TabInv, V!SelectTab, V!SelectedAt
<1>3. CASE V!CloseTab
  <2>1. PICK i \in DOMAIN tabs :
          /\ tabs' = SubSeq(tabs, 1, i - 1) \o SubSeq(tabs, i + 1, Len(tabs))
          /\ chosenTab' = IF i <= selectedTab + 1 THEN "none" ELSE chosenTab
    BY <1>3 DEF V!CloseTab
  <2>2. i \in 1..Len(tabs) /\ Len(tabs) \in Nat
    BY DEF TabInv
  <2>3. /\ SubSeq(tabs, 1, i - 1) \in Seq(Tabs) /\ Len(SubSeq(tabs, 1, i - 1)) = i - 1
        /\ SubSeq(tabs, i + 1, Len(tabs)) \in Seq(Tabs)
        /\ \A k \in 1..i - 1 : SubSeq(tabs, 1, i - 1)[k] = tabs[k]
    BY <2>2 DEF TabInv
  <2>4. tabs' \in Seq(Tabs) /\ Len(tabs') >= i - 1 /\ \A k \in 1..i - 1 : tabs'[k] = tabs[k]
    BY <2>1, <2>2, <2>3, ConcatProperties
  <2>5. selectedTab' = selectedTab /\ selectedTab \in Nat
    BY <1>3 DEF V!CloseTab, TabInv
  <2> QED BY <2>1, <2>2, <2>4, <2>5 DEF TabInv
<1> QED BY <1>1, <1>2, <1>3 DEF V!TabNext

LEMMA PagerStep == ASSUME PagerInv, V!PagerNext PROVE PagerInv'
<1>0. Rows \in Nat \ {0}
  BY ViewsAssumption
<1>1. CASE V!SetSource
  BY <1>0, <1>1 DEF PagerInv, V!SetSource, V!OffsetAfter
<1>2. CASE V!Scroll
  BY <1>0, <1>2 DEF PagerInv, V!Scroll, V!ScrollTo
<1> QED BY <1>1, <1>2 DEF V!PagerNext

LEMMA ListStep == ASSUME ListInv, V!ListNext PROVE ListInv'
<1>0. Rows \in Nat
  BY ViewsAssumption
<1>1. CASE V!SetModel \/ V!ModelChanges
  BY <1>0, <1>1 DEF ListInv, V!SetModel, V!ModelChanges
<1>2. CASE V!SelectRow
  <2>1. row' \in 0..Rows /\ rows' = rows /\ (rowKnown' => row' = 0 \/ row' < rows)
    BY <1>2, Zenon DEF V!SelectRow
  <2> QED BY <1>0, <2>1 DEF ListInv
<1>3. CASE V!Toggle
  BY <1>3 DEF ListInv, V!Toggle
<1> QED BY <1>1, <1>2, <1>3 DEF V!ListNext

LEMMA TreeStep == ASSUME TreeInv, V!TreeNext PROVE TreeInv'
<1>1. CASE V!SetPolicy
  BY <1>1 DEF TreeInv, V!SetPolicy
<1>2. CASE V!Expand
  BY <1>2 DEF TreeInv, V!Expand, V!Others
<1>3. CASE V!Collapse
  BY <1>3 DEF TreeInv, V!Collapse
<1> QED BY <1>1, <1>2, <1>3 DEF V!TreeNext

LEMMA BarStep == ASSUME BarInv, V!BarNext PROVE BarInv'
<1>0. Amounts \subseteq Int /\ Totals \subseteq Int
  BY ViewsAssumption
<1>1. CASE V!SetTotal
  BY <1>0, <1>1 DEF BarInv, V!SetTotal
<1>2. CASE V!SetValue
  BY <1>0, <1>2 DEF BarInv, V!SetValue, V!Clamp
<1> QED BY <1>1, <1>2 DEF V!BarNext

LEMMA InputStep == ASSUME InputInv, V!InputNext PROVE InputInv'
BY DEF InputInv, V!InputNext, V!SetText, V!SetMask

LEMMA TaskStep == ASSUME TaskInv, V!TaskNext PROVE TaskInv'
<1>0. Len(progress) \in Nat
  BY DEF TaskInv
<1>1. CASE V!AddTask
  <2>1. /\ progress' = Append(progress, 0) /\ reserved' \in Nat
        /\ tasks' = tasks \cup {[entry |-> Len(progress'), within |-> reserved', done |-> 0]}
    BY <1>1 DEF V!AddTask, TaskInv
  <2>2. /\ Len(progress') = Len(progress) + 1 /\ progress' \in Seq(Nat)
        /\ \A i \in 1..Len(progress) : progress'[i] = progress[i]
        /\ progress'[Len(progress')] = 0
    BY <1>0, <2>1 DEF TaskInv
  <2> QED BY <1>0, <2>1, <2>2 DEF TaskInv
<1>2. CASE V!Advance
  <2>1. PICK t \in tasks :
          /\ progress' = [progress EXCEPT ![t.entry] = @ + 1]
          /\ tasks' = (tasks \ {t}) \cup {[t EXCEPT !.done = @ + 1]}
    BY <1>2 DEF V!Advance
  <2>2. /\ t \in [entry : 1..Len(progress), within : Nat, done : Nat]
        /\ [t EXCEPT !.done = @ + 1] \in [entry : 1..Len(progress), within : Nat, done : Nat]
        /\ [t EXCEPT !.done = @ + 1].entry = t.entry /\ [t EXCEPT !.done = @ + 1].done = t.done + 1
    BY <2>1 DEF TaskInv
  <2>3. /\ progress' \in Seq(Nat) /\ Len(progress') = Len(progress)
        /\ progress'[t.entry] = t.done + 1
        /\ \A i \in 1..Len(progress) : i # t.entry => progress'[i] = progress[i]
    BY <2>1, <2>2 DEF TaskInv
  <2>4. \A u \in tasks \ {t} : u.entry # t.entry /\ u.entry \in 1..Len(progress)
    BY <2>1 DEF TaskInv
  <2>5. reserved' = reserved
    BY <1>2 DEF V!Advance
  <2>6. tasks' \subseteq [entry : 1..Len(progress'), within : Nat, done : Nat]
    BY <2>1, <2>2, <2>3 DEF TaskInv
  <2>7. \A u \in tasks' : progress'[u.entry] = u.done
    BY <2>1, <2>2, <2>3, <2>4 DEF TaskInv
  <2>8. \A u, w \in tasks' : u.entry = w.entry => u = w
    BY <2>1, <2>2, <2>4 DEF TaskInv
  <2> QED BY <2>3, <2>5, <2>6, <2>7, <2>8 DEF TaskInv
<1> QED BY <1>1, <1>2 DEF V!TaskNext

ViewsInv ==
  TabInv /\ PagerInv /\ ListInv /\ TreeInv /\ BarInv /\ InputInv /\ TaskInv

LEMMA ViewsStart == ASSUME Init PROVE ViewsInv
<1>1. V!Init /\ Rows \in Nat \ {0}
  BY ViewsAssumption DEF Init
<1>2. TabInv /\ PagerInv /\ ListInv /\ TreeInv /\ BarInv /\ TaskInv
  BY <1>1 DEF V!Init, TabInv, PagerInv, ListInv, TreeInv, BarInv, TaskInv
<1>3. InputInv
  BY <1>1 DEF V!Init, InputInv, Accepts
<1> QED BY <1>2, <1>3 DEF ViewsInv

LEMMA ViewsHold == ASSUME ViewsInv PROVE V!ViewsExact
<1>0. Rows \in Nat \ {0} /\ Height \in Nat \ {0} /\ Width \in Nat
  BY ViewsAssumption
<1>1. chosenTab # "none" => tabs[selectedTab + 1] = chosenTab
  BY DEF ViewsInv, TabInv
<1>2. offset <= lines /\ (V!Painted = {} => offset = lines)
  <2>1. lines \in 1..Rows /\ offset \in 0..lines
    BY DEF ViewsInv, PagerInv
  <2>2. offset # lines => offset \in V!Painted
    BY <1>0, <2>1 DEF V!Painted
  <2> QED BY <2>1, <2>2
<1>3. V!Fraction <= Rows
  <2>1. lines \in Nat \ {0} /\ offset \in Nat /\ offset <= lines
    BY <1>0 DEF ViewsInv, PagerInv
  <2> QED BY <1>0, <2>1, DivisionBelow DEF V!Fraction
<1>4. single => V!Cardinality(expanded) <= 1
  <2>1. ASSUME expanded = {} PROVE V!Cardinality(expanded) <= 1
    BY <2>1, ViewsCardinality, FS_EmptySet
  <2>2. ASSUME NEW p, expanded = {p} PROVE V!Cardinality(expanded) <= 1
    <3>1. Cardinality({p}) = 1
      BY FS_Singleton, Zenon
    <3> QED BY <2>2, <3>1, ViewsCardinality
  <2> QED BY <2>1, <2>2 DEF ViewsInv, TreeInv
<1>5. ~ raised => V!Filled \in 0..Width
  <2>1. ASSUME total = 0 PROVE V!Filled \in 0..Width
    BY <1>0, <2>1 DEF V!Filled
  <2>2. ASSUME total # 0, ~ raised PROVE V!Filled \in 0..Width
    BY <1>0, <2>2, DivisionBelow DEF V!Filled, ViewsInv, BarInv
  <2> QED BY <2>1, <2>2
<1>6. rowKnown => row = 0 \/ row < rows
  BY DEF ViewsInv, ListInv
<1>7. ~ masked => Accepts(mask, input)
  BY DEF ViewsInv, InputInv
<1>8. \A t \in tasks : progress[t.entry] = t.done
  BY DEF ViewsInv, TaskInv
<1> QED BY <1>1, <1>2, <1>3, <1>4, <1>5, <1>6, <1>7, <1>8 DEF V!ViewsExact

LEMMA ViewsStep == ASSUME ViewsInv, [Next]_vars PROVE ViewsInv'
<1> USE DEF ViewsInv
<1>0. \/ UNCHANGED viewVars
      \/ V!TabNext \/ V!PagerNext \/ V!ListNext \/ V!TreeNext \/ V!BarNext \/ V!InputNext \/ V!TaskNext
  BY DEF Next, vars, Grow
<1>t. TabInv /\ UNCHANGED V!tabVars => TabInv'
  BY DEF TabInv, V!tabVars
<1>p. PagerInv /\ UNCHANGED V!pagerVars => PagerInv'
  BY DEF PagerInv, V!pagerVars
<1>l. ListInv /\ UNCHANGED V!listVars => ListInv'
  BY DEF ListInv, V!listVars
<1>e. TreeInv /\ UNCHANGED V!treeVars => TreeInv'
  BY DEF TreeInv, V!treeVars
<1>b. BarInv /\ UNCHANGED V!barVars => BarInv'
  BY DEF BarInv, V!barVars
<1>i. InputInv /\ UNCHANGED V!inputVars => InputInv'
  BY DEF InputInv, V!inputVars
<1>k. TaskInv /\ UNCHANGED V!taskVars => TaskInv'
  BY DEF TaskInv, V!taskVars
<1> USE <1>t, <1>p, <1>l, <1>e, <1>b, <1>i, <1>k
<1>1. CASE V!TabNext
  <2>1. /\ UNCHANGED V!pagerVars /\ UNCHANGED V!listVars /\ UNCHANGED V!treeVars
        /\ UNCHANGED V!barVars /\ UNCHANGED V!inputVars /\ UNCHANGED V!taskVars
    BY <1>1 DEF V!TabNext, V!AddTab, V!CloseTab, V!SelectTab
  <2> QED BY <1>1, <2>1, TabStep
<1>2. CASE V!PagerNext
  <2>1. /\ UNCHANGED V!tabVars /\ UNCHANGED V!listVars /\ UNCHANGED V!treeVars
        /\ UNCHANGED V!barVars /\ UNCHANGED V!inputVars /\ UNCHANGED V!taskVars
    BY <1>2 DEF V!PagerNext, V!SetSource, V!Scroll
  <2> QED BY <1>2, <2>1, PagerStep
<1>3. CASE V!ListNext
  <2>1. /\ UNCHANGED V!tabVars /\ UNCHANGED V!pagerVars /\ UNCHANGED V!treeVars
        /\ UNCHANGED V!barVars /\ UNCHANGED V!inputVars /\ UNCHANGED V!taskVars
    BY <1>3 DEF V!ListNext, V!SetModel, V!ModelChanges, V!SelectRow, V!Toggle
  <2> QED BY <1>3, <2>1, ListStep
<1>4. CASE V!TreeNext
  <2>1. /\ UNCHANGED V!tabVars /\ UNCHANGED V!pagerVars /\ UNCHANGED V!listVars
        /\ UNCHANGED V!barVars /\ UNCHANGED V!inputVars /\ UNCHANGED V!taskVars
    BY <1>4 DEF V!TreeNext, V!SetPolicy, V!Expand, V!Collapse
  <2> QED BY <1>4, <2>1, TreeStep
<1>5. CASE V!BarNext
  <2>1. /\ UNCHANGED V!tabVars /\ UNCHANGED V!pagerVars /\ UNCHANGED V!listVars
        /\ UNCHANGED V!treeVars /\ UNCHANGED V!inputVars /\ UNCHANGED V!taskVars
    BY <1>5 DEF V!BarNext, V!SetTotal, V!SetValue
  <2> QED BY <1>5, <2>1, BarStep
<1>6. CASE V!InputNext
  <2>1. /\ UNCHANGED V!tabVars /\ UNCHANGED V!pagerVars /\ UNCHANGED V!listVars
        /\ UNCHANGED V!treeVars /\ UNCHANGED V!barVars /\ UNCHANGED V!taskVars
    BY <1>6 DEF V!InputNext, V!SetText, V!SetMask
  <2> QED BY <1>6, <2>1, InputStep
<1>7. CASE V!TaskNext
  <2>1. /\ UNCHANGED V!tabVars /\ UNCHANGED V!pagerVars /\ UNCHANGED V!listVars
        /\ UNCHANGED V!treeVars /\ UNCHANGED V!barVars /\ UNCHANGED V!inputVars
    BY <1>7 DEF V!TaskNext, V!AddTask, V!Advance
  <2> QED BY <1>7, <2>1, TaskStep
<1>8. CASE UNCHANGED viewVars
  <2>1. /\ UNCHANGED V!tabVars /\ UNCHANGED V!pagerVars /\ UNCHANGED V!listVars
        /\ UNCHANGED V!treeVars /\ UNCHANGED V!barVars /\ UNCHANGED V!inputVars /\ UNCHANGED V!taskVars
    BY <1>8 DEF viewVars, V!tabVars, V!pagerVars, V!listVars, V!treeVars, V!barVars, V!inputVars, V!taskVars
  <2> QED BY <2>1
<1> QED BY <1>0, <1>1, <1>2, <1>3, <1>4, <1>5, <1>6, <1>7, <1>8

-----------------------------------------------------------------------------

\* What a box is given are numbers.
LayoutInv == part = "layout" => given \in Seq(Int)

LEMMA LayoutStart == ASSUME Init PROVE LayoutInv
<1>1. CASE \E r \in Readers : part = r.part /\ given = r.from
  BY <1>1, LayoutAssumption DEF LayoutInv
<1>2. CASE ~ \E r \in Readers : part = r.part /\ given = r.from
  <2>1. part \in {"history", "edit", "read", "rings", "record", "focus",
                  "tabs", "pager", "list", "tree", "bar", "input", "tasks"}
    BY <1>2 DEF Init
  <2> QED
    BY <2>1 DEF LayoutInv
<1> QED
  BY <1>1, <1>2

LEMMA LayoutStep == ASSUME LayoutInv, [Next]_vars PROVE LayoutInv'
<1>1. CASE Grow
  <2>1. PICK r \in Readers : part = r.part /\ \E c \in r.with : given' = Append(given, c)
    BY <1>1 DEF Grow
  <2>2. part' = part
    BY <1>1 DEF Grow
  <2> SUFFICES ASSUME part = "layout" PROVE given' \in Seq(Int)
    BY <2>2 DEF LayoutInv
  <2>3. given \in Seq(Int) /\ r.with \subseteq Int
    BY <2>1, LayoutAssumption DEF LayoutInv
  <2> QED
    BY <2>1, <2>3, AppendProperties
<1>2. CASE ~ Grow
  BY <1>2 DEF Next, vars, LayoutInv
<1> QED
  BY <1>1, <1>2

WidgetsInv == LayoutInv /\ FocusInv /\ ViewsInv

LEMMA FocusMoves == ASSUME FocusInv, [Next]_vars PROVE FocusInv'
<1>1. F!Next \/ UNCHANGED focusVars
  BY DEF Next, vars, Grow
<1>2. CASE UNCHANGED focusVars
  BY <1>2 DEF focusVars, FocusInv, F!Current
<1> QED
  BY <1>1, <1>2, FocusStep

LEMMA WidgetsKept == Spec => []WidgetsInv
<1>1. Init => WidgetsInv
  BY LayoutStart, FocusStart, ViewsStart DEF WidgetsInv
<1>2. WidgetsInv /\ [Next]_vars => WidgetsInv'
  BY LayoutStep, FocusMoves, ViewsStep DEF WidgetsInv
<1> QED
  BY <1>1, <1>2, PTL DEF Spec

LEMMA WidgetsHold == WidgetsInv => WidgetsExact
<1> SUFFICES ASSUME WidgetsInv PROVE WidgetsExact
  OBVIOUS
<1>1. F!FocusExact /\ V!ViewsExact
  BY FocusHolds, ViewsHold DEF WidgetsInv
<1>2. ASSUME part = "layout", Len(given) = 4
      PROVE  LayoutTiles([x |-> given[1], y |-> 1, width |-> given[2], height |-> given[3]],
                           IF given[4] < 1 THEN 1 ELSE given[4])
  <2>1. given \in Seq(Int)
    BY <1>2 DEF WidgetsInv, LayoutInv
  <2>2. given[1] \in Int /\ given[2] \in Int /\ given[3] \in Int /\ given[4] \in Int
    BY <1>2, <2>1
  <2>3. [x |-> given[1], y |-> 1, width |-> given[2], height |-> given[3]] \in Rect
        /\ (IF given[4] < 1 THEN 1 ELSE given[4]) \in Nat \ {0}
    BY <2>2 DEF Rect
  <2> QED
    BY <2>3, BoxesTile
<1> QED
  BY <1>1, <1>2 DEF WidgetsExact

\* Focus, views and boxes are exact, for any widgets, models and sizes.
THEOREM WidgetsAreExact == Spec => []WidgetsExact
BY WidgetsKept, WidgetsHold, PTL

-----------------------------------------------------------------------------
(* The history.  A text is merged into what is kept in one step; Merged is the *)
(* whole, for a policy m that does not change with the state.                 *)

Doubled(m, kept, x) ==
  \/ m = "adjacent" /\ kept # <<>> /\ kept[Len(kept)] = x
  \/ m = "all" /\ x \in Range(kept)

MergeOne(m, kept, x) == IF Doubled(m, kept, x) THEN kept ELSE Append(kept, x)

Merged(m, t) ==
  LET kept[n \in 0..Len(t)] ==
        IF n = 0 THEN <<>>
        ELSE IF Doubled(m, kept[n - 1], t[n]) THEN kept[n - 1]
        ELSE Append(kept[n - 1], t[n])
  IN  kept[Len(t)]

\* How the texts of t are merged one by one.
Merging(kept, m, t) ==
  /\ kept \in [0..Len(t) -> Seq(Texts)] /\ kept[0] = <<>>
  /\ \A n \in 1..Len(t) : kept[n] = MergeOne(m, kept[n - 1], t[n])

LEMMA MergedIs ==
  ASSUME NEW m, NEW t \in Seq(Texts)
  PROVE  \E kept : Merging(kept, m, t) /\ Merged(m, t) = kept[Len(t)]
<1> DEFINE n == Len(t)
           step == [p \in (0..n) \X Seq(Texts) |->
                      IF p[1] = 0 THEN <<>> ELSE MergeOne(m, p[2], t[p[1]])]
           Keeps(f) == f = [i \in 0..Len(t) |->
                        IF i = 0 THEN <<>>
                        ELSE IF Doubled(m, f[i - 1], t[i]) THEN f[i - 1]
                        ELSE Append(f[i - 1], t[i])]
<1>0. n \in Nat
  OBVIOUS
<1>1. step \in [(0..n) \X Seq(Texts) -> Seq(Texts)]
  <2> SUFFICES ASSUME NEW p \in (0..n) \X Seq(Texts)
               PROVE  (IF p[1] = 0 THEN <<>> ELSE MergeOne(m, p[2], t[p[1]])) \in Seq(Texts)
    OBVIOUS
  <2>1. p[1] # 0 => t[p[1]] \in Texts
    OBVIOUS
  <2> QED
    BY <2>1 DEF MergeOne
<1>2. PICK f \in [0..n -> Seq(Texts)] : Climbs(f, 0, n, <<>>, step)
  <2> HIDE DEF step
  <2>1. <<>> \in Seq(Texts) /\ n \in Nat
    OBVIOUS
  <2> QED
    BY <1>1, <2>1, ClimbExists
<1>3. \A i \in 0..n : f[i] = IF i = 0 THEN <<>> ELSE MergeOne(m, f[i - 1], t[i])
  <2> SUFFICES ASSUME NEW i \in 0..n, i # 0 PROVE f[i] = MergeOne(m, f[i - 1], t[i])
    BY <1>2 DEF Climbs
  <2>1. f[i] = step[<<i, f[i - 1]>>] /\ <<i, f[i - 1]>> \in (0..n) \X Seq(Texts)
    <3> HIDE DEF step
    <3> QED
      BY <1>2 DEF Climbs
  <2> QED
    BY <2>1
<1>4. Keeps(f)
  <2>1. \A i \in 0..n : f[i] = IF i = 0 THEN <<>>
                               ELSE IF Doubled(m, f[i - 1], t[i]) THEN f[i - 1]
                               ELSE Append(f[i - 1], t[i])
    BY <1>3 DEF MergeOne
  <2> QED
    BY <2>1
<1>5. PICK g : Keeps(g) /\ Merged(m, t) = g[Len(t)]
  BY <1>4 DEF Merged
<1> HIDE DEF step
<1>6. g = [i \in 0..n |-> g[i]]
  BY <1>5
<1>7. g[0] = <<>> /\ \A i \in 1..n : g[i] = MergeOne(m, g[i - 1], t[i])
  <2>1. \A i \in 0..n : g[i] = IF i = 0 THEN <<>>
                               ELSE IF Doubled(m, g[i - 1], t[i]) THEN g[i - 1]
                               ELSE Append(g[i - 1], t[i])
    BY <1>5
  <2> HIDE DEF Keeps
  <2>2. \A i \in 0..n : g[i] = IF i = 0 THEN <<>> ELSE MergeOne(m, g[i - 1], t[i])
    BY <2>1 DEF MergeOne
  <2>3. 0 \in 0..n /\ \A i \in 1..n : i \in 0..n /\ i # 0
    BY <1>0
  <2> HIDE DEF n
  <2> QED
    BY <2>2, <2>3
<1>8. \A i \in 0..n : g[i] \in Seq(Texts)
  <2> DEFINE S == {i \in 0..n : g[i] \in Seq(Texts)}
  <2>1. 0 \in S
    <3>1. g[0] \in Seq(Texts)
      BY <1>7
    <3> QED
      BY <1>0, <3>1
  <2>2. \A k \in 0..n - 1 : k \in S => k + 1 \in S
    <3> SUFFICES ASSUME NEW k \in 0..n - 1, g[k] \in Seq(Texts) PROVE g[k + 1] \in Seq(Texts)
      OBVIOUS
    <3>1. g[k + 1] = MergeOne(m, g[k], t[k + 1]) /\ t[k + 1] \in Texts
      BY <1>7
    <3> QED
      BY <3>1 DEF MergeOne
  <2> HIDE DEF S
  <2>3. \A k \in 0..n : k \in S
    BY <1>0, <2>1, <2>2, UpTo
  <2> QED
    BY <2>3 DEF S
<1>9. Merging(g, m, t)
  BY <1>6, <1>7, <1>8 DEF Merging
<1> QED
  BY <1>5, <1>9

\* One text more is merged into what is kept of the others.
LEMMA MergedAppend ==
  ASSUME NEW m, NEW t \in Seq(Texts), NEW x \in Texts
  PROVE  Merged(m, Append(t, x)) = MergeOne(m, Merged(m, t), x)
<1> DEFINE more == Append(t, x)
<1>0. /\ more \in Seq(Texts) /\ Len(more) = Len(t) + 1 /\ Len(t) \in Nat /\ more[Len(t) + 1] = x
      /\ \A i \in 1..Len(t) : more[i] = t[i]
  OBVIOUS
<1> HIDE DEF more
<1>1. PICK f : Merging(f, m, t) /\ Merged(m, t) = f[Len(t)]
  BY MergedIs
<1>2. PICK g : Merging(g, m, more) /\ Merged(m, more) = g[Len(more)]
  BY <1>0, MergedIs
<1>3. \A k \in 0..Len(t) : g[k] = f[k]
  <2> DEFINE S == {k \in 0..Len(t) : g[k] = f[k]}
  <2>1. 0 \in S
    BY <1>0, <1>1, <1>2 DEF Merging
  <2>2. \A k \in 0..Len(t) - 1 : k \in S => k + 1 \in S
    <3> SUFFICES ASSUME NEW k \in 0..Len(t) - 1, g[k] = f[k] PROVE g[k + 1] = f[k + 1]
      BY <1>0
    <3>1. k + 1 \in 1..Len(t) /\ k + 1 \in 1..Len(more) /\ (k + 1) - 1 = k /\ more[k + 1] = t[k + 1]
      BY <1>0
    <3>2. f[k + 1] = MergeOne(m, f[k], t[k + 1])
      BY <1>1, <3>1 DEF Merging
    <3>3. g[k + 1] = MergeOne(m, g[k], more[k + 1])
      BY <1>2, <3>1 DEF Merging
    <3> QED
      BY <3>1, <3>2, <3>3
  <2> HIDE DEF S
  <2>3. \A k \in 0..Len(t) : k \in S
    BY <1>0, <2>1, <2>2, UpTo
  <2> QED
    BY <2>3 DEF S
<1>4. g[Len(t) + 1] = MergeOne(m, g[Len(t)], x)
  <2>1. Len(t) + 1 \in 1..Len(more) /\ (Len(t) + 1) - 1 = Len(t)
    BY <1>0
  <2> QED
    BY <1>0, <1>2, <2>1 DEF Merging
<1>5. g[Len(t)] = f[Len(t)]
  BY <1>0, <1>3
<1> QED
  BY <1>0, <1>1, <1>2, <1>4, <1>5 DEF more

LEMMA MergedEmpty ==
  ASSUME NEW m PROVE Merged(m, <<>>) = <<>>
<1>1. <<>> \in Seq(Texts) /\ Len(<<>>) = 0
  OBVIOUS
<1>2. PICK g : Merging(g, m, <<>>) /\ Merged(m, <<>>) = g[Len(<<>>)]
  BY <1>1, MergedIs
<1> QED
  BY <1>1, <1>2 DEF Merging

\* The first texts of t.
First(t, n) == [i \in 1..n |-> t[i]]

LEMMA FirstOf ==
  ASSUME NEW t \in Seq(Texts)
  PROVE  /\ First(t, 0) = <<>> /\ First(t, Len(t)) = t
         /\ \A n \in 0..Len(t) : First(t, n) \in Seq(Texts) /\ Len(First(t, n)) = n
         /\ \A n \in 0..Len(t) - 1 : First(t, n + 1) = Append(First(t, n), t[n + 1]) /\ t[n + 1] \in Texts
<1>1. First(t, 0) = <<>> /\ First(t, Len(t)) = t
  BY DEF First
<1>2. \A n \in 0..Len(t) : First(t, n) \in Seq(Texts) /\ Len(First(t, n)) = n
  BY DEF First
<1>3. ASSUME NEW n \in 0..Len(t) - 1
      PROVE  First(t, n + 1) = Append(First(t, n), t[n + 1]) /\ t[n + 1] \in Texts
  BY DEF First
<1> QED
  BY <1>1, <1>2, <1>3

\* Nothing in what is kept would be left out.
Clean(m, kept) == \A n \in 1..Len(kept) : ~ Doubled(m, First(kept, n - 1), kept[n])

LEMMA MergedClean ==
  ASSUME NEW m, NEW t \in Seq(Texts)
  PROVE  Merged(m, t) \in Seq(Texts) /\ Clean(m, Merged(m, t))
<1>1. PICK g : Merging(g, m, t) /\ Merged(m, t) = g[Len(t)]
  BY MergedIs
<1>2. Len(t) \in Nat
  OBVIOUS
<1> DEFINE S == {k \in 0..Len(t) : g[k] \in Seq(Texts) /\ Clean(m, g[k])}
<1>3. 0 \in S
  BY <1>1, <1>2 DEF Merging, Clean
<1>4. \A k \in 0..Len(t) - 1 : k \in S => k + 1 \in S
  <2> SUFFICES ASSUME NEW k \in 0..Len(t) - 1, g[k] \in Seq(Texts), Clean(m, g[k])
               PROVE  g[k + 1] \in Seq(Texts) /\ Clean(m, g[k + 1])
    BY <1>2
  <2>1. k + 1 \in 1..Len(t) /\ (k + 1) - 1 = k /\ t[k + 1] \in Texts
    BY <1>2
  <2>2. g[k + 1] = MergeOne(m, g[k], t[k + 1])
    BY <1>1, <2>1 DEF Merging
  <2>3. CASE Doubled(m, g[k], t[k + 1])
    BY <2>2, <2>3 DEF MergeOne
  <2>4. CASE ~ Doubled(m, g[k], t[k + 1])
    <3> DEFINE kept == g[k]
               more == Append(kept, t[k + 1])
    <3>1. g[k + 1] = more
      BY <2>2, <2>4 DEF MergeOne
    <3>2. /\ more \in Seq(Texts) /\ Len(more) = Len(kept) + 1 /\ more[Len(kept) + 1] = t[k + 1]
          /\ \A i \in 1..Len(kept) : more[i] = kept[i]
      BY <2>1
    <3> HIDE DEF more
    <3>3. ASSUME NEW n \in 1..Len(more) PROVE ~ Doubled(m, First(more, n - 1), more[n])
      <4>1. \A i \in 0..Len(kept) : First(more, i) = First(kept, i)
        BY <3>2 DEF First
      <4>2. CASE n = Len(kept) + 1
        <5>1. First(more, n - 1) = kept
          BY <3>2, <4>1, <4>2, FirstOf
        <5> QED
          BY <2>4, <3>2, <4>2, <5>1
      <4>3. CASE n # Len(kept) + 1
        <5>1. n \in 1..Len(kept) /\ n - 1 \in 0..Len(kept)
          BY <3>2, <4>3
        <5> QED
          BY <3>2, <4>1, <5>1 DEF Clean
      <4> QED
        BY <4>2, <4>3
    <3> QED
      BY <3>1, <3>2, <3>3 DEF Clean
  <2> QED
    BY <2>3, <2>4
<1> HIDE DEF S
<1>5. \A k \in 0..Len(t) : k \in S
  BY <1>2, <1>3, <1>4, UpTo
<1> QED
  BY <1>1, <1>2, <1>5 DEF S

\* What is merged is not changed by merging it again.
LEMMA MergedAgain ==
  ASSUME NEW m, NEW t \in Seq(Texts), Clean(m, t)
  PROVE  Merged(m, t) = t
<1>1. Len(t) \in Nat
  OBVIOUS
<1> DEFINE S == {k \in 0..Len(t) : Merged(m, First(t, k)) = First(t, k)}
<1>2. 0 \in S
  BY <1>1, FirstOf, MergedEmpty
<1>3. \A k \in 0..Len(t) - 1 : k \in S => k + 1 \in S
  <2> SUFFICES ASSUME NEW k \in 0..Len(t) - 1, Merged(m, First(t, k)) = First(t, k)
               PROVE  Merged(m, First(t, k + 1)) = First(t, k + 1)
    BY <1>1
  <2>1. k \in 0..Len(t) /\ k + 1 \in 1..Len(t) /\ (k + 1) - 1 = k
    BY <1>1
  <2>2. /\ First(t, k) \in Seq(Texts) /\ t[k + 1] \in Texts
        /\ First(t, k + 1) = Append(First(t, k), t[k + 1])
    BY <2>1, FirstOf
  <2>3. ~ Doubled(m, First(t, k), t[k + 1])
    BY <2>1 DEF Clean
  <2> QED
    BY <2>2, <2>3, MergedAppend DEF MergeOne
<1> HIDE DEF S
<1>4. \A k \in 0..Len(t) : k \in S
  BY <1>1, <1>2, <1>3, UpTo
<1> QED
  BY <1>1, <1>4, FirstOf DEF S

\* What is kept of some texts has the same texts, or ends with the same one.
LEMMA MergedHas ==
  ASSUME NEW t \in Seq(Texts)
  PROVE  /\ Range(Merged("all", t)) = {t[i] : i \in 1..Len(t)}
         /\ t # <<>> => LET kept == Merged("adjacent", t) IN kept # <<>> /\ kept[Len(kept)] = t[Len(t)]
         /\ t = <<>> => Merged("adjacent", t) = <<>>
<1>1. Len(t) \in Nat
  OBVIOUS
<1> DEFINE A(k) == Merged("all", First(t, k))
           B(k) == Merged("adjacent", First(t, k))
           S == {k \in 0..Len(t) : /\ Range(A(k)) = {t[i] : i \in 1..k}
                                   /\ k # 0 => B(k) # <<>> /\ B(k)[Len(B(k))] = t[k]}
<1>2. 0 \in S
  <2>1. A(0) = <<>>
    BY FirstOf, MergedEmpty
  <2>2. Range(<<>>) = {} /\ {t[i] : i \in 1..0} = {}
    BY DEF Range
  <2> HIDE DEF A, B
  <2> QED
    BY <1>1, <2>1, <2>2
<1>3. \A k \in 0..Len(t) - 1 : k \in S => k + 1 \in S
  <2> SUFFICES ASSUME NEW k \in 0..Len(t) - 1, Range(A(k)) = {t[i] : i \in 1..k},
                      k # 0 => B(k) # <<>> /\ B(k)[Len(B(k))] = t[k]
               PROVE  /\ Range(A(k + 1)) = {t[i] : i \in 1..k + 1}
                      /\ B(k + 1) # <<>> /\ B(k + 1)[Len(B(k + 1))] = t[k + 1]
    BY <1>1
  <2> DEFINE x == t[k + 1]
  <2>1. k \in 0..Len(t) /\ First(t, k) \in Seq(Texts) /\ x \in Texts /\ First(t, k + 1) = Append(First(t, k), x)
    BY <1>1, FirstOf
  <2>2. A(k + 1) = MergeOne("all", A(k), x) /\ B(k + 1) = MergeOne("adjacent", B(k), x)
    BY <2>1, MergedAppend
  <2>3. A(k) \in Seq(Texts) /\ B(k) \in Seq(Texts)
    BY <2>1, MergedClean
  <2>4. {t[i] : i \in 1..k + 1} = {t[i] : i \in 1..k} \cup {x}
    BY <1>1
  <2> HIDE DEF A, B, x
  <2>5. Range(A(k + 1)) = Range(A(k)) \cup {x}
    <3>1. CASE x \in Range(A(k))
      <4>1. A(k + 1) = A(k)
        BY <2>2, <3>1 DEF MergeOne, Doubled
      <4> QED
        BY <3>1, <4>1
    <3>2. CASE x \notin Range(A(k))
      <4>1. A(k + 1) = Append(A(k), x)
        BY <2>2, <3>2 DEF MergeOne, Doubled
      <4>2. ASSUME NEW s \in Seq(Texts), NEW y PROVE Range(Append(s, y)) = Range(s) \cup {y}
        <5> DEFINE more == Append(s, y)
        <5>1. /\ DOMAIN more = 1..Len(s) + 1 /\ DOMAIN s = 1..Len(s) /\ Len(s) \in Nat
              /\ more[Len(s) + 1] = y /\ \A i \in 1..Len(s) : more[i] = s[i]
          OBVIOUS
        <5> HIDE DEF more
        <5> QED
          BY <5>1 DEF Range, more
      <4> QED
        BY <2>3, <4>1, <4>2
    <3> QED
      BY <3>1, <3>2
  <2>6. B(k + 1) # <<>> /\ B(k + 1)[Len(B(k + 1))] = x
    <3>1. CASE B(k) # <<>> /\ B(k)[Len(B(k))] = x
      BY <2>2, <3>1 DEF MergeOne, Doubled
    <3>2. CASE ~ (B(k) # <<>> /\ B(k)[Len(B(k))] = x)
      <4>1. B(k + 1) = Append(B(k), x)
        BY <2>2, <3>2 DEF MergeOne, Doubled
      <4> QED
        BY <2>3, <4>1
    <3> QED
      BY <3>1, <3>2
  <2> QED
    BY <2>4, <2>5, <2>6 DEF x
<1> HIDE DEF S
<1>4. \A k \in 0..Len(t) : k \in S
  BY <1>1, <1>2, <1>3, UpTo
<1>5. Len(t) \in S /\ First(t, Len(t)) = t
  BY <1>1, <1>4, FirstOf
<1> QED
  BY <1>1, <1>5, MergedEmpty DEF S

LEMMA DedupIs ==
  ASSUME NEW t PROVE H!Dedup(t) = Merged(merge, t)
BY DEF H!Dedup, Merged, H!Duplicate, Doubled, H!Range, Range

\* Whether a text stays, said of all before it.
Stays(t, i) ==
  \A j \in 1..i - 1 : t[j] = t[i] => merge = "none" \/ (merge = "adjacent" /\ j < i - 1)

LEMMA DistinctIs ==
  ASSUME NEW t \in Seq(Texts), merge \in H!Policies
  PROVE  H!Distinct(t) = Merged(merge, t)
<1>1. Len(t) \in Nat
  OBVIOUS
<1>2. ASSUME NEW k \in 0..Len(t) - 1
      PROVE  Stays(t, k + 1) <=> ~ Doubled(merge, Merged(merge, First(t, k)), t[k + 1])
  <2> DEFINE p == First(t, k)
             x == t[k + 1]
  <2>1. /\ p \in Seq(Texts) /\ Len(p) = k /\ k \in 0..Len(t) /\ (k + 1) - 1 = k
        /\ \A i \in 1..k : p[i] = t[i]
    BY <1>1, FirstOf DEF First
  <2> HIDE DEF p
  <2>2. CASE merge = "none"
    BY <2>2 DEF Stays, Doubled
  <2>3. CASE merge = "all"
    <3>1. Stays(t, k + 1) <=> \A j \in 1..k : t[j] # x
      BY <2>1, <2>3 DEF Stays
    <3>2. Doubled(merge, Merged(merge, p), x) <=> x \in {p[i] : i \in 1..k}
      BY <2>1, <2>3, MergedHas DEF Doubled
    <3> QED
      BY <2>1, <3>1, <3>2 DEF p
  <2>4. CASE merge = "adjacent"
    <3>1. Stays(t, k + 1) <=> (k # 0 => t[k] # x)
      <4>1. Stays(t, k + 1) <=> \A j \in 1..k : t[j] = x => j < k
        BY <2>1, <2>4 DEF Stays
      <4> QED
        BY <2>1, <4>1
    <3>2. Doubled(merge, Merged(merge, p), x) <=> k # 0 /\ t[k] = x
      <4>1. CASE k = 0
        <5>1. p = <<>>
          BY <2>1, <4>1
        <5> QED
          BY <2>4, <4>1, <5>1, MergedEmpty DEF Doubled
      <4>2. CASE k # 0
        <5>1. p # <<>> /\ p[Len(p)] = t[k]
          BY <2>1, <4>2
        <5> QED
          BY <2>1, <2>4, <4>2, <5>1, MergedHas DEF Doubled
      <4> QED
        BY <4>1, <4>2
    <3> QED
      BY <3>1, <3>2 DEF p
  <2> QED
    BY <2>2, <2>3, <2>4 DEF H!Policies
<1> DEFINE Rule(g) == g = [n \in 0..Len(t) |->
                             IF n = 0 THEN <<>> ELSE IF Stays(t, n) THEN Append(g[n - 1], t[n]) ELSE g[n - 1]]
           f == [n \in 0..Len(t) |-> Merged(merge, First(t, n))]
<1>3. Rule(f)
  <2> SUFFICES ASSUME NEW n \in 0..Len(t)
               PROVE  f[n] = IF n = 0 THEN <<>> ELSE IF Stays(t, n) THEN Append(f[n - 1], t[n]) ELSE f[n - 1]
    OBVIOUS
  <2>1. CASE n = 0
    BY <2>1, FirstOf, MergedEmpty
  <2>2. CASE n # 0
    <3> DEFINE k == n - 1
    <3>1. k \in 0..Len(t) - 1 /\ k + 1 = n /\ k \in 0..Len(t)
      BY <1>1, <2>2, SMTT(30)
    <3>2. f[n] = Merged(merge, First(t, k + 1)) /\ f[n - 1] = Merged(merge, First(t, k))
      BY <3>1
    <3>3. First(t, k + 1) = Append(First(t, k), t[k + 1]) /\ t[k + 1] \in Texts /\ First(t, k) \in Seq(Texts)
      BY <3>1, FirstOf
    <3>4. Merged(merge, First(t, k + 1)) = MergeOne(merge, Merged(merge, First(t, k)), t[k + 1])
      BY <3>3, MergedAppend
    <3> HIDE DEF f
    <3> QED
      BY <1>2, <2>2, <3>1, <3>2, <3>4 DEF MergeOne
  <2> QED
    BY <2>1, <2>2
<1>4. PICK g : Rule(g) /\ H!Distinct(t) = g[Len(t)]
  BY <1>3 DEF H!Distinct, Stays
<1>5. /\ g[0] = <<>>
      /\ \A k \in 0..Len(t) - 1 : g[k + 1] = IF Stays(t, k + 1) THEN Append(g[k], t[k + 1]) ELSE g[k]
  <2>1. \A n \in 0..Len(t) : g[n] = IF n = 0 THEN <<>> ELSE IF Stays(t, n) THEN Append(g[n - 1], t[n]) ELSE g[n - 1]
    BY <1>4
  <2>2. \A k \in 0..Len(t) - 1 : k + 1 \in 0..Len(t) /\ k + 1 # 0 /\ (k + 1) - 1 = k
    BY <1>1
  <2> HIDE DEF Rule, f
  <2> QED
    BY <1>1, <2>1, <2>2
<1> DEFINE S == {k \in 0..Len(t) : g[k] = Merged(merge, First(t, k))}
<1> HIDE DEF Rule, f
<1>6. 0 \in S
  BY <1>1, <1>5, FirstOf, MergedEmpty
<1>7. \A k \in 0..Len(t) - 1 : k \in S => k + 1 \in S
  <2> SUFFICES ASSUME NEW k \in 0..Len(t) - 1, g[k] = Merged(merge, First(t, k))
               PROVE  g[k + 1] = Merged(merge, First(t, k + 1))
    BY <1>1
  <2>1. k \in 0..Len(t)
    BY <1>1
  <2>2. First(t, k + 1) = Append(First(t, k), t[k + 1]) /\ t[k + 1] \in Texts /\ First(t, k) \in Seq(Texts)
    BY <2>1, FirstOf
  <2>3. Merged(merge, First(t, k + 1)) = MergeOne(merge, Merged(merge, First(t, k)), t[k + 1])
    BY <2>2, MergedAppend
  <2> QED
    BY <1>2, <1>5, <2>3 DEF MergeOne
<1> HIDE DEF S
<1>8. \A k \in 0..Len(t) : k \in S
  BY <1>1, <1>6, <1>7, UpTo
<1> QED
  BY <1>1, <1>4, <1>8, FirstOf DEF S

\* The pieces of entries that are one piece and one line.
Plain == {[text |-> x, number |-> 1, last |-> TRUE] : x \in Texts \ (Long \cup Broken)}

TextsOf(pieces) == [i \in 1..Len(pieces) |-> pieces[i].text]

LEMMA TakenPlain ==
  ASSUME NEW done, NEW p \in Plain
  PROVE  H!Taken([line |-> <<>>, texts |-> done], p) = [line |-> <<>>, texts |-> done \o <<p.text>>]
<1>1. p.number = 1 /\ p.last = TRUE /\ p.text \notin Broken
  BY DEF Plain
<1> DEFINE whole == \A i \in DOMAIN <<p>> : <<p>>[i].text = <<p>>[1].text /\ <<p>>[i].number = i
<1>2. Append(<<>>, p) = <<p>>
  OBVIOUS
<1>3. whole
  BY <1>1
<1> QED
  BY <1>1, <1>2, <1>3 DEF H!Taken

\* A file of such pieces is read back as the texts they are of.
LEMMA ReadIs ==
  ASSUME NEW pieces \in Seq(Plain)
  PROVE  H!Read(pieces) = TextsOf(pieces) /\ TextsOf(pieces) \in Seq(Texts)
<1> DEFINE Rule(g) == g = [n \in 0..Len(pieces) |->
                             IF n = 0 THEN [line |-> <<>>, texts |-> <<>>] ELSE H!Taken(g[n - 1], pieces[n])]
           State(n) == [line |-> <<>>, texts |-> [i \in 1..n |-> pieces[i].text]]
           f == [n \in 0..Len(pieces) |-> State(n)]
<1>1. Len(pieces) \in Nat /\ \A i \in 1..Len(pieces) : pieces[i] \in Plain
  OBVIOUS
<1>2. TextsOf(pieces) \in Seq(Texts)
  <2>1. \A i \in 1..Len(pieces) : pieces[i].text \in Texts
    BY <1>1 DEF Plain
  <2> QED
    BY <1>1, <2>1 DEF TextsOf
<1>3. State(0) = [line |-> <<>>, texts |-> <<>>]
  <2>1. [i \in 1..0 |-> pieces[i].text] = <<>>
    OBVIOUS
  <2> QED
    BY <2>1
<1>4. ASSUME NEW k \in 0..Len(pieces) - 1
      PROVE  State(k + 1) = H!Taken(State(k), pieces[k + 1])
  <2> DEFINE done == [i \in 1..k |-> pieces[i].text]
             more == [i \in 1..k + 1 |-> pieces[i].text]
  <2>1. k + 1 \in 1..Len(pieces) /\ k \in Nat
    BY <1>1
  <2>2. more = done \o <<pieces[k + 1].text>>
    BY <2>1
  <2> HIDE DEF done, more
  <2>3. H!Taken([line |-> <<>>, texts |-> done], pieces[k + 1])
          = [line |-> <<>>, texts |-> done \o <<pieces[k + 1].text>>]
    BY <1>1, <2>1, TakenPlain
  <2> QED
    BY <2>2, <2>3 DEF done, more
<1> HIDE DEF State
<1>5. Rule(f)
  <2> SUFFICES ASSUME NEW n \in 0..Len(pieces)
               PROVE  f[n] = IF n = 0 THEN [line |-> <<>>, texts |-> <<>>] ELSE H!Taken(f[n - 1], pieces[n])
    OBVIOUS
  <2>1. CASE n = 0
    BY <1>3, <2>1
  <2>2. CASE n # 0
    <3> DEFINE k == n - 1
    <3>1. k \in 0..Len(pieces) - 1 /\ k + 1 = n /\ k \in 0..Len(pieces)
      BY <1>1, <2>2, SMTT(30)
    <3>2. f[n] = State(k + 1) /\ f[n - 1] = State(k)
      BY <3>1, SMTT(30)
    <3> HIDE DEF f
    <3> QED
      BY <1>4, <2>2, <3>1, <3>2
  <2> QED
    BY <2>1, <2>2
<1>6. PICK g : /\ Rule(g)
               /\ H!Read(pieces) = g[Len(pieces)].texts
                    \o (IF g[Len(pieces)].line = <<>> THEN <<>> ELSE <<"torn">>)
  BY <1>5 DEF H!Read
<1>7. /\ g[0] = State(0)
      /\ \A k \in 0..Len(pieces) - 1 : g[k + 1] = H!Taken(g[k], pieces[k + 1])
  <2>1. \A n \in 0..Len(pieces) :
          g[n] = IF n = 0 THEN [line |-> <<>>, texts |-> <<>>] ELSE H!Taken(g[n - 1], pieces[n])
    BY <1>6
  <2>2. \A k \in 0..Len(pieces) - 1 : k + 1 \in 0..Len(pieces) /\ k + 1 # 0 /\ (k + 1) - 1 = k
    BY <1>1
  <2> HIDE DEF Rule, f
  <2> QED
    BY <1>1, <1>3, <2>1, <2>2
<1> DEFINE S == {k \in 0..Len(pieces) : g[k] = State(k)}
<1> HIDE DEF Rule, f
<1>8. 0 \in S
  BY <1>1, <1>7
<1>9. \A k \in 0..Len(pieces) - 1 : k \in S => k + 1 \in S
  BY <1>1, <1>4, <1>7
<1> HIDE DEF S
<1>10. \A k \in 0..Len(pieces) : k \in S
  BY <1>1, <1>8, <1>9, UpTo
<1>11. g[Len(pieces)] = State(Len(pieces))
  BY <1>1, <1>10 DEF S
<1>12. g[Len(pieces)].line = <<>> /\ g[Len(pieces)].texts = TextsOf(pieces)
  BY <1>11 DEF State, TextsOf
<1>13. TextsOf(pieces) \o <<>> = TextsOf(pieces)
  BY <1>2
<1> QED
  BY <1>2, <1>6, <1>12, <1>13

\* A shell has one plain piece to write, or none.
AtMostOne(pieces) == pieces = <<>> \/ \E p \in Plain : pieces = <<p>>

HistoryInv ==
  /\ merge \in H!Policies
  /\ ~ odd =>
       /\ file \in Seq(Plain)
       /\ writing \in [Shells -> Seq(Plain)] /\ \A s \in Shells : AtMostOne(writing[s])
       /\ loaded \in [Shells -> Seq(Texts)]
       /\ DOMAIN since = Shells
       /\ \A s \in Shells : ~ since[s] => loaded[s] = Merged(merge, TextsOf(file \o writing[s]))

LEMMA HistoryStart == ASSUME Init PROVE HistoryInv
<1>1. /\ merge \in H!Policies /\ file = <<>> /\ writing = [s \in Shells |-> <<>>]
      /\ loaded = [s \in Shells |-> <<>>] /\ since = [s \in Shells |-> FALSE] /\ odd = FALSE
  BY DEF Init, H!Init
<1>2. TextsOf(<<>> \o <<>>) = <<>> /\ <<>> \in Seq(Plain) /\ <<>> \in Seq(Texts) /\ AtMostOne(<<>>)
  BY DEF TextsOf, AtMostOne
<1> QED
  BY <1>1, <1>2, MergedEmpty DEF HistoryInv

LEMMA HistoryStep == ASSUME HistoryInv, H!Next PROVE HistoryInv'
<1> USE DEF HistoryInv
<1>1. CASE H!Load
  <2>1. PICK s \in Shells :
          /\ writing[s] = <<>>
          /\ loaded' = [loaded EXCEPT ![s] = H!Dedup(H!Read(file))]
          /\ since' = [since EXCEPT ![s] = FALSE]
    BY <1>1 DEF H!Load
  <2>2. UNCHANGED <<merge, file, writing, odd>>
    BY <1>1 DEF H!Load
  <2> SUFFICES ASSUME ~ odd
               PROVE  /\ loaded' \in [Shells -> Seq(Texts)] /\ DOMAIN since' = Shells
                      /\ \A t \in Shells : ~ since'[t] => loaded'[t] = Merged(merge, TextsOf(file \o writing[t]))
    BY <2>2
  <2>3. TextsOf(file) \in Seq(Texts) /\ H!Dedup(H!Read(file)) = Merged(merge, TextsOf(file))
    BY ReadIs, DedupIs
  <2>4. Merged(merge, TextsOf(file)) \in Seq(Texts)
    BY <2>3, MergedClean
  <2>5. file \o writing[s] = file
    BY <2>1
  <2>6. ASSUME NEW t \in Shells, ~ since'[t]
        PROVE  loaded'[t] = Merged(merge, TextsOf(file \o writing[t]))
    <3>1. CASE t = s
      BY <2>1, <2>3, <2>5, <3>1
    <3>2. CASE t # s
      BY <2>1, <2>6, <3>2
    <3> QED
      BY <3>1, <3>2
  <2> QED
    BY <2>1, <2>3, <2>4, <2>6
<1>2. CASE H!BeginAppend
  <2>1. PICK s \in Shells, x \in Texts :
          /\ writing[s] = <<>>
          /\ \/ writing' = [writing EXCEPT ![s] = H!Pieces(x)] /\ odd' = (odd \/ x \in Long \cup Broken)
             \/ UNCHANGED writing /\ odd' = TRUE
          /\ loaded' = [loaded EXCEPT ![s] = H!Dedup(Append(loaded[s], x))]
    BY <1>2 DEF H!BeginAppend
  <2>2. UNCHANGED <<merge, file, since>>
    BY <1>2 DEF H!BeginAppend
  <2> SUFFICES ASSUME ~ odd'
               PROVE  /\ writing' \in [Shells -> Seq(Plain)] /\ \A t \in Shells : AtMostOne(writing'[t])
                      /\ loaded' \in [Shells -> Seq(Texts)]
                      /\ \A t \in Shells : ~ since[t] => loaded'[t] = Merged(merge, TextsOf(file \o writing'[t]))
    BY <2>1, <2>2
  <2> DEFINE p == [text |-> x, number |-> 1, last |-> TRUE]
  <2>3. ~ odd /\ x \notin Long \cup Broken /\ writing' = [writing EXCEPT ![s] = H!Pieces(x)]
    BY <2>1
  <2>4. H!Pieces(x) = <<p>> /\ p \in Plain /\ p.text = x
    BY <2>3 DEF H!Pieces, Plain
  <2> HIDE DEF p
  <2>5. Append(loaded[s], x) \in Seq(Texts)
    BY <2>3
  <2>6. H!Dedup(Append(loaded[s], x)) \in Seq(Texts)
    BY <2>5, DedupIs, MergedClean
  <2>7. ASSUME ~ since[s]
        PROVE  H!Dedup(Append(loaded[s], x)) = Merged(merge, TextsOf(file \o <<p>>))
    <3> DEFINE t == TextsOf(file)
    <3>1. file \in Seq(Plain) /\ t \in Seq(Texts) /\ loaded[s] = Merged(merge, t)
      <4>1. file \o writing[s] = file
        BY <2>1, <2>3
      <4> QED
        BY <2>3, <2>7, <4>1, ReadIs
    <3>2. TextsOf(file \o <<p>>) = Append(t, x)
      BY <2>4, <3>1 DEF TextsOf
    <3> HIDE DEF t
    <3>3. loaded[s] \in Seq(Texts) /\ Clean(merge, loaded[s])
      BY <3>1, MergedClean
    <3>4. Merged(merge, Append(loaded[s], x)) = MergeOne(merge, loaded[s], x)
      BY <3>3, MergedAppend, MergedAgain
    <3>5. Merged(merge, Append(t, x)) = MergeOne(merge, Merged(merge, t), x)
      BY <3>1, MergedAppend
    <3> QED
      BY <3>1, <3>2, <3>4, <3>5, DedupIs
  <2>8. ASSUME NEW t \in Shells, ~ since[t]
        PROVE  loaded'[t] = Merged(merge, TextsOf(file \o writing'[t]))
    <3>1. CASE t = s
      BY <2>1, <2>3, <2>4, <2>7, <2>8, <3>1
    <3>2. CASE t # s
      BY <2>1, <2>3, <2>8, <3>2
    <3> QED
      BY <3>1, <3>2
  <2>9. <<p>> \in Seq(Plain) /\ AtMostOne(<<p>>)
    BY <2>4 DEF AtMostOne
  <2>10. writing' \in [Shells -> Seq(Plain)] /\ \A t \in Shells : AtMostOne(writing'[t])
    BY <2>3, <2>4, <2>9
  <2>11. loaded' \in [Shells -> Seq(Texts)]
    BY <2>1, <2>3, <2>6
  <2> QED
    BY <2>8, <2>10, <2>11
<1>3. CASE H!WritePiece
  <2>1. PICK s \in Shells :
          /\ writing[s] # <<>>
          /\ file' = Append(file, Head(writing[s]))
          /\ writing' = [writing EXCEPT ![s] = Tail(writing[s])]
          /\ since' = [t \in Shells |-> since[t] \/ t # s]
    BY <1>3 DEF H!WritePiece
  <2>2. UNCHANGED <<merge, loaded, odd>>
    BY <1>3 DEF H!WritePiece
  <2> SUFFICES ASSUME ~ odd
               PROVE  /\ file' \in Seq(Plain)
                      /\ writing' \in [Shells -> Seq(Plain)] /\ \A t \in Shells : AtMostOne(writing'[t])
                      /\ DOMAIN since' = Shells
                      /\ \A t \in Shells : ~ since'[t] => loaded[t] = Merged(merge, TextsOf(file' \o writing'[t]))
    BY <2>2
  <2>3. PICK p \in Plain : writing[s] = <<p>>
    BY <2>1 DEF AtMostOne
  <2>4. file' = Append(file, p) /\ writing' = [writing EXCEPT ![s] = <<>>]
    BY <2>1, <2>3
  <2>5. Append(file, p) \in Seq(Plain) /\ Append(file, p) \o <<>> = file \o <<p>> /\ <<>> \in Seq(Plain) /\ AtMostOne(<<>>)
    BY DEF AtMostOne
  <2>6. ASSUME NEW t \in Shells, ~ since'[t]
        PROVE  loaded[t] = Merged(merge, TextsOf(file' \o writing'[t]))
    <3>1. t = s /\ ~ since[s]
      BY <2>1, <2>6
    <3>2. file' \o writing'[s] = file \o writing[s]
      BY <2>3, <2>4, <2>5
    <3> QED
      BY <3>1, <3>2
  <2>7. writing' \in [Shells -> Seq(Plain)] /\ \A t \in Shells : AtMostOne(writing'[t])
    BY <2>4, <2>5
  <2> QED
    BY <2>1, <2>4, <2>5, <2>6, <2>7
<1>4. CASE H!Restart
  <2>1. PICK s \in Shells :
          /\ writing' = [writing EXCEPT ![s] = <<>>]
          /\ loaded' = [loaded EXCEPT ![s] = <<>>]
          /\ since' = [since EXCEPT ![s] = TRUE]
    BY <1>4 DEF H!Restart
  <2>2. UNCHANGED <<merge, file, odd>>
    BY <1>4 DEF H!Restart
  <2>3. <<>> \in Seq(Plain) /\ <<>> \in Seq(Texts) /\ AtMostOne(<<>>)
    BY DEF AtMostOne
  <2>4. ASSUME ~ odd, NEW t \in Shells, ~ since'[t]
        PROVE  loaded'[t] = Merged(merge, TextsOf(file \o writing'[t]))
    <3>1. t # s /\ ~ since[t]
      BY <2>1, <2>4
    <3> QED
      BY <2>1, <2>4, <3>1
  <2> QED
    BY <2>1, <2>2, <2>3, <2>4
<1> QED
  BY <1>1, <1>2, <1>3, <1>4 DEF H!Next

LEMMA HistoryMoves == ASSUME HistoryInv, [Next]_vars PROVE HistoryInv'
<1>1. CASE UNCHANGED historyVars
  BY <1>1 DEF historyVars, HistoryInv
<1>2. CASE H!Next
  BY <1>2, HistoryStep
<1>3. UNCHANGED historyVars \/ H!Next
  BY DEF Next, Grow, vars
<1> QED
  BY <1>1, <1>2, <1>3

LEMMA HistoryHolds == ASSUME HistoryInv PROVE HistoryKept
<1> SUFFICES ASSUME ~ odd
             PROVE  /\ "torn" \notin H!Range(H!Read(file))
                    /\ \A s \in Shells : ~ since[s] => loaded[s] = H!Distinct(H!Read(file \o writing[s]))
  BY DEF HistoryKept, H!HistoryKept
<1>1. file \in Seq(Plain) /\ \A s \in Shells : file \o writing[s] \in Seq(Plain)
  BY DEF HistoryInv
<1>2. "torn" \notin H!Range(H!Read(file))
  <2>1. H!Read(file) \in Seq(Texts)
    BY <1>1, ReadIs
  <2> QED
    BY <2>1, HistoryAssumption DEF H!Range
<1>3. ASSUME NEW s \in Shells, ~ since[s]
      PROVE  loaded[s] = H!Distinct(H!Read(file \o writing[s]))
  <2> DEFINE t == TextsOf(file \o writing[s])
  <2>1. H!Read(file \o writing[s]) = t /\ t \in Seq(Texts)
    BY <1>1, ReadIs
  <2>2. loaded[s] = Merged(merge, t) /\ merge \in H!Policies
    BY <1>3 DEF HistoryInv
  <2> HIDE DEF t
  <2> QED
    BY <2>1, <2>2, DistinctIs
<1> QED
  BY <1>2, <1>3

\* The history file: whatever shells, texts and policy, an entry of one piece and one line
\* is read back whole, and what a shell holds in memory is what its file holds.
THEOREM HistoryIsKept == Spec => []HistoryKept
<1>1. Init => HistoryInv
  BY HistoryStart
<1>2. HistoryInv /\ [Next]_vars => HistoryInv'
  BY HistoryMoves
<1>3. HistoryInv => HistoryKept
  BY HistoryHolds
<1> QED
  BY <1>1, <1>2, <1>3, PTL DEF Spec

-----------------------------------------------------------------------------
(* The editors.  A text is UTF-8 if there is a set of places to cut it at,    *)
(* each with a whole character behind it.                                      *)

Bytes == {b \in Nat : b <= 255}

LEMMA BitsAre ==
  ASSUME NEW s, NEW at_, NEW length \in 2..4
  PROVE  LET first == FirstBits(s[at_], length)
             b(n) == s[at_ + n] % 64
         IN  Bits(s, at_, length) =
               CASE length = 2 -> first * 64 + b(1)
                 [] length = 3 -> (first * 64 + b(1)) * 64 + b(2)
                 [] length = 4 -> ((first * 64 + b(1)) * 64 + b(2)) * 64 + b(3)
<1> DEFINE first == FirstBits(s[at_], length)
           b(n) == s[at_ + n - 1] % 64
           Rule(f) == f = [n \in 1..length |-> IF n = 1 THEN first ELSE f[n - 1] * 64 + b(n)]
           two == first * 64 + b(2)
           three == two * 64 + b(3)
           four == three * 64 + b(4)
           code == [n \in 1..length |-> IF n = 1 THEN first ELSE IF n = 2 THEN two ELSE IF n = 3 THEN three ELSE four]
<1>1. Rule(code)
  <2> HIDE DEF first, b
  <2> SUFFICES ASSUME NEW n \in 1..length
               PROVE  code[n] = IF n = 1 THEN first ELSE code[n - 1] * 64 + b(n)
    OBVIOUS
  <2>1. n \in {1, 2, 3, 4}
    OBVIOUS
  <2>2. CASE n = 1
    BY <2>2
  <2>3. CASE n = 2
    BY <2>3
  <2>4. CASE n = 3
    BY <2>4
  <2>5. CASE n = 4
    BY <2>5
  <2> QED
    BY <2>1, <2>2, <2>3, <2>4, <2>5
<1>2. PICK f : Rule(f) /\ Bits(s, at_, length) = f[length]
  BY <1>1 DEF Bits
<1> HIDE DEF first, b, code
<1>3. \A n \in 1..length : f[n] = IF n = 1 THEN first ELSE f[n - 1] * 64 + b(n)
  BY <1>2
<1>4. f[1] = first /\ f[2] = two
  BY <1>3
<1>5. length >= 3 => f[3] = three
  BY <1>3, <1>4
<1>6. length = 4 => f[4] = four
  BY <1>3, <1>5
<1>7. Bits(s, at_, length) = CASE length = 2 -> two [] length = 3 -> three [] length = 4 -> four
  BY <1>2, <1>4, <1>5, <1>6
<1>8. b(2) = s[at_ + 1] % 64 /\ b(3) = s[at_ + 2] % 64 /\ b(4) = s[at_ + 3] % 64
  BY DEF b
<1> QED
  BY <1>7, <1>8 DEF first

\* There is a whole character of k bytes at p.
Char(s, p, k) ==
  \/ k = 1 /\ s[p] <= 127
  \/ /\ k \in 2..4 /\ k = Announced(s[p]) /\ p + k - 1 <= Len(s)
     /\ \A i \in p + 1..p + k - 1 : Continuation(s[i])
     /\ Acceptable(Bits(s, p, k), k)
     /\ Bits(s, p, k) = Replacement => s[p] = 239

CodeAt(s, p, k) == IF k = 1 THEN s[p] ELSE Bits(s, p, k)

\* What validate() asks of the character at p.
Sound(s, p) ==
  LET one == DecodeOne(s, p)
  IN  ~ (one.code = Replacement /\ s[p] # 239) /\ ~ (one.used = 1 /\ s[p] >= 128)

LEMMA AnnouncedIs ==
  ASSUME NEW byte \in Bytes
  PROVE  Announced(byte) \in {0, 2, 3, 4} /\ (byte <= 127 => Announced(byte) = 0)
BY DEF Announced, Bytes

LEMMA CharIs ==
  ASSUME NEW s \in Seq(Bytes), NEW p \in 1..Len(s)
  PROVE  LET one == DecodeOne(s, p)
         IN  /\ one.used \in 1..4 /\ p + one.used \in 1..Len(s) + 1
             /\ Sound(s, p) <=> Char(s, p, one.used)
             /\ \A k \in 1..4 : Char(s, p, k) => one.used = k
<1>0. s[p] \in Bytes
  BY ElementOfSeq
<1> DEFINE byte == s[p]
           length == Announced(byte)
           code == Bits(s, p, length)
           whole == /\ length > 0 /\ p + length - 1 <= Len(s)
                    /\ \A i \in p + 1..p + length - 1 : Continuation(s[i])
                    /\ Acceptable(code, length)
           one == DecodeOne(s, p)
<1>1. byte \in Nat /\ byte <= 255 /\ p \in Nat /\ Len(s) \in Nat /\ p <= Len(s)
  BY <1>0 DEF Bytes
<1>2. length \in {0, 2, 3, 4} /\ (byte <= 127 => length = 0)
  BY <1>0, AnnouncedIs
<1> HIDE DEF length
<1>3. one = IF byte <= 127 THEN [code |-> byte, used |-> 1]
            ELSE IF whole THEN [code |-> code, used |-> length]
            ELSE [code |-> Replacement, used |-> 1]
  BY DEF DecodeOne, length
<1>6. Sound(s, p) <=> ~ (one.code = Replacement /\ byte # 239) /\ ~ (one.used = 1 /\ byte >= 128)
  BY DEF Sound
<1> HIDE DEF one, byte, code
<1>4. byte > 127 /\ whole => one = [code |-> code, used |-> length]
  BY <1>1, <1>3
<1>5. byte > 127 /\ ~ whole => one = [code |-> Replacement, used |-> 1]
  BY <1>1, <1>3
<1>7. CASE byte <= 127
  <2>1. one.used = 1 /\ one.code = byte
    BY <1>3, <1>7
  <2>2. \A k \in 1..4 : Char(s, p, k) <=> k = 1
    BY <1>2, <1>7 DEF Char, byte, length
  <2>3. Sound(s, p)
    BY <1>1, <1>6, <1>7, <2>1 DEF Replacement
  <2> QED
    BY <1>1, <2>1, <2>2, <2>3 DEF one
<1>8. CASE byte > 127 /\ whole
  <2>1. one.used = length /\ one.code = code /\ length \in 2..4
    BY <1>2, <1>4, <1>8
  <2>2. \A k \in 1..4 : Char(s, p, k) <=> k = length /\ (code = Replacement => byte = 239)
    <3>1. ~ (byte <= 127)
      BY <1>1, <1>8
    <3> QED
      BY <1>8, <2>1, <3>1, SMTT(30) DEF Char, byte, length, code
  <2>3. Sound(s, p) <=> (code = Replacement => byte = 239)
    BY <1>1, <1>6, <1>8, <2>1
  <2>4. p + length \in 1..Len(s) + 1
    BY <1>1, <1>8, <2>1
  <2> QED
    BY <2>1, <2>2, <2>3, <2>4 DEF one
<1>9. CASE byte > 127 /\ ~ whole
  <2>1. one.used = 1 /\ one.code = Replacement
    BY <1>5, <1>9
  <2>2. \A k \in 1..4 : ~ Char(s, p, k)
    <3>1. ~ (byte <= 127)
      BY <1>1, <1>9
    <3>2. \A k \in 2..4 : k = length => ~ Char(s, p, k)
      BY <1>9, <3>1 DEF Char, byte, length, code
    <3> QED
      BY <3>1, <3>2 DEF Char, byte, length
  <2>3. ~ Sound(s, p)
    BY <1>1, <1>6, <1>9, <2>1
  <2> QED
    BY <1>1, <2>1, <2>2, <2>3 DEF one
<1> QED
  BY <1>1, <1>7, <1>8, <1>9

Closes(C, s) == \A c \in C \ {Len(s) + 1} : \E k \in 1..4 : Char(s, c, k) /\ c + k \in C

Cuts(C, s) == C \subseteq 1..Len(s) + 1 /\ 1 \in C /\ Closes(C, s)

LEMMA ValidIs ==
  ASSUME NEW s \in Seq(Bytes)
  PROVE  Validate(s) <=> \E C : Cuts(C, s)
<1> DEFINE n == Len(s)
           Good(p) == \E C \in SUBSET (p..n + 1) : p \in C /\ Closes(C, s)
           used(p) == DecodeOne(s, p).used
           Rule(f) == f = [p \in 1..n + 1 |->
                             \/ p > n
                             \/ LET one == DecodeOne(s, p)
                                IN  /\ ~ (one.code = Replacement /\ s[p] # 239)
                                    /\ ~ (one.used = 1 /\ s[p] >= 128)
                                    /\ f[p + one.used]]
           good == [p \in 1..n + 1 |-> Good(p)]
<1>1. n \in Nat
  OBVIOUS
<1>2. ASSUME NEW p \in 1..n + 1
      PROVE  Good(p) <=> p > n \/ (Sound(s, p) /\ Good(p + used(p)))
  <2>1. CASE p > n
    <3>1. p = n + 1
      BY <1>1, <2>1
    <3>2. {p} \in SUBSET (p..n + 1) /\ Closes({p}, s)
      BY <1>1, <3>1 DEF Closes
    <3> QED
      BY <2>1, <3>2
  <2>2. CASE p <= n
    <3>1. /\ p \in 1..n /\ used(p) \in 1..4 /\ p + used(p) \in 1..n + 1
          /\ Sound(s, p) <=> Char(s, p, used(p))
          /\ \A k \in 1..4 : Char(s, p, k) => used(p) = k
      BY <1>1, <2>2, CharIs
    <3> HIDE DEF used
    <3>2. PICK q \in 1..n + 1 : q = p + used(p) /\ q > p /\ p \in Int
      BY <1>1, <3>1
    <3>3. ASSUME Good(p) PROVE Sound(s, p) /\ Good(q)
      <4>1. PICK C \in SUBSET (p..n + 1) : p \in C /\ Closes(C, s)
        BY <3>3
      <4>2. PICK k \in 1..4 : Char(s, p, k) /\ p + k \in C
        BY <1>1, <3>1, <4>1 DEF Closes
      <4>3. k = used(p) /\ q \in C
        BY <3>1, <3>2, <4>2
      <4> DEFINE D == {c \in C : c >= q}
      <4>4. D \in SUBSET (q..n + 1) /\ q \in D
        <5>1. q \in Int /\ q >= q /\ \A c \in C : c \in Int /\ c <= n + 1
          BY <1>1, <4>1
        <5>2. \A c \in D : c \in q..n + 1
          BY <1>1, <5>1
        <5> QED
          BY <4>3, <5>1, <5>2
      <4>5. Closes(D, s)
        <5> SUFFICES ASSUME NEW c \in D \ {n + 1} PROVE \E j \in 1..4 : Char(s, c, j) /\ c + j \in D
          BY DEF Closes
        <5>1. PICK j \in 1..4 : Char(s, c, j) /\ c + j \in C
          BY <4>1 DEF Closes
        <5>2. c \in Int /\ c + j >= q
          BY <1>1, <3>2, <4>1
        <5> QED
          BY <5>1, <5>2
      <4> QED
        BY <3>1, <4>2, <4>3, <4>4, <4>5
    <3>4. ASSUME Sound(s, p), Good(q) PROVE Good(p)
      <4>1. PICK C \in SUBSET (q..n + 1) : q \in C /\ Closes(C, s)
        BY <3>4
      <4> DEFINE D == C \cup {p}
      <4>2. D \in SUBSET (p..n + 1) /\ p \in D
        BY <1>1, <3>1, <3>2, <4>1
      <4>3. Closes(D, s)
        <5> SUFFICES ASSUME NEW c \in D \ {n + 1} PROVE \E j \in 1..4 : Char(s, c, j) /\ c + j \in D
          BY DEF Closes
        <5>1. CASE c = p
          BY <3>1, <3>2, <3>4, <4>1, <5>1
        <5>2. CASE c \in C
          BY <4>1, <5>2 DEF Closes
        <5> QED
          BY <5>1, <5>2
      <4> QED
        BY <4>2, <4>3
    <3> HIDE DEF Good
    <3>5. ~ (p > n)
      BY <1>1, <2>2
    <3> QED
      BY <3>2, <3>3, <3>4, <3>5
  <2> QED
    BY <1>1, <2>1, <2>2
<1>3. \A p \in 1..n : used(p) \in 1..4 /\ p + used(p) \in 1..n + 1
  BY CharIs
<1> HIDE DEF Good, used
<1>4. Rule(good)
  <2> SUFFICES ASSUME NEW p \in 1..n + 1
               PROVE  good[p] = (p > n \/ (Sound(s, p) /\ good[p + used(p)]))
    BY DEF Sound, used
  <2>1. CASE p > n
    BY <1>2, <2>1
  <2>2. CASE ~ (p > n)
    <3>1. p \in 1..n
      BY <1>1, <2>2
    <3>2. good[p] = Good(p) /\ good[p + used(p)] = Good(p + used(p))
      BY <1>3, <3>1
    <3>3. Good(p) \in BOOLEAN /\ Good(p + used(p)) \in BOOLEAN
      BY DEF Good
    <3> QED
      BY <1>2, <2>2, <3>2, <3>3
  <2> QED
    BY <2>1, <2>2
<1>5. PICK f : Rule(f) /\ Validate(s) = f[1]
  BY <1>4 DEF Validate
<1> HIDE DEF good
<1>6. \A p \in 1..n + 1 : f[p] = (p > n \/ (Sound(s, p) /\ f[p + used(p)]))
  BY <1>5 DEF Sound, used
<1> HIDE DEF Rule
<1> DEFINE T == {k \in 0..n : ~ (f[n + 1 - k] <=> Good(n + 1 - k))}
<1>7. T = {}
  <2> SUFFICES ASSUME T # {} PROVE FALSE
    OBVIOUS
  <2>1. PICK k \in T : \A j \in T : k <= j
    <3>1. T \subseteq Nat
      BY <1>1
    <3> HIDE DEF T
    <3> QED
      BY <3>1, LeastNat
  <2>2. PICK p \in 1..n + 1 : p = n + 1 - k /\ ~ (f[p] <=> Good(p)) /\ k \in 0..n
    BY <1>1
  <2>3. CASE p > n
    BY <1>2, <1>6, <2>2, <2>3
  <2>4. CASE ~ (p > n)
    <3>1. p \in 1..n
      BY <1>1, <2>2, <2>4
    <3>0. p + used(p) \in 1..n + 1 /\ p + used(p) > p
      BY <1>1, <1>3, <3>1
    <3>2. PICK q \in 1..n + 1 : q = p + used(p) /\ q > p
      <4> HIDE DEF used
      <4> QED
        BY <3>0
    <3> DEFINE j == n + 1 - q
    <3>3. j \in 0..n /\ j < k /\ n + 1 - j = q
      BY <1>1, <2>2, <3>2, SMTT(30)
    <3>4. j \notin T
      <4> HIDE DEF T, j
      <4>1. k \in 0..n /\ j \in 0..n
        BY <2>2, <3>3
      <4> QED
        BY <1>1, <2>1, <3>3, <4>1
    <3> HIDE DEF j
    <3>5. f[q] <=> Good(q)
      BY <3>3, <3>4
    <3> HIDE DEF T
    <3> QED
      <4>1. Good(p) <=> Sound(s, p) /\ Good(q)
        BY <1>2, <2>2, <2>4, <3>2
      <4>2. f[p] = (p > n \/ (Sound(s, p) /\ f[q]))
        BY <1>6, <2>2, <3>2
      <4>3. f[p] <=> Sound(s, p) /\ f[q]
        BY <2>4, <4>2
      <4> QED
        BY <2>2, <3>5, <4>1, <4>3
  <2> QED
    BY <2>3, <2>4
<1>8. f[1] <=> Good(1)
  <2>1. n \in 0..n /\ n + 1 - n = 1
    BY <1>1
  <2> QED
    BY <1>7, <2>1
<1>9. Good(1) <=> \E C : Cuts(C, s)
  BY DEF Good, Cuts
<1>10. Validate(s) \in BOOLEAN
  <2>1. 1 \in 1..n + 1
    BY <1>1
  <2>2. f[1] \in BOOLEAN
    BY <1>6, <2>1
  <2> QED
    BY <1>5, <2>2
<1> QED
  BY <1>5, <1>8, <1>9, <1>10

\* A character stays one wherever its bytes are.
LEMMA CharStays ==
  ASSUME NEW s \in Seq(Bytes), NEW t \in Seq(Bytes), NEW p \in 1..Len(s), NEW k \in 1..4,
         Char(s, p, k), p + k - 1 <= Len(s), p + k - 1 <= Len(t),
         \A i \in p..p + k - 1 : t[i] = s[i]
  PROVE  Char(t, p, k)
<1>1. p \in Nat /\ t[p] = s[p]
  OBVIOUS
<1>2. CASE k = 1
  <2>1. s[p] <= 127
    BY <1>2 DEF Char
  <2> QED
    BY <1>1, <1>2, <2>1 DEF Char
<1>3. CASE k \in 2..4
  <2>1. \A i \in p + 1..p + k - 1 : t[i] = s[i]
    BY <1>1, <1>3, SMTT(30)
  <2>2. p + 1 \in p + 1..p + k - 1 /\ (k >= 3 => p + 2 \in p + 1..p + k - 1) /\ (k = 4 => p + 3 \in p + 1..p + k - 1)
    BY <1>1, <1>3
  <2>3. t[p + 1] = s[p + 1] /\ (k >= 3 => t[p + 2] = s[p + 2]) /\ (k = 4 => t[p + 3] = s[p + 3])
    BY <2>1, <2>2
  <2>4. Bits(t, p, k) = Bits(s, p, k)
    <3>1. CASE k = 2
      BY <1>1, <1>3, <2>3, <3>1, BitsAre
    <3>2. CASE k = 3
      BY <1>1, <1>3, <2>3, <3>2, BitsAre
    <3>3. CASE k = 4
      BY <1>1, <1>3, <2>3, <3>3, BitsAre
    <3> QED
      BY <1>3, <3>1, <3>2, <3>3
  <2>5. k # 1
    BY <1>3
  <2> QED
    BY <1>1, <1>3, <2>1, <2>4, <2>5 DEF Char
<1> QED
  BY <1>2, <1>3

\* The bytes of a code point are a character.
Scalars == {c \in Nat : c <= 1114111 /\ ~ Surrogate(c)}

LEMMA EncodeIs ==
  ASSUME NEW c \in Scalars
  PROVE  /\ Encode(c) \in Seq(Bytes) /\ Len(Encode(c)) \in 1..4
         /\ \A u, p : /\ p \in Nat /\ p + Len(Encode(c)) - 1 <= Len(u)
                      /\ \A i \in 1..Len(Encode(c)) : u[p + i - 1] = Encode(c)[i]
                      => Char(u, p, Len(Encode(c))) /\ CodeAt(u, p, Len(Encode(c))) = c
<1> DEFINE tail(unit) == 128 + ((c \div unit) % 64)
<1>0. c \in Nat /\ c <= 1114111 /\ ~ (c >= 55296 /\ c <= 57343)
  BY DEF Scalars, Surrogate
<1>1. Encode(c) = IF c <= 127 THEN <<c>>
                  ELSE IF c <= 2047 THEN <<192 + c \div 64, tail(1)>>
                  ELSE IF c <= 65535 THEN <<224 + c \div 4096, tail(64), tail(1)>>
                  ELSE <<240 + c \div 262144, tail(4096), tail(64), tail(1)>>
  BY <1>0 DEF Encode, Surrogate
<1>2. /\ tail(1) \in Bytes /\ tail(64) \in Bytes /\ tail(4096) \in Bytes
      /\ tail(1) % 64 = c % 64 /\ tail(64) % 64 = (c \div 64) % 64 /\ tail(4096) % 64 = (c \div 4096) % 64
  BY <1>0 DEF Bytes
<1>3. Continuation(tail(1)) /\ Continuation(tail(64)) /\ Continuation(tail(4096))
  BY <1>0 DEF Continuation
<1> HIDE DEF tail
<1>4. CASE c <= 127
  <2>1. Encode(c) = <<c>>
    BY <1>1, <1>4
  <2>2. c \in Bytes
    BY <1>0, <1>4 DEF Bytes
  <2> QED
    BY <1>0, <1>4, <2>1, <2>2 DEF Char, CodeAt
<1>5. CASE c > 127 /\ c <= 2047
  <2> DEFINE b1 == 192 + c \div 64
             b2 == tail(1)
  <2>1. Encode(c) = <<b1, b2>>
    BY <1>0, <1>1, <1>5
  <2>2. b1 \in 194..223 /\ b1 % 32 = c \div 64 /\ c = (c \div 64) * 64 + (c % 64)
    BY <1>0, <1>5
  <2>3. Announced(b1) = 2
    BY <2>2 DEF Announced
  <2> HIDE DEF b1, b2
  <2>4. b1 \in Bytes /\ b2 \in Bytes
    BY <1>2, <2>2 DEF Bytes, b2
  <2>5. <<b1, b2>> \in Seq(Bytes) /\ Len(<<b1, b2>>) = 2
    BY <2>4
  <2>6. ASSUME NEW u, NEW p \in Nat, p + 1 <= Len(u), u[p] = b1, u[p + 1] = b2
        PROVE  Char(u, p, 2) /\ CodeAt(u, p, 2) = c
    <3>1. Bits(u, p, 2) = (b1 % 32) * 64 + (b2 % 64)
      BY <2>6, BitsAre DEF FirstBits
    <3>2. Bits(u, p, 2) = c
      BY <1>2, <2>2, <3>1 DEF b2
    <3>3. Acceptable(c, 2) /\ c # Replacement
      BY <1>0, <1>5 DEF Acceptable, Minimum, Surrogate, Replacement
    <3>4. \A i \in p + 1..p + 2 - 1 : Continuation(u[i])
      <4>1. \A i \in p + 1..p + 2 - 1 : i = p + 1
        OBVIOUS
      <4> QED
        BY <1>2, <1>3, <2>6, <4>1 DEF b2
    <3> QED
      BY <2>3, <2>6, <3>2, <3>3, <3>4 DEF Char, CodeAt
  <2> QED
    BY <2>1, <2>5, <2>6
<1>6. CASE c > 2047 /\ c <= 65535
  <2> DEFINE b1 == 224 + c \div 4096
             b2 == tail(64)
             b3 == tail(1)
  <2>1. Encode(c) = <<b1, b2, b3>>
    BY <1>0, <1>1, <1>6
  <2>2. b1 \in 224..239 /\ b1 % 16 = c \div 4096
        /\ c = ((c \div 4096) * 64 + ((c \div 64) % 64)) * 64 + (c % 64)
    BY <1>0, <1>6
  <2>3. Announced(b1) = 3
    BY <2>2 DEF Announced
  <2>4. c = 65533 => b1 = 239
    BY <1>0, <1>6
  <2> HIDE DEF b1, b2, b3
  <2>5. b1 \in Bytes /\ b2 \in Bytes /\ b3 \in Bytes
    BY <1>2, <2>2 DEF Bytes, b2, b3
  <2>6. <<b1, b2, b3>> \in Seq(Bytes) /\ Len(<<b1, b2, b3>>) = 3
    BY <2>5
  <2>7. ASSUME NEW u, NEW p \in Nat, p + 2 <= Len(u), u[p] = b1, u[p + 1] = b2, u[p + 2] = b3
        PROVE  Char(u, p, 3) /\ CodeAt(u, p, 3) = c
    <3>1. Bits(u, p, 3) = ((b1 % 16) * 64 + (b2 % 64)) * 64 + (b3 % 64)
      BY <2>7, BitsAre DEF FirstBits
    <3>2. Bits(u, p, 3) = c
      BY <1>2, <2>2, <3>1 DEF b2, b3
    <3>3. Acceptable(c, 3) /\ (c = Replacement => b1 = 239)
      BY <1>0, <1>6, <2>4 DEF Acceptable, Minimum, Surrogate, Replacement
    <3>4. \A i \in p + 1..p + 3 - 1 : Continuation(u[i])
      <4>1. \A i \in p + 1..p + 3 - 1 : i = p + 1 \/ i = p + 2
        OBVIOUS
      <4> QED
        BY <1>2, <1>3, <2>7, <4>1 DEF b2, b3
    <3> QED
      BY <2>3, <2>7, <3>2, <3>3, <3>4 DEF Char, CodeAt
  <2> QED
    BY <2>1, <2>6, <2>7
<1>7. CASE c > 65535
  <2> DEFINE b1 == 240 + c \div 262144
             b2 == tail(4096)
             b3 == tail(64)
             b4 == tail(1)
  <2>1. Encode(c) = <<b1, b2, b3, b4>>
    BY <1>0, <1>1, <1>7
  <2>2. b1 \in 240..244 /\ b1 % 8 = c \div 262144
        /\ c = (((c \div 262144) * 64 + ((c \div 4096) % 64)) * 64 + ((c \div 64) % 64)) * 64 + (c % 64)
    BY <1>0, <1>7
  <2>3. Announced(b1) = 4
    BY <2>2 DEF Announced
  <2> HIDE DEF b1, b2, b3, b4
  <2>5. b1 \in Bytes /\ b2 \in Bytes /\ b3 \in Bytes /\ b4 \in Bytes
    BY <1>2, <2>2 DEF Bytes, b2, b3, b4
  <2>6. <<b1, b2, b3, b4>> \in Seq(Bytes) /\ Len(<<b1, b2, b3, b4>>) = 4
    BY <2>5
  <2>7. ASSUME NEW u, NEW p \in Nat, p + 3 <= Len(u),
               u[p] = b1, u[p + 1] = b2, u[p + 2] = b3, u[p + 3] = b4
        PROVE  Char(u, p, 4) /\ CodeAt(u, p, 4) = c
    <3>1. Bits(u, p, 4) = (((b1 % 8) * 64 + (b2 % 64)) * 64 + (b3 % 64)) * 64 + (b4 % 64)
      BY <2>7, BitsAre, SMTT(30) DEF FirstBits
    <3>2. Bits(u, p, 4) = c
      BY <1>2, <2>2, <3>1 DEF b2, b3, b4
    <3>3. Acceptable(c, 4) /\ c # Replacement
      BY <1>0, <1>7 DEF Acceptable, Minimum, Surrogate, Replacement
    <3>4. \A i \in p + 1..p + 4 - 1 : Continuation(u[i])
      <4>1. \A i \in p + 1..p + 4 - 1 : i = p + 1 \/ i = p + 2 \/ i = p + 3
        OBVIOUS
      <4> QED
        BY <1>2, <1>3, <2>7, <4>1 DEF b2, b3, b4
    <3> QED
      BY <2>3, <2>7, <3>2, <3>3, <3>4 DEF Char, CodeAt
  <2> QED
    BY <2>1, <2>6, <2>7
<1>8. c <= 127 \/ (c > 127 /\ c <= 2047) \/ (c > 2047 /\ c <= 65535) \/ c > 65535
  BY <1>0
<1> QED
  BY <1>4, <1>5, <1>6, <1>7, <1>8

LEMMA AnnouncedBetween ==
  ASSUME NEW b \in Nat
  PROVE  /\ Announced(b) = 2 => b >= 194 /\ b <= 223
         /\ Announced(b) = 3 => b >= 224 /\ b <= 239
         /\ Announced(b) = 4 => b >= 240 /\ b <= 244
<1>1. CASE b >= 194 /\ b <= 223
  <2>1. b \in 194..223
    BY <1>1
  <2>2. Announced(b) = 2
    BY <2>1 DEF Announced
  <2> QED
    BY <1>1, <2>2
<1>2. CASE b >= 224 /\ b <= 239
  <2>1. b \in 224..239
    BY <1>2
  <2>2. Announced(b) = 3
    BY <2>1 DEF Announced
  <2> QED
    BY <1>2, <2>2
<1>3. CASE b >= 240 /\ b <= 244
  <2>1. b \in 240..244
    BY <1>3
  <2>2. Announced(b) = 4
    BY <2>1 DEF Announced
  <2> QED
    BY <1>3, <2>2
<1>4. CASE b < 194 \/ b > 244
  <2>1. b \notin 194..223 /\ b \notin 224..239 /\ b \notin 240..244
    BY <1>4
  <2>2. Announced(b) = 0
    BY <2>1 DEF Announced
  <2> QED
    BY <2>2
<1> QED
  BY <1>1, <1>2, <1>3, <1>4

\* The sequences of two to four bytes that are decoded are those of the standard's table.
LEMMA WellFormedIs ==
  ASSUME NEW s \in Seq(Bytes), NEW p \in 1..Len(s), NEW k \in 2..4
  PROVE  /\ Char(s, p, k) <=> WellFormedAt(s, p, k)
         /\ Char(s, p, k) <=> /\ k = Announced(s[p]) /\ p + k - 1 <= Len(s)
                              /\ \A i \in p + 1..p + k - 1 : Continuation(s[i])
                              /\ Acceptable(Bits(s, p, k), k)
<1> DEFINE byte == s[p]
           Taken2 == k = Announced(byte) /\ p + k - 1 <= Len(s)
           Tails == \A i \in p + 1..p + k - 1 : Continuation(s[i])
           code == Bits(s, p, k)
           x == s[p + 1]
           y == s[p + 2]
           z == s[p + 3]
           least == IF byte = 224 THEN 160 ELSE IF byte = 240 THEN 144 ELSE 128
           most == IF byte = 237 THEN 159 ELSE IF byte = 244 THEN 143 ELSE 191
           Rest == \A i \in p + 2..p + k - 1 : 128 <= s[i] /\ s[i] <= 191
<1>0. \A i \in 1..Len(s) : s[i] \in Nat /\ s[i] <= 255
  <2>1. \A i \in 1..Len(s) : s[i] \in Bytes
    BY ElementOfSeq
  <2> QED
    BY <2>1 DEF Bytes
<1>1. p \in Nat /\ Len(s) \in Nat /\ p <= Len(s) /\ byte \in Nat /\ byte <= 255
  BY <1>0
<1>2. Char(s, p, k) <=> Taken2 /\ Tails /\ Acceptable(code, k) /\ (code = Replacement => byte = 239)
  BY DEF Char
<1>3. Taken2 => x \in Nat /\ x <= 255 /\ (k >= 3 => y \in Nat /\ y <= 255) /\ (k = 4 => z \in Nat /\ z <= 255)
  BY <1>0, <1>1, SMTT(30)
<1>4. ASSUME Taken2, NEW i \in p + 1..p + k - 1
      PROVE  s[i] \in Nat /\ s[i] <= 255 /\ (Continuation(s[i]) <=> s[i] >= 128 /\ s[i] <= 191)
  <2>1. s[i] \in Nat /\ s[i] <= 255
    BY <1>0, <1>1, <1>4
  <2> DEFINE b == s[i]
  <2> HIDE DEF b
  <2>2. b \in Nat /\ b <= 255 => (b \div 64 = 2 <=> b >= 128 /\ b <= 191)
    OBVIOUS
  <2> QED
    BY <2>1, <2>2 DEF Continuation, b
<1>5. WellFormedAt(s, p, k) <=> Taken2 /\ least <= x /\ x <= most /\ Rest
  BY DEF WellFormedAt
<1>6. byte \in Nat /\ k = Announced(byte) =>
        /\ k = 2 => byte >= 194 /\ byte <= 223
        /\ k = 3 => byte >= 224 /\ byte <= 239
        /\ k = 4 => byte >= 240 /\ byte <= 244
  BY AnnouncedBetween
<1> HIDE DEF byte, x, y, z, code
<1>7. Taken2 /\ Tails => x >= 128 /\ x <= 191 /\ (k >= 3 => y >= 128 /\ y <= 191) /\ (k = 4 => z >= 128 /\ z <= 191)
  <2> SUFFICES ASSUME Taken2, Tails
               PROVE  x >= 128 /\ x <= 191 /\ (k >= 3 => y >= 128 /\ y <= 191) /\ (k = 4 => z >= 128 /\ z <= 191)
    OBVIOUS
  <2>1. \A i \in p + 1..p + k - 1 : s[i] >= 128 /\ s[i] <= 191
    BY <1>4
  <2>2. p + 1 \in p + 1..p + k - 1 /\ (k >= 3 => p + 2 \in p + 1..p + k - 1) /\ (k = 4 => p + 3 \in p + 1..p + k - 1)
    BY <1>1
  <2> QED
    BY <2>1, <2>2 DEF x, y, z
<1>8. Taken2 /\ least <= x /\ x <= most /\ Rest => Tails
  <2> SUFFICES ASSUME Taken2, least <= x, x <= most, Rest, NEW i \in p + 1..p + k - 1
               PROVE  Continuation(s[i])
    OBVIOUS
  <2>1. x >= 128 /\ x <= 191
    BY <1>3
  <2>2. CASE i = p + 1
    BY <1>4, <2>1, <2>2 DEF x
  <2>3. CASE i # p + 1
    <3>1. i \in p + 2..p + k - 1
      BY <1>1, <2>3
    <3> QED
      BY <1>4, <3>1
  <2> QED
    BY <2>2, <2>3
<1>9. Tails /\ Taken2 => Rest
  <2> SUFFICES ASSUME Tails, Taken2, NEW i \in p + 2..p + k - 1
               PROVE  128 <= s[i] /\ s[i] <= 191
    OBVIOUS
  <2>1. i \in p + 1..p + k - 1
    BY <1>1
  <2> QED
    BY <1>4, <2>1
<1>10. ASSUME Taken2, Tails
       PROVE  (Acceptable(code, k) <=> least <= x /\ x <= most) /\ (Acceptable(code, k) /\ code = Replacement => byte = 239)
  <2>1. /\ x \in Nat /\ x >= 128 /\ x <= 191 /\ x % 64 = x - 128
        /\ k >= 3 => y \in Nat /\ y >= 128 /\ y <= 191 /\ y % 64 = y - 128
        /\ k = 4 => z \in Nat /\ z >= 128 /\ z <= 191 /\ z % 64 = z - 128
    <3>1. \A b \in Nat : b >= 128 /\ b <= 191 => b % 64 = b - 128
      OBVIOUS
    <3>2. x \in Nat /\ x >= 128 /\ x <= 191 /\ (k >= 3 => y \in Nat /\ y >= 128 /\ y <= 191)
          /\ (k = 4 => z \in Nat /\ z >= 128 /\ z <= 191)
      BY <1>3, <1>7, <1>10
    <3> QED
      BY <3>1, <3>2
  <2>2. CASE k = 2
    <3>1. code = (byte % 32) * 64 + (x % 64)
      BY <2>2, BitsAre DEF FirstBits, code, byte, x
    <3>2. byte >= 194 /\ byte <= 223 /\ byte % 32 = byte - 192
      BY <1>1, <1>6, <1>10, <2>2
    <3>3. code = (byte - 192) * 64 + (x - 128)
      BY <2>1, <3>1, <3>2
    <3>4. code >= 128 /\ code <= 2047
      BY <1>1, <2>1, <3>2, <3>3
    <3>5. Acceptable(code, k) /\ code # Replacement
      BY <1>1, <2>1, <2>2, <3>3, <3>4, SMTT(30) DEF Acceptable, Minimum, Surrogate, Replacement
    <3> QED
      BY <1>1, <2>1, <3>2, <3>5
  <2>3. CASE k = 3
    <3>1. code = ((byte % 16) * 64 + (x % 64)) * 64 + (y % 64)
      BY <2>3, BitsAre DEF FirstBits, code, byte, x, y
    <3>2. byte >= 224 /\ byte <= 239 /\ byte % 16 = byte - 224
      BY <1>1, <1>6, <1>10, <2>3
    <3>0. /\ byte \in Int /\ x \in Int /\ y \in Int /\ x >= 128 /\ x <= 191 /\ y >= 128 /\ y <= 191
          /\ x % 64 = x - 128 /\ y % 64 = y - 128
      BY <1>1, <2>1, <2>3
    <3>3a. code = ((byte - 224) * 64 + (x - 128)) * 64 + (y - 128)
      BY <3>0, <3>1, <3>2
    <3>3. code \in Int /\ code = byte * 4096 + x * 64 + y - 925824
      BY <3>0, <3>3a
    <3>4. Acceptable(code, k) <=> code >= 2048 /\ code <= 1114111 /\ ~ (code >= 55296 /\ code <= 57343)
      BY <2>3 DEF Acceptable, Minimum, Surrogate
    <3>5. (code >= 2048 <=> ~ (byte = 224 /\ x < 160)) /\ code <= 65535
          /\ (code >= 55296 /\ code <= 57343 <=> byte = 237 /\ x >= 160)
          /\ (code = 65533 => byte = 239)
      BY <3>0, <3>2, <3>3
    <3> QED
      BY <1>1, <2>1, <2>3, <3>2, <3>3, <3>4, <3>5, SMTT(30) DEF Replacement
  <2>4. CASE k = 4
    <3>1. code = (((byte % 8) * 64 + (x % 64)) * 64 + (y % 64)) * 64 + (z % 64)
      BY <2>4, BitsAre DEF FirstBits, code, byte, x, y, z
    <3>2. byte >= 240 /\ byte <= 244 /\ byte % 8 = byte - 240
      BY <1>1, <1>6, <1>10, <2>4
    <3>3. /\ byte \in Int /\ x \in Int /\ y \in Int /\ z \in Int
          /\ x >= 128 /\ x <= 191 /\ y >= 128 /\ y <= 191 /\ z >= 128 /\ z <= 191
          /\ x % 64 = x - 128 /\ y % 64 = y - 128 /\ z % 64 = z - 128
      BY <1>1, <2>1, <2>4
    <3>3a. code = (((byte - 240) * 64 + (x - 128)) * 64 + (y - 128)) * 64 + (z - 128)
      BY <3>1, <3>2, <3>3
    <3>3b. code \in Int /\ code = byte * 262144 + x * 4096 + y * 64 + z - 63447168
      BY <3>3, <3>3a
    <3>4. Acceptable(code, k) <=> code >= 65536 /\ code <= 1114111 /\ ~ (code >= 55296 /\ code <= 57343)
      BY <2>4 DEF Acceptable, Minimum, Surrogate
    <3>5. (code >= 65536 <=> ~ (byte = 240 /\ x < 144)) /\ (code <= 1114111 <=> ~ (byte = 244 /\ x > 143))
      <4>1. code >= 65536 <=> ~ (byte = 240 /\ x < 144)
        BY <3>2, <3>3, <3>3b
      <4>2. code <= 1114111 <=> ~ (byte = 244 /\ x > 143)
        BY <3>2, <3>3, <3>3b
      <4> QED
        BY <4>1, <4>2
    <3>6. code >= 65536 => code # 65533 /\ ~ (code >= 55296 /\ code <= 57343)
      BY <3>3b
    <3>7. Acceptable(code, k) <=> ~ (byte = 240 /\ x < 144) /\ ~ (byte = 244 /\ x > 143)
      BY <3>3b, <3>4, <3>5, <3>6
    <3>8. least <= x /\ x <= most <=> ~ (byte = 240 /\ x < 144) /\ ~ (byte = 244 /\ x > 143)
      BY <1>1, <3>2, <3>3
    <3>9. Acceptable(code, k) => code # Replacement
      BY <3>3b, <3>4, <3>6 DEF Replacement
    <3> QED
      BY <3>7, <3>8, <3>9
  <2> QED
    BY <2>2, <2>3, <2>4
<1>11. Char(s, p, k) <=> Taken2 /\ Tails /\ Acceptable(code, k)
  BY <1>2, <1>10
<1>12. Char(s, p, k) <=> WellFormedAt(s, p, k)
  <2> HIDE DEF least, most, Rest, Tails, Taken2
  <2> QED
    BY <1>2, <1>5, <1>8, <1>9, <1>10
<1> QED
  BY <1>11, <1>12 DEF byte, code

\* What is decoded is the whole character, if there is one.
LEMMA DecodedIs ==
  ASSUME NEW s \in Seq(Bytes), NEW p \in 1..Len(s)
  PROVE  /\ \A k \in 1..4 : Char(s, p, k) => DecodeOne(s, p) = [code |-> CodeAt(s, p, k), used |-> k]
         /\ DecodeOne(s, p).used > 1 => \E k \in 2..4 : Char(s, p, k)
<1> DEFINE byte == s[p]
           length == Announced(byte)
           whole == /\ length > 0 /\ p + length - 1 <= Len(s)
                    /\ \A i \in p + 1..p + length - 1 : Continuation(s[i])
                    /\ Acceptable(Bits(s, p, length), length)
           one == DecodeOne(s, p)
<1>0. byte \in Bytes /\ byte \in Nat
  <2>1. byte \in Bytes
    BY ElementOfSeq
  <2> QED
    BY <2>1 DEF Bytes
<1>1. length \in {0, 2, 3, 4} /\ (byte <= 127 => length = 0)
  BY <1>0, AnnouncedIs
<1>2. one = IF byte <= 127 THEN [code |-> byte, used |-> 1]
            ELSE IF whole THEN [code |-> Bits(s, p, length), used |-> length]
            ELSE [code |-> Replacement, used |-> 1]
  BY DEF DecodeOne
<1>3. whole => length \in 2..4 /\ Char(s, p, length)
  <2> SUFFICES ASSUME whole PROVE length \in 2..4 /\ Char(s, p, length)
    OBVIOUS
  <2>1. length \in 2..4
    BY <1>1
  <2> QED
    BY <2>1, WellFormedIs
<1>4. ASSUME NEW k \in 2..4, Char(s, p, k) PROVE whole /\ k = length /\ ~ (byte <= 127)
  <2>1. /\ k = length /\ p + k - 1 <= Len(s)
        /\ \A i \in p + 1..p + k - 1 : Continuation(s[i])
        /\ Acceptable(Bits(s, p, k), k)
    BY <1>4, WellFormedIs
  <2> QED
    BY <1>1, <2>1
<1> HIDE DEF one, whole, length
<1>5. ASSUME NEW k \in 1..4, Char(s, p, k) PROVE one = [code |-> CodeAt(s, p, k), used |-> k]
  <2>1. CASE k = 1
    <3>1. byte <= 127
      BY <1>5, <2>1 DEF Char
    <3> QED
      BY <1>2, <2>1, <3>1 DEF CodeAt
  <2>2. CASE k # 1
    <3>1. k \in 2..4
      BY <2>2
    <3>2. whole /\ k = length /\ ~ (byte <= 127)
      BY <1>4, <1>5, <3>1
    <3> QED
      BY <1>2, <2>2, <3>2 DEF CodeAt
  <2> QED
    BY <2>1, <2>2
<1>6. one.used > 1 => \E k \in 2..4 : Char(s, p, k)
  <2>1. ~ whole \/ byte <= 127 => one.used = 1
    BY <1>2
  <2>2. 1 > 1 <=> FALSE
    OBVIOUS
  <2> QED
    BY <1>3, <2>1, <2>2
<1> QED
  BY <1>5, <1>6 DEF one

\* Whatever the bytes, more than one is decoded at a place exactly if the Unicode standard's
\* table has a sequence there; a text is valid exactly if it can be cut into single ASCII
\* bytes and sequences of the table; and a code point is decoded from the bytes it is
\* encoded as (utf8::decode_one(), validate(), encode()).
THEOREM Utf8IsTheStandard ==
  ASSUME NEW s \in Seq(Bytes)
  PROVE  /\ \A p \in 1..Len(s) :
              s[p] >= 128 => (DecodeOne(s, p).used > 1 <=> \E k \in 2..4 : WellFormedAt(s, p, k))
         /\ Validate(s) <=>
              \E C \in SUBSET (1..Len(s) + 1) :
                /\ 1 \in C
                /\ \A c \in C \ {Len(s) + 1} :
                     \/ s[c] <= 127 /\ c + 1 \in C
                     \/ \E k \in 2..4 : WellFormedAt(s, c, k) /\ c + k \in C
         /\ \A c \in Scalars : s = Encode(c) =>
              Validate(s) /\ DecodeOne(s, 1) = [code |-> c, used |-> Len(s)]
<1>1. ASSUME NEW p \in 1..Len(s)
      PROVE  DecodeOne(s, p).used > 1 <=> \E k \in 2..4 : WellFormedAt(s, p, k)
  <2>1. DecodeOne(s, p).used > 1 => \E k \in 2..4 : WellFormedAt(s, p, k)
    BY DecodedIs, WellFormedIs
  <2>2. ASSUME NEW k \in 2..4, WellFormedAt(s, p, k) PROVE DecodeOne(s, p).used > 1
    <3>1. Char(s, p, k)
      BY <2>2, WellFormedIs
    <3>2. k \in 1..4 /\ k > 1
      OBVIOUS
    <3>3. DecodeOne(s, p) = [code |-> CodeAt(s, p, k), used |-> k]
      BY <3>1, <3>2, DecodedIs
    <3> QED
      BY <3>2, <3>3
  <2> QED
    BY <2>1, <2>2
<1>2. ASSUME NEW C \in SUBSET (1..Len(s) + 1)
      PROVE  Closes(C, s) <=>
               \A c \in C \ {Len(s) + 1} :
                 \/ s[c] <= 127 /\ c + 1 \in C
                 \/ \E k \in 2..4 : WellFormedAt(s, c, k) /\ c + k \in C
  <2>1. ASSUME NEW c \in C \ {Len(s) + 1}
        PROVE  (\E k \in 1..4 : Char(s, c, k) /\ c + k \in C) <=>
                 \/ s[c] <= 127 /\ c + 1 \in C
                 \/ \E k \in 2..4 : WellFormedAt(s, c, k) /\ c + k \in C
    <3>1. c \in 1..Len(s)
      <4>1. Len(s) \in Nat
        OBVIOUS
      <4> QED
        BY <4>1
    <3>2. Char(s, c, 1) <=> s[c] <= 127
      BY DEF Char
    <3>3. \A k \in 2..4 : Char(s, c, k) <=> WellFormedAt(s, c, k)
      BY <3>1, WellFormedIs
    <3>4. \A k : k \in 1..4 <=> k = 1 \/ k \in 2..4
      OBVIOUS
    <3> QED
      BY <3>2, <3>3, <3>4
  <2> QED
    BY <2>1 DEF Closes
<1>3. Validate(s) <=> \E C \in SUBSET (1..Len(s) + 1) : 1 \in C /\ Closes(C, s)
  BY ValidIs DEF Cuts
<1>4. ASSUME NEW c \in Scalars, s = Encode(c)
      PROVE  Validate(s) /\ DecodeOne(s, 1) = [code |-> c, used |-> Len(s)]
  <2>1. Len(s) \in 1..4 /\ Char(s, 1, Len(s)) /\ CodeAt(s, 1, Len(s)) = c
    <3>1. Len(s) \in 1..4
      BY <1>4, EncodeIs
    <3>2. 1 \in Nat /\ 1 + Len(s) - 1 <= Len(s) /\ \A i \in 1..Len(s) : s[1 + i - 1] = s[i]
      BY <3>1
    <3> QED
      BY <1>4, <3>1, <3>2, EncodeIs
  <2>2. 1 \in 1..Len(s)
    BY <2>1
  <2>3. DecodeOne(s, 1) = [code |-> c, used |-> Len(s)]
    BY <2>1, <2>2, DecodedIs
  <2>4. Cuts({1, Len(s) + 1}, s)
    <3> DEFINE C == {1, Len(s) + 1}
    <3>1. C \subseteq 1..Len(s) + 1 /\ 1 \in C
      BY <2>1
    <3>2. ASSUME NEW b \in C \ {Len(s) + 1} PROVE \E k \in 1..4 : Char(s, b, k) /\ b + k \in C
      <4>1. b = 1 /\ 1 + Len(s) = Len(s) + 1
        BY <2>1, <3>2
      <4> QED
        BY <2>1, <4>1
    <3> QED
      BY <3>1, <3>2 DEF Cuts, Closes
  <2> QED
    BY <2>3, <2>4, ValidIs
<1> QED
  BY <1>1, <1>2, <1>3, <1>4

-----------------------------------------------------------------------------
(* Keys and validators.                                                       *)

LEMMA LeastIs ==
  ASSUME NEW S, S \subseteq Int, NEW m \in S, \A n \in S : m <= n
  PROVE  Min(S) = m
<1>1. \A x \in S : (\A y \in S : x <= y) => x = m
  OBVIOUS
<1> QED
  BY <1>1 DEF Min

LEMMA Joined ==
  ASSUME NEW q \in Seq(Int), NEW r \in Seq(Int)
  PROVE  /\ q \o r \in Seq(Int) /\ Len(q \o r) = Len(q) + Len(r)
         /\ \A i \in 1..Len(q) + Len(r) : (q \o r)[i] = IF i <= Len(q) THEN q[i] ELSE r[i - Len(q)]
BY ConcatProperties

\* The class of a pattern is what is between its brackets.
LEMMA ClassIs ==
  ASSUME NEW class \in Seq(Int), Bracket \notin Range(class), Close \notin Range(class)
  PROVE  Class(<<Bracket>> \o class \o <<Close, 43>>) = class
<1> DEFINE p == <<Bracket>> \o class \o <<Close, 43>>
           n == Len(class)
<1>0. n \in Nat /\ \A i \in 1..n : class[i] \in Int /\ class[i] # Bracket /\ class[i] # Close
  BY DEF Range
<1>1. /\ p \in Seq(Int) /\ Len(p) = n + 3
      /\ p[1] = Bracket /\ p[n + 2] = Close /\ p[n + 3] = 43
      /\ \A i \in 1..n : p[i + 1] = class[i]
  <2>1. <<Bracket>> \in Seq(Int) /\ <<Close, 43>> \in Seq(Int)
        /\ Len(<<Bracket>>) = 1 /\ Len(<<Close, 43>>) = 2
        /\ <<Bracket>>[1] = Bracket /\ <<Close, 43>>[1] = Close /\ <<Close, 43>>[2] = 43
    BY DEF Bracket, Close
  <2> DEFINE q == <<Bracket>> \o class
  <2>2. q \in Seq(Int) /\ Len(q) = n + 1 /\ q[1] = Bracket /\ \A i \in 1..n : q[i + 1] = class[i]
    BY <1>0, <2>1
  <2> HIDE DEF q, n
  <2> DEFINE r == <<Close, 43>>
  <2>3. r \in Seq(Int) /\ Len(r) = 2 /\ r[1] = Close /\ r[2] = 43
    BY <2>1
  <2>4. p = q \o r
    BY DEF q
  <2> HIDE DEF r, p
  <2>5. /\ q \o r \in Seq(Int) /\ Len(q \o r) = Len(q) + Len(r)
        /\ \A i \in 1..Len(q) + Len(r) : (q \o r)[i] = IF i <= Len(q) THEN q[i] ELSE r[i - Len(q)]
    <3>1. q \in Seq(Int) /\ r \in Seq(Int)
      BY <2>2, <2>3
    <3> QED
      BY <3>1, Joined
  <2>6. /\ Len(q) + Len(r) = n + 3
        /\ n + 2 \in 1..n + 3 /\ n + 3 \in 1..n + 3 /\ \A i \in 1..n + 1 : i \in 1..n + 3 /\ i <= n + 1
        /\ (n + 2) - (n + 1) = 1 /\ (n + 3) - (n + 1) = 2 /\ ~ (n + 2 <= n + 1) /\ ~ (n + 3 <= n + 1)
    BY <1>0, <2>2, <2>3
  <2>7. (q \o r)[n + 2] = r[1] /\ (q \o r)[n + 3] = r[2] /\ \A i \in 1..n + 1 : (q \o r)[i] = q[i]
    <3> DEFINE both == q \o r
    <3>1. \A i \in 1..n + 3 : both[i] = IF i <= n + 1 THEN q[i] ELSE r[i - (n + 1)]
      BY <2>2, <2>5, <2>6
    <3> HIDE DEF both
    <3>2. both[n + 2] = r[(n + 2) - (n + 1)] /\ both[n + 3] = r[(n + 3) - (n + 1)]
      BY <2>6, <3>1
    <3>3. \A i \in 1..n + 1 : both[i] = q[i]
      BY <2>6, <3>1
    <3> QED
      BY <2>6, <3>2, <3>3 DEF both
  <2>8. 1 \in 1..n + 1 /\ \A i \in 1..n : i + 1 \in 1..n + 1
    BY <1>0
  <2> QED
    BY <2>2, <2>3, <2>4, <2>5, <2>6, <2>7, <2>8
<1> HIDE DEF p, n
<1> DEFINE I == {i \in 1..Len(p) : p[i] = Bracket}
           J == {i \in 1..Len(p) : p[i] = Close}
<1>2. Min(I) = 1 /\ I # {}
  <2>1. 1 \in I /\ I \subseteq Int /\ \A i \in I : 1 <= i
    BY <1>0, <1>1
  <2> HIDE DEF I
  <2> QED
    BY <2>1, LeastIs
<1>3. Min(J) = n + 2 /\ J # {}
  <2>1. n + 2 \in J /\ J \subseteq Int
    BY <1>0, <1>1
  <2>2. ASSUME NEW i \in J PROVE n + 2 <= i
    <3> SUFFICES ASSUME ~ (n + 2 <= i) PROVE FALSE
      OBVIOUS
    <3>1. i \in 1..n + 1 /\ p[i] = Close
      BY <1>0, <1>1
    <3>2. i # 1
      BY <1>1, <3>1 DEF Bracket, Close
    <3>3. i - 1 \in 1..n /\ (i - 1) + 1 = i
      BY <1>0, <3>1, <3>2
    <3>4. p[i] = class[i - 1]
      BY <1>1, <3>3
    <3> QED
      BY <1>0, <3>1, <3>3, <3>4
  <2> HIDE DEF J
  <2> QED
    BY <2>1, <2>2, LeastIs
<1>4. Class(p) = SubSeq(p, 2, n + 1)
  <2> DEFINE open == IF I # {} THEN Min(I) ELSE 0
             close == IF J # {} THEN Min(J) ELSE 0
  <2>1. Class(p) = IF open = 0 \/ close = 0 THEN <<>>
                   ELSE SubSeq(p, open + 1, IF close < open THEN Len(p) ELSE close - 1)
    BY DEF Class, SelectInSeq
  <2>2. open = 1 /\ close = n + 2
    BY <1>2, <1>3
  <2> HIDE DEF open, close
  <2>3. open # 0 /\ close # 0 /\ ~ (close < open) /\ open + 1 = 2 /\ close - 1 = n + 1
    BY <1>0, <2>2
  <2> QED
    BY <2>1, <2>3
<1>5. SubSeq(p, 2, n + 1) = class
  <2>1. SubSeq(p, 2, n + 1) \in Seq(Int) /\ Len(SubSeq(p, 2, n + 1)) = n
        /\ \A i \in 1..n : SubSeq(p, 2, n + 1)[i] = p[i + 1]
    BY <1>0, <1>1
  <2>2. class \in Seq(Int) /\ Len(class) = n
    BY DEF n
  <2>3. \A i \in 1..n : SubSeq(p, 2, n + 1)[i] = class[i]
    BY <1>1, <2>1
  <2> HIDE DEF p
  <2> DEFINE sub == SubSeq(p, 2, n + 1)
  <2> HIDE DEF sub
  <2>4. sub \in Seq(Int) /\ Len(sub) = Len(class) /\ \A i \in 1..Len(class) : sub[i] = class[i]
    BY <2>1, <2>2, <2>3 DEF sub
  <2>5. sub = class
    BY <2>2, <2>4, SeqEqual
  <2> QED
    BY <2>5 DEF sub
<1> QED
  BY <1>4, <1>5 DEF p

\* Validator::regex() accepts exactly the texts of characters its class lists, the ends
\* and the insides of its ranges, their dashes too; a pattern without one, itself.
THEOREM ValidatorsAreExact ==
  ASSUME NEW class \in Seq(Int), NEW t \in Seq(Int)
  PROVE  ValidatorExact(class, t)
<1> DEFINE pattern == <<Bracket>> \o class \o <<Close, 43>>
           dashes == {i \in DOMAIN class : i > 1 /\ i < Len(class) /\ class[i] = Dash}
           listed(c) == \/ \E i \in DOMAIN class \ dashes : class[i] = c
                        \/ \E i \in dashes : c \in class[i - 1]..class[i + 1] \cup {Dash}
<1>1. ASSUME class # <<>>, Bracket \notin Range(class), Close \notin Range(class)
      PROVE  Matches(pattern, t) <=> \A i \in DOMAIN t : listed(t[i])
  <2>1. Class(pattern) = class
    BY <1>1, ClassIs
  <2>2. Matches(pattern, t) <=> \A i \in DOMAIN t : InClass(class, t[i])
    BY <1>1, <2>1 DEF Matches
  <2>3. ASSUME NEW c \in Int PROVE InClass(class, c) <=> listed(c)
    <3>0. DOMAIN class = 1..Len(class) /\ Len(class) \in Nat /\ \A i \in DOMAIN class : class[i] \in Int
      OBVIOUS
    <3>1. ASSUME InClass(class, c) PROVE listed(c)
      <4>1. PICK i \in DOMAIN class : c = class[i] \/ (RangeAt(class, i) /\ c \in class[i]..class[i + 2])
        BY <3>1 DEF InClass
      <4>2. CASE c = class[i]
        <5>1. CASE i \in dashes
          BY <4>2, <5>1
        <5>2. CASE i \notin dashes
          <6> HIDE DEF dashes
          <6> QED
            BY <4>1, <4>2, <5>2
        <5> QED
          BY <5>1, <5>2
      <4>3. CASE RangeAt(class, i) /\ c \in class[i]..class[i + 2]
        <5>0. /\ i \in Nat /\ i >= 1 /\ i + 1 > 1 /\ i + 1 < Len(class)
              /\ (i + 1) - 1 = i /\ (i + 1) + 1 = i + 2
          BY <3>0, <4>1, <4>3, SMTT(30) DEF RangeAt
        <5>1. i + 1 \in dashes /\ (i + 1) - 1 = i /\ (i + 1) + 1 = i + 2
          <6>1. i + 1 \in DOMAIN class
            BY <3>0, <5>0
          <6>2. class[i + 1] = Dash
            BY <4>3 DEF RangeAt
          <6> QED
            BY <5>0, <6>1, <6>2
        <5> HIDE DEF dashes
        <5> QED
          BY <4>3, <5>1
      <4> QED
        BY <4>1, <4>2, <4>3
    <3>2. ASSUME listed(c) PROVE InClass(class, c)
      <4>1. CASE \E i \in DOMAIN class : class[i] = c
        BY <4>1 DEF InClass
      <4>2. CASE \E i \in dashes : c \in class[i - 1]..class[i + 1]
        <5>1. PICK i \in dashes : c \in class[i - 1]..class[i + 1]
          BY <4>2
        <5>2. i \in DOMAIN class /\ i > 1 /\ i < Len(class) /\ class[i] = Dash
          OBVIOUS
        <5>0. i \in 1..Len(class) /\ Len(class) \in Nat
          BY <3>0, <5>2
        <5> HIDE DEF dashes
        <5>3. i - 1 \in DOMAIN class /\ (i - 1) + 1 = i /\ (i - 1) + 2 = i + 1 /\ (i - 1) + 2 <= Len(class)
          <6>1. i - 1 \in 1..Len(class) /\ (i - 1) + 1 = i /\ (i - 1) + 2 = i + 1 /\ (i - 1) + 2 <= Len(class)
            BY <5>0, <5>2
          <6> QED
            BY <3>0, <6>1
        <5>4. RangeAt(class, i - 1)
          BY <5>2, <5>3 DEF RangeAt
        <5> QED
          BY <5>1, <5>3, <5>4 DEF InClass
      <4>3. CASE \E i \in dashes : c = Dash
        BY <4>3 DEF InClass
      <4> QED
        BY <3>2, <4>1, <4>2, <4>3
    <3> QED
      BY <3>1, <3>2
  <2>4. \A i \in DOMAIN t : t[i] \in Int
    OBVIOUS
  <2> HIDE DEF listed, pattern
  <2> QED
    BY <2>2, <2>3, <2>4
<1>2. Matches(t, t) \/ Class(t) # <<>>
  BY DEF Matches
<1> QED
  BY <1>1, <1>2 DEF ValidatorExact

\* The first place of a token, and what is around it.
LEMMA FindIs ==
  ASSUME NEW t \in Seq(Int), NEW token \in Int
  PROVE  /\ Find(t, token) \in 0..Len(t)
         /\ Find(t, token) = 0 <=> \A i \in 1..Len(t) : t[i] # token
         /\ Find(t, token) > 0 => t[Find(t, token)] = token /\ \A i \in 1..Find(t, token) - 1 : t[i] # token
         /\ Before(t, token) \in Seq(Int) /\ After(t, token) \in Seq(Int)
<1> DEFINE I == {i \in 1..Len(t) : t[i] = token}
           f == Find(t, token)
<1>0. Len(t) \in Nat /\ \A i \in 1..Len(t) : t[i] \in Int
  OBVIOUS
<1>1. f = IF I # {} THEN Min(I) ELSE 0
  BY DEF Find, SelectInSeq
<1>2. CASE I = {}
  <2>1. f = 0 /\ \A i \in 1..Len(t) : t[i] # token
    BY <1>1, <1>2
  <2>2. Before(t, token) = t
    BY <2>1 DEF Before
  <2>3. After(t, token) = SubSeq(t, 1, Len(t))
    BY <2>1 DEF After
  <2>4. SubSeq(t, 1, Len(t)) = t
    BY SubSeqFull
  <2> HIDE DEF f
  <2> QED
    BY <1>0, <2>1, <2>2, <2>3, <2>4 DEF f
<1>3. CASE I # {}
  <2>1. Min(I) \in I /\ \A i \in I : Min(I) <= i
    <3>1. I \subseteq Nat /\ I \subseteq Int
      OBVIOUS
    <3> HIDE DEF I
    <3>2. PICK m \in I : \A i \in I : m <= i
      BY <1>3, <3>1, LeastNat
    <3>3. Min(I) = m
      BY <3>1, <3>2, LeastIs
    <3> QED
      BY <3>2, <3>3
  <2>2. f \in I /\ \A i \in I : f <= i
    BY <1>1, <1>3, <2>1
  <2> HIDE DEF f
  <2>3. f \in 1..Len(t) /\ t[f] = token /\ \A i \in 1..Len(t) : t[i] = token => f <= i
    BY <2>2
  <2>4. \A i \in 1..f - 1 : t[i] # token
    BY <1>0, <2>3
  <2>5. Before(t, token) = SubSeq(t, 1, f - 1) /\ After(t, token) = SubSeq(t, f + 1, Len(t))
    BY <2>3 DEF Before, After, f
  <2>6. SubSeq(t, 1, f - 1) \in Seq(Int)
    <3>1. f - 1 \in Int /\ \A i \in 1..f - 1 : t[i] \in Int
      BY <1>0, <2>3
    <3> QED
      BY <3>1, SubSeqProperties
  <2>7. SubSeq(t, f + 1, Len(t)) \in Seq(Int)
    <3>1. f + 1 \in Int /\ Len(t) \in Int /\ \A i \in f + 1..Len(t) : t[i] \in Int
      BY <1>0, <2>3
    <3> QED
      BY <3>1, SubSeqProperties
  <2>8. f \in 0..Len(t) /\ f > 0 /\ f # 0 /\ ~ (\A i \in 1..Len(t) : t[i] # token)
    BY <1>0, <2>3
  <2>9. Before(t, token) \in Seq(Int) /\ After(t, token) \in Seq(Int)
    BY <2>5, <2>6, <2>7
  <2> QED
    BY <2>3, <2>4, <2>8, <2>9 DEF f
<1> QED
  BY <1>2, <1>3

\* A text of one number.
LEMMA NumberIs ==
  ASSUME NEW t \in Seq(Int), IsNumber(t)
  PROVE  t[1] \in Nat
BY DEF IsNumber

\* The inside of a sequence.
LEMMA InsideIs ==
  ASSUME NEW s \in Seq(Int)
  PROVE  SubSeq(s, 2, Len(s) - 1) \in Seq(Int)
<1>1. Len(s) - 1 \in Int /\ \A i \in 2..Len(s) - 1 : s[i] \in Int
  OBVIOUS
<1> QED
  BY <1>1, SubSeqProperties

\* A sequence is a paste only if its third token ends the start of one.
LEMMA PasteIs ==
  ASSUME NEW s, IsPrefix(<<Csi, 200, Tilde>>, s)
  PROVE  s[3] = Tilde
<1> DEFINE a == <<Csi, 200, Tilde>>
<1>1. a \in Seq(Int) /\ Len(a) = 3 /\ a[3] = Tilde
  BY DEF Csi, Tilde
<1>2. SubSeq(a, 1, 3) = SubSeq(s, 1, 3)
  BY <1>1 DEF IsPrefix
<1> HIDE DEF a
<1>3. SubSeq(a, 1, 3)[3] = a[3]
  BY <1>1
<1>4. SubSeq(s, 1, 3)[3] = s[3]
  OBVIOUS
<1> QED
  BY <1>1, <1>2, <1>3, <1>4

\* What a decoded key is.
LEMMA KeyDecoded ==
  ASSUME NEW t \in Seq(Int), DecodeKey(t).kind = "key"
  PROVE  \E code \in Nat, modifiers \in Nat : \E type :
           DecodeKey(t) = [kind |-> "key", code |-> code, modifiers |-> modifiers, type |-> type]
<1> DEFINE code == Before(Before(t, Semicolon), Colon)
           rest == After(t, Semicolon)
           modifiers == Before(rest, Colon)
           type == After(rest, Colon)
           some == Find(t, Semicolon) > 0
           typed == some /\ Find(rest, Colon) > 0
           m == IF some /\ modifiers[1] > 0 THEN modifiers[1] - 1 ELSE 0
           k == IF typed THEN type[1] ELSE 1
           good == IsNumber(code) /\ (some => IsNumber(modifiers)) /\ (typed => IsNumber(type))
<1>1. DecodeKey(t) = IF good THEN [kind |-> "key", code |-> code[1], modifiers |-> m, type |-> k] ELSE Failed
  BY DEF DecodeKey
<1>2. code \in Seq(Int) /\ modifiers \in Seq(Int)
  <2>1. Semicolon \in Int /\ Colon \in Int
    BY DEF Semicolon, Colon
  <2>2. Before(t, Semicolon) \in Seq(Int) /\ rest \in Seq(Int)
    BY <2>1, FindIs
  <2> HIDE DEF rest
  <2> QED
    BY <2>1, <2>2, FindIs
<1>3. Failed.kind # "key"
  BY DEF Failed
<1>4. good
  <2> HIDE DEF good, code, m, k
  <2> QED
    BY <1>1, <1>3
<1>5. code[1] \in Nat
  <2> HIDE DEF code
  <2> QED
    BY <1>2, <1>4, NumberIs
<1>6. m \in Nat
  <2> HIDE DEF modifiers, some
  <2>1. CASE some /\ modifiers[1] > 0
    <3>1. modifiers[1] \in Nat
      BY <1>2, <1>4, <2>1, NumberIs
    <3> QED
      BY <2>1, <3>1
  <2>2. CASE ~ (some /\ modifiers[1] > 0)
    BY <2>2
  <2> QED
    BY <2>1, <2>2
<1> HIDE DEF good, code, m, k
<1> QED
  BY <1>1, <1>4, <1>5, <1>6

\* What a decoded report of the mouse is.
Report(v, x, y, final) ==
  [kind |-> "mouse", button |-> v % 4, modifiers |-> 4 * ((v \div 4) % 8), x |-> x, y |-> y,
   pressed |-> final = Press, motion |-> (v \div 32) % 2 = 1]

LEMMA MouseDecoded ==
  ASSUME NEW t \in Seq(Int), t # <<>>, NEW final, DecodeMouse(t, final).kind = "mouse"
  PROVE  \E v \in Nat, x \in Nat, y \in Nat :
           DecodeMouse(t, final) = Report(v, x, y, final)
<1> DEFINE values == Numbers(Tail(t))
           event(v) == [kind |-> "mouse", button |-> v[1] % 4, modifiers |-> 4 * ((v[1] \div 4) % 8),
                        x |-> v[2], y |-> v[3], pressed |-> final = Press, motion |-> (v[1] \div 32) % 2 = 1]
<1>1. DecodeMouse(t, final) = IF Len(values) # 3 THEN Failed ELSE event(values)
  BY DEF DecodeMouse
<1>2. Len(values) = 3
  <2>1. Failed.kind # "mouse"
    BY DEF Failed
  <2> HIDE DEF values, event
  <2> QED
    BY <1>1, <2>1
<1>3. Tail(t) \in Seq(Int)
  BY HeadTailProperties
<1>4. values[1] \in Nat /\ values[2] \in Nat /\ values[3] \in Nat
  <2> DEFINE u == Tail(t)
             n == (Len(u) + 1) \div 2
             plain == \A i \in DOMAIN u : IF i % 2 = 1 THEN IsNumber(<<u[i]>>) ELSE u[i] = Semicolon
  <2>0. u \in Seq(Int) /\ Len(u) \in Nat /\ \A i \in 1..Len(u) : u[i] \in Int
    BY <1>3
  <2>1. values = IF plain THEN IF Len(u) % 2 = 1 THEN [i \in 1..n |-> u[2 * i - 1]] ELSE <<>> ELSE <<>>
    BY DEF Numbers
  <2> HIDE DEF u
  <2>2. plain /\ Len(u) % 2 = 1
    <3> HIDE DEF values, n, plain
    <3>1. Len(<<>>) # 3
      OBVIOUS
    <3> QED
      BY <1>2, <2>1, <3>1
  <2>3. values = [i \in 1..n |-> u[2 * i - 1]]
    <3> HIDE DEF values, n, plain
    <3> QED
      BY <2>1, <2>2
  <2>4. n \in Nat /\ 2 * n = Len(u) + 1
    <3>1. \A l \in Nat : l % 2 = 1 => (l + 1) \div 2 \in Nat /\ 2 * ((l + 1) \div 2) = l + 1
      OBVIOUS
    <3> QED
      BY <2>0, <2>2, <3>1
  <2> HIDE DEF n, values
  <2>5. n = 3
    <3>1. Len([i \in 1..n |-> u[2 * i - 1]]) = n
      BY <2>4
    <3> QED
      BY <1>2, <2>3, <3>1
  <2>6. Len(u) = 5
    <3>1. \A l \in Nat : 2 * 3 = l + 1 => l = 5
      OBVIOUS
    <3>2. Len(u) \in Nat /\ 2 * 3 = Len(u) + 1
      BY <2>0, <2>4, <2>5
    <3> QED
      BY <3>1, <3>2
  <2>7. \A i \in {1, 3, 5} : u[i] \in Nat
    <3> SUFFICES ASSUME NEW i \in {1, 3, 5} PROVE u[i] \in Nat
      OBVIOUS
    <3>1. i \in 1..Len(u) /\ i % 2 = 1
      BY <2>6
    <3>2. i \in DOMAIN u
      BY <2>0, <3>1
    <3>3. IsNumber(<<u[i]>>)
      BY <2>2, <3>1, <3>2
    <3>4. u[i] >= 0
      BY <3>3 DEF IsNumber
    <3> QED
      BY <2>0, <3>1, <3>4
  <2>8. values[1] = u[1] /\ values[2] = u[3] /\ values[3] = u[5]
    BY <2>3, <2>5
  <2> QED
    BY <2>7, <2>8
<1> HIDE DEF values
<1>5. DecodeMouse(t, final) = Report(values[1], values[2], values[3], final)
  BY <1>1, <1>2 DEF Report
<1> QED
  BY <1>4, <1>5

\* Which of the readers a sequence is for.
LEMMA DecodedAs ==
  ASSUME NEW s \in Seq(Int)
  PROVE  LET t == SubSeq(s, 2, Len(s) - 1)
             final == s[Len(s)]
         IN  /\ DecodeSeq(s).kind = "key" => DecodeSeq(s) = DecodeKey(t)
             /\ DecodeSeq(s).kind = "mouse" =>
                  DecodeSeq(s) = DecodeMouse(t, final) /\ final \in {Press, Release} /\ t # <<>>
             /\ Len(s) >= 3 /\ s[1] = Csi /\ s[3] # Tilde =>
                  /\ final = FinalU => DecodeSeq(s) = DecodeKey(t)
                  /\ final \in {Press, Release} /\ t[1] = Less => DecodeSeq(s) = DecodeMouse(t, final)
<1> DEFINE t == SubSeq(s, 2, Len(s) - 1)
           final == s[Len(s)]
           paste == IsPrefix(<<Csi, 200, Tilde>>, s) /\ IsSuffix(<<Csi, 201, Tilde>>, s)
           key == Len(s) >= 3 /\ s[1] = Csi /\ final = FinalU
           mouse == Len(s) >= 3 /\ s[1] = Csi /\ final \in {Press, Release} /\ t[1] = Less
           pasted == [kind |-> "paste", text |-> SubSeq(s, 4, Len(s) - 3)]
<1>1. DecodeSeq(s) = CASE paste -> pasted [] key -> DecodeKey(t) [] mouse -> DecodeMouse(t, final) [] OTHER -> Failed
  BY DEF DecodeSeq, Last
<1>2. pasted.kind = "paste" /\ Failed.kind = "error"
  BY DEF Failed
<1>3. DecodeMouse(t, final).kind \in {"mouse", "error"} /\ DecodeKey(t).kind \in {"key", "error"}
  BY DEF DecodeMouse, DecodeKey, Failed
<1>4. ~ (key /\ mouse)
  BY DEF FinalU, Press, Release
<1>5. paste => s[3] = Tilde
  BY PasteIs
<1>6. mouse => t # <<>>
  <2> SUFFICES ASSUME Len(s) >= 3 PROVE t # <<>>
    OBVIOUS
  <2>1. Len(t) = Len(s) - 2 /\ Len(t) > 0
    OBVIOUS
  <2> HIDE DEF t
  <2> QED
    BY <2>1
<1> HIDE DEF t, pasted
<1>7. /\ \/ DecodeSeq(s) = pasted \/ DecodeSeq(s) = Failed
         \/ key /\ DecodeSeq(s) = DecodeKey(t)
         \/ mouse /\ DecodeSeq(s) = DecodeMouse(t, final)
      /\ ~ paste /\ key => DecodeSeq(s) = DecodeKey(t)
      /\ ~ paste /\ mouse => DecodeSeq(s) = DecodeMouse(t, final)
  BY <1>1, <1>4
<1>8. DecodeSeq(s).kind = "key" => DecodeSeq(s) = DecodeKey(t)
  BY <1>2, <1>3, <1>7
<1>9. DecodeSeq(s).kind = "mouse" =>
        DecodeSeq(s) = DecodeMouse(t, final) /\ final \in {Press, Release} /\ t # <<>>
  BY <1>2, <1>3, <1>6, <1>7
<1> QED
  BY <1>5, <1>7, <1>8, <1>9 DEF t

\* A key that is sent is the key that is read.
LEMMA KeySent ==
  ASSUME NEW c \in Nat, NEW m \in Nat
  PROVE  DecodeSeq(<<Csi, c, Semicolon, m + 1, FinalU>>)
           = [kind |-> "key", code |-> c, modifiers |-> m, type |-> 1]
<1> DEFINE q == <<Csi, c, Semicolon, m + 1, FinalU>>
           t == SubSeq(q, 2, 4)
<1>0. Csi \in Int /\ Semicolon = -2 /\ Colon = -3 /\ FinalU \in Int /\ Tilde # Semicolon
  BY DEF Csi, Semicolon, Colon, FinalU, Tilde
<1>1. /\ q \in Seq(Int) /\ Len(q) = 5
      /\ q[1] = Csi /\ q[2] = c /\ q[3] = Semicolon /\ q[4] = m + 1 /\ q[5] = FinalU
  BY <1>0
<1> HIDE DEF q
<1>2. DecodeSeq(q) = DecodeKey(t)
  <2>1. SubSeq(q, 2, Len(q) - 1) = t /\ Len(q) >= 3 /\ q[Len(q)] = FinalU /\ q[3] # Tilde
    BY <1>0, <1>1
  <2> HIDE DEF t
  <2> QED
    BY <1>1, <2>1, DecodedAs
<1>3. t \in Seq(Int) /\ Len(t) = 3 /\ t[1] = c /\ t[2] = Semicolon /\ t[3] = m + 1
  <2>1. 2 \in Int /\ 4 \in Int /\ \A i \in 2..4 : q[i] \in Int
    <3> SUFFICES ASSUME NEW i \in 2..4 PROVE q[i] \in Int
      OBVIOUS
    <3>1. i \in 1..Len(q)
      BY <1>1
    <3> QED
      BY <1>1, <3>1, ElementOfSeq
  <2>2. t \in Seq(Int) /\ Len(t) = 3 /\ \A i \in 1..3 : t[i] = q[2 + i - 1]
    BY <2>1, SubSeqProperties
  <2> HIDE DEF t
  <2>3. t[1] = q[2] /\ t[2] = q[3] /\ t[3] = q[4]
    BY <2>2
  <2> QED
    BY <1>1, <2>2, <2>3
<1> HIDE DEF t
<1>4. Find(t, Semicolon) = 2
  <2>1. Find(t, Semicolon) \in 0..3
        /\ (Find(t, Semicolon) = 0 <=> \A i \in 1..3 : t[i] # Semicolon)
        /\ (Find(t, Semicolon) > 0 =>
              t[Find(t, Semicolon)] = Semicolon /\ \A i \in 1..Find(t, Semicolon) - 1 : t[i] # Semicolon)
    <3>1. Semicolon \in Int /\ t \in Seq(Int)
      BY <1>0, <1>3
    <3>2. /\ Find(t, Semicolon) \in 0..Len(t)
          /\ Find(t, Semicolon) = 0 <=> \A i \in 1..Len(t) : t[i] # Semicolon
          /\ Find(t, Semicolon) > 0 =>
               t[Find(t, Semicolon)] = Semicolon /\ \A i \in 1..Find(t, Semicolon) - 1 : t[i] # Semicolon
      BY <3>1, FindIs
    <3> QED
      BY <1>3, <3>2
  <2>2. Find(t, Semicolon) # 0
    <3>1. 2 \in 1..3
      OBVIOUS
    <3> QED
      BY <1>3, <2>1, <3>1
  <2>3. Find(t, Semicolon) # 1
    BY <1>0, <1>3, <2>1
  <2>4. Find(t, Semicolon) # 3
    <3>1. 2 \in 1..3 - 1
      OBVIOUS
    <3> QED
      BY <1>3, <2>1, <3>1
  <2> QED
    BY <2>1, <2>2, <2>3, <2>4
<1>5. ASSUME NEW n \in Nat PROVE Find(<<n>>, Colon) = 0
  <2>1. <<n>> \in Seq(Int) /\ Len(<<n>>) = 1 /\ <<n>>[1] = n
    OBVIOUS
  <2>2. \A i \in 1..1 : <<n>>[i] # Colon
    BY <1>0, <2>1
  <2> DEFINE r == <<n>>
  <2> HIDE DEF r
  <2>3. Colon \in Int /\ r \in Seq(Int) /\ \A i \in 1..Len(r) : r[i] # Colon
    BY <1>0, <2>1, <2>2 DEF r
  <2>4. Find(r, Colon) = 0
    BY <2>3, FindIs
  <2> QED
    BY <2>4 DEF r
<1>6. Before(t, Semicolon) = <<c>> /\ After(t, Semicolon) = <<m + 1>>
  <2>1. Before(t, Semicolon) = SubSeq(t, 1, 1) /\ After(t, Semicolon) = SubSeq(t, 3, 3)
    BY <1>3, <1>4 DEF Before, After
  <2>2. SubSeq(t, 1, 1) = <<t[1]>>
    <3>1. 1 \in Int /\ t[1] \in Int /\ \A j \in 1..1 : t[j] \in Int
      BY <1>3
    <3>2. SubSeq(t, 1, 1) \in Seq(Int) /\ Len(SubSeq(t, 1, 1)) = 1 /\ SubSeq(t, 1, 1)[1] = t[1]
      BY <3>1, SubSeqProperties
    <3>3. <<t[1]>> \in Seq(Int) /\ Len(<<t[1]>>) = 1 /\ <<t[1]>>[1] = t[1]
      BY <3>1
    <3>4. \A j \in 1..1 : SubSeq(t, 1, 1)[j] = <<t[1]>>[j]
      BY <3>2, <3>3
    <3> QED
      BY <3>2, <3>3, <3>4, SeqEqual
  <2>3. SubSeq(t, 3, 3) = <<t[3]>>
    <3>1. 3 \in Int /\ t[3] \in Int /\ \A j \in 3..3 : t[j] \in Int
      BY <1>3
    <3>2. SubSeq(t, 3, 3) \in Seq(Int) /\ Len(SubSeq(t, 3, 3)) = 1 /\ SubSeq(t, 3, 3)[1] = t[3]
      BY <3>1, SubSeqProperties
    <3>3. <<t[3]>> \in Seq(Int) /\ Len(<<t[3]>>) = 1 /\ <<t[3]>>[1] = t[3]
      BY <3>1
    <3>4. \A j \in 1..1 : SubSeq(t, 3, 3)[j] = <<t[3]>>[j]
      BY <3>2, <3>3
    <3> QED
      BY <3>2, <3>3, <3>4, SeqEqual
  <2> QED
    BY <1>3, <2>1, <2>2, <2>3
<1>7. Before(<<c>>, Colon) = <<c>> /\ Before(<<m + 1>>, Colon) = <<m + 1>> /\ Find(<<m + 1>>, Colon) = 0
  <2>1. m + 1 \in Nat
    OBVIOUS
  <2> QED
    BY <1>5, <2>1 DEF Before
<1>8. IsNumber(<<c>>) /\ IsNumber(<<m + 1>>) /\ <<c>>[1] = c /\ <<m + 1>>[1] = m + 1 /\ m + 1 > 0 /\ (m + 1) - 1 = m
  BY DEF IsNumber
<1>9. DecodeKey(t) = [kind |-> "key", code |-> c, modifiers |-> m, type |-> 1]
  <2> DEFINE code == Before(Before(t, Semicolon), Colon)
             modifiers == Before(After(t, Semicolon), Colon)
             type == After(After(t, Semicolon), Colon)
             some == Find(t, Semicolon) > 0
             typed == some /\ Find(After(t, Semicolon), Colon) > 0
  <2>1. DecodeKey(t) =
          IF IsNumber(code) /\ (some => IsNumber(modifiers)) /\ (typed => IsNumber(type))
          THEN [kind |-> "key", code |-> code[1],
                modifiers |-> IF some /\ modifiers[1] > 0 THEN modifiers[1] - 1 ELSE 0,
                type |-> IF typed THEN type[1] ELSE 1]
          ELSE Failed
    BY DEF DecodeKey
  <2>2. code = <<c>> /\ modifiers = <<m + 1>> /\ some /\ ~ typed
    BY <1>4, <1>6, <1>7
  <2> HIDE DEF code, modifiers, type, some, typed
  <2>3. code[1] = c /\ modifiers[1] = m + 1
    BY <1>8, <2>2
  <2>4. IsNumber(code) /\ IsNumber(modifiers) /\ modifiers[1] > 0 /\ modifiers[1] - 1 = m
    BY <1>8, <2>2, <2>3
  <2> QED
    BY <2>1, <2>2, <2>3, <2>4
<1> QED
  BY <1>2, <1>9 DEF q

\* A report of the mouse that is sent is read without the motion.
LEMMA MouseSent ==
  ASSUME NEW v \in Nat, NEW x \in Nat, NEW y \in Nat, NEW final \in {Press, Release}
  PROVE  DecodeSeq(<<Csi, Less, v, Semicolon, x, Semicolon, y, final>>)
           = Report(v, x, y, final)
<1> DEFINE q == <<Csi, Less, v, Semicolon, x, Semicolon, y, final>>
           t == SubSeq(q, 2, 7)
           u == Tail(t)
<1>0. Csi \in Int /\ Semicolon \in Int /\ Less \in Int /\ final \in Int /\ Tilde = -8
  BY DEF Csi, Semicolon, Less, Tilde, Press, Release
<1>1. /\ q \in Seq(Int) /\ Len(q) = 8
      /\ q[1] = Csi /\ q[2] = Less /\ q[3] = v /\ q[4] = Semicolon /\ q[5] = x /\ q[6] = Semicolon
      /\ q[7] = y /\ q[8] = final
  BY <1>0
<1> HIDE DEF q
<1>2. t \in Seq(Int) /\ Len(t) = 6 /\ \A i \in 1..6 : t[i] = q[i + 1]
  <2>1. 2 \in Int /\ 7 \in Int /\ \A i \in 2..7 : q[i] \in Int
    <3> SUFFICES ASSUME NEW i \in 2..7 PROVE q[i] \in Int
      OBVIOUS
    <3>1. i \in 1..Len(q)
      BY <1>1
    <3> QED
      BY <1>1, <3>1, ElementOfSeq
  <2>2. t \in Seq(Int) /\ Len(t) = 6 /\ \A i \in 1..6 : t[i] = q[2 + i - 1]
    BY <2>1, SubSeqProperties
  <2> HIDE DEF t
  <2>3. \A i \in 1..6 : 2 + i - 1 = i + 1
    OBVIOUS
  <2> QED
    BY <2>2, <2>3
<1>3. DecodeSeq(q) = DecodeMouse(t, final)
  <2>1. SubSeq(q, 2, Len(q) - 1) = t /\ Len(q) >= 3 /\ q[Len(q)] = final /\ q[3] # Tilde
    BY <1>0, <1>1
  <2>2. t[1] = Less
    <3> HIDE DEF t
    <3>1. 1 \in 1..6 /\ 1 + 1 = 2
      OBVIOUS
    <3>2. t[1] = q[2]
      BY <1>2, <3>1
    <3> QED
      BY <1>1, <3>2
  <2> HIDE DEF t
  <2> QED
    BY <1>1, <2>1, <2>2, DecodedAs
<1> HIDE DEF t
<1>4. u \in Seq(Int) /\ Len(u) = 5 /\ u[1] = v /\ u[2] = Semicolon /\ u[3] = x /\ u[4] = Semicolon /\ u[5] = y
  <2>1. t # <<>>
    BY <1>2
  <2>2. u \in Seq(Int) /\ Len(u) = 5 /\ \A i \in 1..5 : u[i] = t[i + 1]
    <3>1. u \in Seq(Int) /\ Len(u) = Len(t) - 1 /\ \A i \in 1..Len(u) : u[i] = t[i + 1]
      BY <1>2, <2>1, HeadTailProperties
    <3> HIDE DEF u
    <3> QED
      BY <1>2, <3>1
  <2> HIDE DEF u
  <2>3. \A i \in 1..5 : u[i] = q[i + 2]
    <3> SUFFICES ASSUME NEW i \in 1..5 PROVE u[i] = q[i + 2]
      OBVIOUS
    <3>1. i + 1 \in 1..6 /\ (i + 1) + 1 = i + 2
      OBVIOUS
    <3>2. t[i + 1] = q[(i + 1) + 1]
      BY <1>2, <3>1
    <3> QED
      BY <2>2, <3>1, <3>2
  <2>4. u[1] = q[3] /\ u[2] = q[4] /\ u[3] = q[5] /\ u[4] = q[6] /\ u[5] = q[7]
    BY <2>3
  <2> QED
    BY <1>1, <2>2, <2>4
<1>5. Len(Numbers(u)) = 3 /\ Numbers(u)[1] = v /\ Numbers(u)[2] = x /\ Numbers(u)[3] = y
  <2> HIDE DEF u
  <2> DEFINE values == [i \in 1..3 |-> u[2 * i - 1]]
             plain == \A i \in DOMAIN u : IF i % 2 = 1 THEN IsNumber(<<u[i]>>) ELSE u[i] = Semicolon
  <2>1. DOMAIN u = 1..5 /\ Len(u) % 2 = 1 /\ (Len(u) + 1) \div 2 = 3
    BY <1>4
  <2>2. plain
    <3> SUFFICES ASSUME NEW i \in 1..5
                 PROVE  IF i % 2 = 1 THEN IsNumber(<<u[i]>>) ELSE u[i] = Semicolon
      BY <2>1
    <3>1. \A n \in Nat : IsNumber(<<n>>)
      BY DEF IsNumber
    <3>2. CASE i \in {1, 3, 5}
      <4>1. u[i] \in Nat /\ i % 2 = 1
        BY <1>4, <3>2
      <4> QED
        BY <3>1, <4>1
    <3>3. CASE i \in {2, 4}
      <4>1. u[i] = Semicolon /\ i % 2 # 1
        BY <1>4, <3>3
      <4> QED
        BY <4>1
    <3> QED
      BY <3>2, <3>3
  <2>3. Numbers(u) = values
    <3>1. Numbers(u) = IF plain THEN IF Len(u) % 2 = 1 THEN [i \in 1..(Len(u) + 1) \div 2 |-> u[2 * i - 1]] ELSE <<>>
                       ELSE <<>>
      BY DEF Numbers
    <3>2. [i \in 1..(Len(u) + 1) \div 2 |-> u[2 * i - 1]] = values
      BY <2>1
    <3> HIDE DEF values, plain
    <3> QED
      BY <2>1, <2>2, <3>1, <3>2
  <2>4. Len(values) = 3 /\ values[1] = u[1] /\ values[2] = u[3] /\ values[3] = u[5]
    OBVIOUS
  <2> QED
    BY <1>4, <2>3, <2>4
<1> HIDE DEF u
<1>6. DecodeMouse(t, final) = Report(v, x, y, final)
  <2> DEFINE values == Numbers(Tail(t))
  <2>1. DecodeMouse(t, final) =
          IF Len(values) # 3 THEN Failed
          ELSE [kind |-> "mouse", button |-> values[1] % 4, modifiers |-> 4 * ((values[1] \div 4) % 8),
                x |-> values[2], y |-> values[3], pressed |-> final = Press,
                motion |-> (values[1] \div 32) % 2 = 1]
    BY DEF DecodeMouse
  <2>2. Len(values) = 3 /\ values[1] = v /\ values[2] = x /\ values[3] = y
    BY <1>5 DEF u
  <2> HIDE DEF values
  <2> QED
    BY <2>1, <2>2 DEF Report
<1> QED
  BY <1>3, <1>6 DEF q

\* What the puppet sends, of any event that any sequence is read as, is read as that event,
\* but for what is not in it: a key's event type and the mouse's motion.
THEOREM EventsArriveAsSent ==
  ASSUME NEW s \in Seq(Int)
  PROVE  KeysRoundTrip(s)
<1> DEFINE event == DecodeSeq(s)
           t == SubSeq(s, 2, Len(s) - 1)
           final == s[Len(s)]
<1>0. t \in Seq(Int)
  BY InsideIs
<1>1. /\ event.kind = "key" => event = DecodeKey(t)
      /\ event.kind = "mouse" => event = DecodeMouse(t, final) /\ final \in {Press, Release} /\ t # <<>>
  BY DecodedAs
<1> HIDE DEF event, t, final
<1>2. ASSUME event.kind = "key" PROVE DecodeSeq(SendKey(event)) = [event EXCEPT !.type = 1]
  <2>1. DecodeKey(t).kind = "key" /\ event = DecodeKey(t)
    BY <1>1, <1>2
  <2>2. PICK code \in Nat, modifiers \in Nat :
          \E type : DecodeKey(t) = [kind |-> "key", code |-> code, modifiers |-> modifiers, type |-> type]
    BY <1>0, <2>1, KeyDecoded
  <2>3. PICK type : event = [kind |-> "key", code |-> code, modifiers |-> modifiers, type |-> type]
    BY <2>1, <2>2
  <2>4. SendKey(event) = <<Csi, code, Semicolon, modifiers + 1, FinalU>>
    BY <2>3 DEF SendKey
  <2>5. [event EXCEPT !.type = 1] = [kind |-> "key", code |-> code, modifiers |-> modifiers, type |-> 1]
    BY <2>3
  <2> QED
    BY <2>4, <2>5, KeySent
<1>3. ASSUME event.kind = "mouse"
      PROVE  /\ DecodeSeq(SendMouse(event)) = [event EXCEPT !.motion = FALSE]
             /\ \A hit \in BOOLEAN :
                  MouseCallback(event, hit) = "on_drag" =>
                    MouseCallback(DecodeSeq(SendMouse(event)), hit) = "on_click"
  <2>1. DecodeMouse(t, final).kind = "mouse" /\ event = DecodeMouse(t, final) /\ t # <<>>
        /\ final \in {Press, Release}
    BY <1>1, <1>3
  <2>2. PICK v \in Nat, x \in Nat, y \in Nat : event = Report(v, x, y, final)
    <3>1. \E v \in Nat, x \in Nat, y \in Nat : DecodeMouse(t, final) = Report(v, x, y, final)
      BY <1>0, <2>1, MouseDecoded
    <3> QED
      BY <2>1, <3>1
  <2> DEFINE w == (v % 4) + 4 * ((v \div 4) % 8)
  <2>3. w \in Nat /\ w % 4 = v % 4 /\ (w \div 4) % 8 = (v \div 4) % 8 /\ (w \div 32) % 2 # 1
    <3>1. \A a \in 0..3, b \in 0..7 :
            a + 4 * b \in Nat /\ (a + 4 * b) % 4 = a /\ (a + 4 * b) \div 4 = b /\ b % 8 = b /\ (a + 4 * b) \div 32 = 0
      OBVIOUS
    <3>2. v % 4 \in 0..3 /\ (v \div 4) % 8 \in 0..7
      OBVIOUS
    <3>3. 0 % 2 # 1
      OBVIOUS
    <3> HIDE DEF w
    <3>4. w = (v % 4) + 4 * ((v \div 4) % 8)
      BY DEF w
    <3> QED
      BY <3>1, <3>2, <3>3, <3>4
  <2>4. /\ event.button = v % 4 /\ event.modifiers = 4 * ((v \div 4) % 8) /\ event.x = x /\ event.y = y
        /\ event.pressed = (final = Press)
    BY <2>2 DEF Report
  <2>5. SendMouse(event) = <<Csi, Less, w, Semicolon, x, Semicolon, y, final>>
    <3>1. (IF event.pressed THEN Press ELSE Release) = final
      BY <2>1, <2>4
    <3>2. event.button + event.modifiers = w
      BY <2>4
    <3> HIDE DEF w
    <3> QED
      BY <2>4, <3>1, <3>2 DEF SendMouse
  <2> HIDE DEF w
  <2>6. DecodeSeq(SendMouse(event)) = Report(w, x, y, final)
    <3>1. w \in Nat
      BY <2>3
    <3>2. DecodeSeq(<<Csi, Less, w, Semicolon, x, Semicolon, y, final>>) = Report(w, x, y, final)
      BY <2>1, <3>1, MouseSent
    <3> QED
      BY <2>5, <3>2
  <2>7. Report(w, x, y, final) = [event EXCEPT !.motion = FALSE]
    <3>1. ((w \div 32) % 2 = 1) = FALSE
      BY <2>3
    <3>2. Report(w, x, y, final) =
            [kind |-> "mouse", button |-> v % 4, modifiers |-> 4 * ((v \div 4) % 8), x |-> x, y |-> y,
             pressed |-> final = Press, motion |-> FALSE]
      BY <2>3, <3>1, Zenon DEF Report
    <3>3. \A b, m, pressed, motion, other :
            [[kind |-> "mouse", button |-> b, modifiers |-> m, x |-> x, y |-> y, pressed |-> pressed,
              motion |-> motion] EXCEPT !.motion = other]
              = [kind |-> "mouse", button |-> b, modifiers |-> m, x |-> x, y |-> y, pressed |-> pressed,
                 motion |-> other]
      OBVIOUS
    <3>4. [Report(v, x, y, final) EXCEPT !.motion = FALSE] =
            [kind |-> "mouse", button |-> v % 4, modifiers |-> 4 * ((v \div 4) % 8), x |-> x, y |-> y,
             pressed |-> final = Press, motion |-> FALSE]
      <4> DEFINE r(motion) == [kind |-> "mouse", button |-> v % 4, modifiers |-> 4 * ((v \div 4) % 8),
                               x |-> x, y |-> y, pressed |-> final = Press, motion |-> motion]
      <4>1. \A motion, other : [r(motion) EXCEPT !.motion = other] = r(other)
        BY <3>3
      <4>2. Report(v, x, y, final) = r((v \div 32) % 2 = 1)
        BY Zenon DEF Report
      <4> HIDE DEF r
      <4>3. [Report(v, x, y, final) EXCEPT !.motion = FALSE] = r(FALSE)
        <5>1. PICK old : Report(v, x, y, final) = r(old)
          BY <4>2, Zenon
        <5>2. \A other : [Report(v, x, y, final) EXCEPT !.motion = other] = r(other)
          BY <4>1, <5>1
        <5> QED
          BY <5>2, Zenon
      <4> QED
        BY <4>3, Zenon DEF r
    <3> QED
      BY <2>2, <3>2, <3>4
  <2>8. DecodeSeq(SendMouse(event)) = [event EXCEPT !.motion = FALSE]
    BY <2>6, <2>7
  <2>9. ASSUME NEW hit \in BOOLEAN, MouseCallback(event, hit) = "on_drag"
        PROVE  MouseCallback(DecodeSeq(SendMouse(event)), hit) = "on_click"
    <3>1. hit /\ event.pressed
      BY <2>9 DEF MouseCallback
    <3>2. DecodeSeq(SendMouse(event)).pressed = event.pressed /\ DecodeSeq(SendMouse(event)).motion = FALSE
      BY <2>2, <2>8 DEF Report
    <3> QED
      BY <3>1, <3>2 DEF MouseCallback
  <2> QED
    BY <2>8, <2>9
<1> QED
  BY <1>2, <1>3 DEF KeysRoundTrip, event

-----------------------------------------------------------------------------
(* What the editors do to a text of UTF-8.                                    *)

LEMMA ValidEmpty == Validate(<<>>)
<1>1. <<>> \in Seq(Bytes) /\ Len(<<>>) = 0
  OBVIOUS
<1>2. Cuts({1}, <<>>)
  BY <1>1 DEF Cuts, Closes
<1> QED
  BY <1>1, <1>2, ValidIs

\* UTF-8 stays UTF-8 with a character behind it.
LEMMA ValidAppend ==
  ASSUME NEW t \in Seq(Bytes), Validate(t), NEW c \in Scalars
  PROVE  t \o Encode(c) \in Seq(Bytes) /\ Validate(t \o Encode(c))
<1> DEFINE e == Encode(c)
           u == t \o e
           n == Len(t)
           m == Len(e)
<1>1. e \in Seq(Bytes) /\ m \in 1..4 /\ n \in Nat
  BY EncodeIs
<1> HIDE DEF e
<1>2. /\ u \in Seq(Bytes) /\ Len(u) = n + m
      /\ \A i \in 1..n : u[i] = t[i]
      /\ \A i \in 1..m : u[n + i] = e[i]
  BY <1>1
<1> HIDE DEF u, m
<1>3. PICK C : Cuts(C, t)
  BY ValidIs
<1> DEFINE D == C \cup {n + 1 + m}
<1>4. D \subseteq 1..Len(u) + 1 /\ 1 \in D
  <2>1. C \subseteq 1..n + 1 /\ 1 \in C
    BY <1>3 DEF Cuts
  <2>2. ASSUME NEW p \in D PROVE p \in 1..Len(u) + 1
    <3>1. CASE p = n + 1 + m
      BY <1>1, <1>2, <3>1
    <3>2. CASE p \in C
      BY <1>1, <1>2, <2>1, <3>2
    <3> QED
      BY <3>1, <3>2
  <2> QED
    BY <2>1, <2>2
<1>5. ASSUME NEW p \in D \ {Len(u) + 1} PROVE \E k \in 1..4 : Char(u, p, k) /\ p + k \in D
  <2>1. p \in C /\ p \in 1..n + 1
    BY <1>1, <1>2, <1>3, <1>5 DEF Cuts
  <2>2. CASE p = n + 1
    <3>1. \A i \in 1..m : u[(n + 1) + i - 1] = e[i]
      BY <1>1, <1>2
    <3>2. n + 1 \in Nat /\ (n + 1) + m - 1 <= Len(u)
      BY <1>1, <1>2
    <3>3. Char(u, n + 1, m)
      BY <3>1, <3>2, EncodeIs DEF e, m
    <3> QED
      BY <1>1, <2>2, <3>3
  <2>3. CASE p # n + 1
    <3>1. PICK k \in 1..4 : Char(t, p, k) /\ p + k \in C
      BY <1>3, <2>1, <2>3 DEF Cuts, Closes
    <3>2. p \in 1..n /\ p + k - 1 <= n /\ p + k - 1 <= Len(u)
      BY <1>1, <1>2, <1>3, <2>1, <2>3, <3>1 DEF Cuts
    <3>3. \A i \in p..p + k - 1 : u[i] = t[i]
      BY <1>1, <1>2, <3>2
    <3>4. Char(u, p, k)
      BY <1>2, <3>1, <3>2, <3>3, CharStays
    <3> QED
      BY <3>1, <3>4
  <2> QED
    BY <2>2, <2>3
<1>6. Cuts(D, u)
  BY <1>4, <1>5 DEF Cuts, Closes
<1> HIDE DEF D
<1>7. Validate(u)
  BY <1>2, <1>6, ValidIs
<1> QED
  BY <1>2, <1>7 DEF u, e

\* It stays UTF-8 without a last byte that is a character by itself.
LEMMA ValidShrink ==
  ASSUME NEW t \in Seq(Bytes), Validate(t), NEW n \in Nat, Len(t) = n + 1, t[n + 1] < 128,
         NEW u \in Seq(Bytes), Len(u) = n, \A i \in 1..n : u[i] = t[i]
  PROVE  Validate(u)
<1>1. PICK C : Cuts(C, t)
  BY ValidIs
<1> DEFINE D == C \ {n + 2}
<1>2. ASSUME NEW p \in D, NEW k \in 1..4, Char(t, p, k), p + k \in C
      PROVE  p \in 1..n + 1 /\ (p # n + 1 => p + k \in D /\ p + k - 1 <= n)
  <2>1. p \in 1..n + 1 /\ p + k \in 1..n + 2
    BY <1>1, <1>2 DEF Cuts
  <2>2. ASSUME p # n + 1, p + k = n + 2 PROVE FALSE
    <3>1. k # 1 /\ n + 1 \in p + 1..p + k - 1
      BY <2>1, <2>2
    <3>2. Continuation(t[n + 1])
      BY <1>2, <3>1 DEF Char
    <3>3. t[n + 1] \in Nat
      <4>1. n + 1 \in 1..Len(t)
        OBVIOUS
      <4>2. t[n + 1] \in Bytes
        BY <4>1, ElementOfSeq
      <4> QED
        BY <4>2 DEF Bytes
    <3> QED
      BY <3>2, <3>3 DEF Continuation
  <2> QED
    BY <1>2, <2>1, <2>2
<1>3. \A p \in D : \E k \in 1..4 : Char(t, p, k) /\ p + k \in C
  BY <1>1 DEF Cuts, Closes
<1>4. D \subseteq 1..Len(u) + 1 /\ 1 \in D
  BY <1>1 DEF Cuts
<1>5. ASSUME NEW p \in D \ {Len(u) + 1} PROVE \E k \in 1..4 : Char(u, p, k) /\ p + k \in D
  <2>1. PICK k \in 1..4 : Char(t, p, k) /\ p + k \in C
    BY <1>3
  <2>2. p \in 1..n + 1 /\ p # n + 1 /\ p + k \in D /\ p + k - 1 <= n
    BY <1>2, <2>1
  <2>3. p \in 1..Len(t) /\ p + k - 1 <= Len(t) /\ p + k - 1 <= Len(u) /\ \A i \in p..p + k - 1 : u[i] = t[i]
    BY <2>2
  <2>4. Char(u, p, k)
    BY <2>1, <2>3, CharStays
  <2> QED
    BY <2>2, <2>4
<1>6. Cuts(D, u)
  BY <1>4, <1>5 DEF Cuts, Closes
<1> HIDE DEF D
<1> QED
  BY <1>6, ValidIs

-----------------------------------------------------------------------------
(* What a recording is saved as is read back byte by byte.                    *)

LEMMA FlattenSameL == ASSUME NEW s PROVE L!FlattenSeq(s) = FlattenSeq(s)
BY DEF L!FlattenSeq, FlattenSeq

Readings == [escaped : BOOLEAN, bytes : Seq(Bytes)]

Nothing == [escaped |-> FALSE, bytes |-> <<>>]

Reading(s) ==
  LET read[n \in 0..Len(s)] == IF n = 0 THEN [escaped |-> FALSE, bytes |-> <<>>] ELSE L!OneRead(read[n - 1], s[n])
  IN  read[Len(s)]

LEMMA OneReadFits ==
  ASSUME NEW state \in Readings, NEW byte \in Bytes PROVE L!OneRead(state, byte) \in Readings
<1>1. 10 \in Bytes /\ 13 \in Bytes
  BY DEF Bytes
<1>2. (IF byte = 110 THEN 10 ELSE IF byte = 114 THEN 13 ELSE byte) \in Bytes
  BY <1>1
<1>3. state.bytes \in Seq(Bytes)
  BY DEF Readings
<1> HIDE DEF Bytes
<1>4. \A b \in Bytes : Append(state.bytes, b) \in Seq(Bytes)
  BY <1>3
<1> QED
  BY <1>2, <1>3, <1>4 DEF Readings, L!OneRead

\* How the bytes of s are read one by one.
ReadBy(g, s) ==
  /\ g[0] = Nothing
  /\ \A n \in 1..Len(s) : g[n] = L!OneRead(g[n - 1], s[n])
  /\ \A n \in 0..Len(s) : g[n] \in Readings

LEMMA ReadingIs ==
  ASSUME NEW s \in Seq(Bytes)
  PROVE  \E g : ReadBy(g, s) /\ Reading(s) = g[Len(s)]
<1> DEFINE n == Len(s)
           step == [q \in (0..n) \X Readings |-> IF q[1] = 0 THEN q[2] ELSE L!OneRead(q[2], s[q[1]])]
           Rule(f) == f = [i \in 0..Len(s) |->
                             IF i = 0 THEN [escaped |-> FALSE, bytes |-> <<>>] ELSE L!OneRead(f[i - 1], s[i])]
<1>0. n \in Nat /\ Nothing \in Readings
  <2>1. <<>> \in Seq(Bytes)
    OBVIOUS
  <2> QED
    BY <2>1 DEF Readings, Nothing
<1>1. step \in [(0..n) \X Readings -> Readings]
  <2> SUFFICES ASSUME NEW q \in (0..n) \X Readings
               PROVE  (IF q[1] = 0 THEN q[2] ELSE L!OneRead(q[2], s[q[1]])) \in Readings
    OBVIOUS
  <2>1. q[2] \in Readings /\ (q[1] # 0 => q[1] \in 1..Len(s))
    BY <1>0
  <2>2. q[1] # 0 => s[q[1]] \in Bytes
    BY <2>1, ElementOfSeq
  <2> QED
    BY <2>1, <2>2, OneReadFits
<1>2. PICK f \in [0..n -> Readings] : Climbs(f, 0, n, Nothing, step)
  <2> HIDE DEF step
  <2> QED
    BY <1>0, <1>1, ClimbExists
<1>3. \A i \in 0..n : f[i] = IF i = 0 THEN Nothing ELSE L!OneRead(f[i - 1], s[i])
  <2> SUFFICES ASSUME NEW i \in 0..n, i # 0 PROVE f[i] = L!OneRead(f[i - 1], s[i])
    BY <1>2 DEF Climbs
  <2>1. f[i] = step[<<i, f[i - 1]>>] /\ <<i, f[i - 1]>> \in (0..n) \X Readings
    <3> HIDE DEF step
    <3> QED
      BY <1>0, <1>2 DEF Climbs
  <2> QED
    BY <2>1
<1>4. Rule(f)
  BY <1>3 DEF Nothing
<1>5. PICK g : Rule(g) /\ Reading(s) = g[Len(s)]
  BY <1>4 DEF Reading
<1> HIDE DEF step
<1>6. g[0] = Nothing /\ \A i \in 1..n : g[i] = L!OneRead(g[i - 1], s[i])
  <2>1. \A i \in 0..n : g[i] = IF i = 0 THEN Nothing ELSE L!OneRead(g[i - 1], s[i])
    BY <1>5 DEF Nothing
  <2> HIDE DEF Rule
  <2> QED
    BY <1>0, <2>1
<1> DEFINE S == {i \in 0..n : g[i] \in Readings}
<1>7. 0 \in S
  BY <1>0, <1>6
<1>8. \A k \in 0..n - 1 : k \in S => k + 1 \in S
  <2> SUFFICES ASSUME NEW k \in 0..n - 1, g[k] \in Readings PROVE g[k + 1] \in Readings
    BY <1>0
  <2>1. k + 1 \in 1..Len(s) /\ (k + 1) - 1 = k
    BY <1>0
  <2>2. s[k + 1] \in Bytes /\ g[k + 1] = L!OneRead(g[k], s[k + 1])
    BY <1>6, <2>1, ElementOfSeq
  <2> QED
    BY <2>2, OneReadFits
<1> HIDE DEF S
<1>9. \A k \in 0..n : k \in S
  BY <1>0, <1>7, <1>8, UpTo
<1>10. ReadBy(g, s)
  BY <1>6, <1>9 DEF ReadBy, S
<1> QED
  BY <1>5, <1>10

LEMMA ReadingAppend ==
  ASSUME NEW s \in Seq(Bytes), NEW b \in Bytes
  PROVE  Reading(Append(s, b)) = L!OneRead(Reading(s), b) /\ Append(s, b) \in Seq(Bytes)
<1> DEFINE more == Append(s, b)
<1>0. /\ more \in Seq(Bytes) /\ Len(more) = Len(s) + 1 /\ Len(s) \in Nat /\ more[Len(s) + 1] = b
      /\ \A i \in 1..Len(s) : more[i] = s[i]
  OBVIOUS
<1> HIDE DEF more
<1>1. PICK f : ReadBy(f, s) /\ Reading(s) = f[Len(s)]
  BY ReadingIs
<1>2. PICK g : ReadBy(g, more) /\ Reading(more) = g[Len(more)]
  BY <1>0, ReadingIs
<1> DEFINE S == {k \in 0..Len(s) : g[k] = f[k]}
<1>3. 0 \in S
  BY <1>0, <1>1, <1>2 DEF ReadBy
<1>4. \A k \in 0..Len(s) - 1 : k \in S => k + 1 \in S
  <2> SUFFICES ASSUME NEW k \in 0..Len(s) - 1, g[k] = f[k] PROVE g[k + 1] = f[k + 1]
    BY <1>0
  <2>1. k + 1 \in 1..Len(s) /\ k + 1 \in 1..Len(more) /\ (k + 1) - 1 = k /\ more[k + 1] = s[k + 1]
    BY <1>0
  <2>2. f[k + 1] = L!OneRead(f[k], s[k + 1])
    BY <1>1, <2>1 DEF ReadBy
  <2>3. g[k + 1] = L!OneRead(g[k], more[k + 1])
    BY <1>2, <2>1 DEF ReadBy
  <2> QED
    BY <2>1, <2>2, <2>3
<1> HIDE DEF S
<1>5. \A k \in 0..Len(s) : k \in S
  BY <1>0, <1>3, <1>4, UpTo
<1>6. g[Len(s)] = f[Len(s)]
  BY <1>0, <1>5 DEF S
<1>7. g[Len(s) + 1] = L!OneRead(g[Len(s)], b)
  <2>1. Len(s) + 1 \in 1..Len(more) /\ (Len(s) + 1) - 1 = Len(s)
    BY <1>0
  <2> QED
    BY <1>0, <1>2, <2>1 DEF ReadBy
<1> QED
  BY <1>0, <1>1, <1>2, <1>6, <1>7 DEF more

Written(b) == IF b = 34 \/ b = 92 THEN <<92, b>>
              ELSE IF b = 10 THEN <<92, 110>>
              ELSE IF b = 13 THEN <<92, 114>> ELSE <<b>>

\* Of a byte that is written, the reader reads that byte, whatever it read before.
LEMMA WrittenIsRead ==
  ASSUME NEW s \in Seq(Bytes), NEW done \in Seq(Bytes), NEW b \in Bytes,
         Reading(s) = [escaped |-> FALSE, bytes |-> done]
  PROVE  /\ Written(b) \in Seq(Bytes)
         /\ Reading(s \o Written(b)) = [escaped |-> FALSE, bytes |-> Append(done, b)]
<1>1. 92 \in Bytes /\ 110 \in Bytes /\ 114 \in Bytes
  BY DEF Bytes
<1> HIDE DEF Bytes
<1>2. ASSUME NEW x \in Bytes, NEW y, Written(b) = <<92, x>>,
             y = IF x = 110 THEN 10 ELSE IF x = 114 THEN 13 ELSE x
      PROVE  /\ Written(b) \in Seq(Bytes)
             /\ Reading(s \o Written(b)) = [escaped |-> FALSE, bytes |-> Append(done, y)]
  <2> DEFINE t == Append(s, 92)
  <2>1. Reading(t) = L!OneRead(Reading(s), 92) /\ t \in Seq(Bytes)
    BY <1>1, ReadingAppend
  <2>2. Reading(t) = [escaped |-> TRUE, bytes |-> done]
    BY <2>1 DEF L!OneRead
  <2>3. s \o <<92, x>> = Append(t, x) /\ <<92, x>> \in Seq(Bytes)
    BY <1>1
  <2> HIDE DEF t
  <2>4. Reading(Append(t, x)) = L!OneRead(Reading(t), x)
    BY <2>1, ReadingAppend
  <2>5. L!OneRead([escaped |-> TRUE, bytes |-> done], x) = [escaped |-> FALSE, bytes |-> Append(done, y)]
    BY <1>2 DEF L!OneRead
  <2> QED
    BY <1>2, <2>2, <2>3, <2>4, <2>5
<1>3. CASE b = 34 \/ b = 92
  <2>1. Written(b) = <<92, b>> /\ b = IF b = 110 THEN 10 ELSE IF b = 114 THEN 13 ELSE b
    BY <1>3 DEF Written
  <2> QED
    BY <1>2, <2>1
<1>4. CASE b = 10
  <2>1. Written(b) = <<92, 110>>
    BY <1>4 DEF Written
  <2> QED
    BY <1>1, <1>2, <1>4, <2>1
<1>5. CASE b = 13
  <2>1. Written(b) = <<92, 114>>
    BY <1>5 DEF Written
  <2> QED
    BY <1>1, <1>2, <1>5, <2>1
<1>6. CASE b \notin {34, 92, 10, 13}
  <2>1. Written(b) = <<b>>
    BY <1>6 DEF Written
  <2>2. Reading(Append(s, b)) = L!OneRead(Reading(s), b)
    BY ReadingAppend
  <2>3. L!OneRead(Reading(s), b) = [escaped |-> FALSE, bytes |-> Append(done, b)]
    BY <1>6 DEF L!OneRead
  <2>4. s \o <<b>> = Append(s, b) /\ <<b>> \in Seq(Bytes)
    OBVIOUS
  <2> QED
    BY <2>1, <2>2, <2>3, <2>4
<1> QED
  BY <1>3, <1>4, <1>5, <1>6

LEMMA ReadJsonIs ==
  ASSUME NEW s
  PROVE  LET w == SubSeq(s, 2, Len(s) - 1)
         IN  L!ReadJson(s) = IF \E i \in DOMAIN w : w[i] < 32 THEN {} ELSE {Reading(w).bytes}
BY DEF L!ReadJson, Reading

LEMMA JsonReadsBack ==
  ASSUME NEW s \in Seq(Bytes)
  PROVE  ~ L!Unescaped(s) => L!ReadJson(L!WriteJson(s)) = {s}
<1> DEFINE n == Len(s)
           parts(k) == [i \in 1..k |-> Written(s[i])]
           W(k) == FlattenSeq(parts(k))
           first(k) == [i \in 1..k |-> s[i]]
<1>0. n \in Nat /\ \A i \in 1..n : s[i] \in Bytes
  BY ElementOfSeq
<1>1. \A b \in Bytes : Written(b) \in Seq(Bytes) /\ DOMAIN Written(b) = 1..Len(Written(b))
  <2> SUFFICES ASSUME NEW b \in Bytes PROVE Written(b) \in Seq(Bytes)
    OBVIOUS
  <2>1. 92 \in Bytes /\ 110 \in Bytes /\ 114 \in Bytes
    BY DEF Bytes
  <2> HIDE DEF Bytes
  <2> QED
    BY <2>1 DEF Written
<1>2. \A k \in 0..n : parts(k) \in Seq(Seq(Bytes)) /\ Len(parts(k)) = k
  BY <1>0, <1>1
<1> HIDE DEF Bytes
<1> DEFINE OK(k) == W(k) \in Seq(Bytes) /\ Reading(W(k)) = [escaped |-> FALSE, bytes |-> first(k)]
           S == {k \in 0..n : OK(k)}
<1>3. 0 \in S
  <2>1. parts(0) = <<>> /\ first(0) = <<>> /\ <<>> \in Seq(Bytes) /\ Len(<<>>) = 0
    OBVIOUS
  <2>2. FlattenSeq(<<>>) = <<>>
    <3>1. <<>> \in Seq(Seq(Bytes))
      OBVIOUS
    <3> QED
      BY <3>1, FlattenExists
  <2>3. PICK g : ReadBy(g, <<>>) /\ Reading(<<>>) = g[Len(<<>>)]
    BY <2>1, ReadingIs
  <2>4. Reading(<<>>) = Nothing
    BY <2>1, <2>3 DEF ReadBy
  <2>5. W(0) = <<>>
    BY <2>1, <2>2
  <2>6. <<>> \in Seq(Bytes) /\ first(0) = <<>>
    BY <2>1
  <2> HIDE DEF W, first
  <2>7. OK(0)
    BY <2>4, <2>5, <2>6 DEF Nothing
  <2> HIDE DEF OK
  <2> QED
    BY <1>0, <2>7
<1>4. \A k \in 0..n - 1 : k \in S => k + 1 \in S
  <2> HIDE DEF OK
  <2> SUFFICES ASSUME NEW k \in 0..n - 1, OK(k) PROVE OK(k + 1)
    BY <1>0
  <2> USE DEF OK
  <2> DEFINE b == s[k + 1]
  <2>1. k \in 0..n /\ k \in Nat /\ b \in Bytes
    BY <1>0
  <2>2. parts(k + 1) = Append(parts(k), Written(b)) /\ first(k + 1) = Append(first(k), b)
    BY <1>0, <2>1
  <2>3. first(k) \in Seq(Bytes)
    BY <1>0, <2>1
  <2> HIDE DEF b, first, parts
  <2>4. W(k + 1) = W(k) \o Written(b)
    BY <1>1, <1>2, <2>1, <2>2, FlattenAppend
  <2>5. Reading(W(k) \o Written(b)) = [escaped |-> FALSE, bytes |-> Append(first(k), b)]
    BY <2>1, <2>3, WrittenIsRead
  <2>6. W(k) \o Written(b) \in Seq(Bytes)
    BY <1>1, <2>1
  <2> QED
    BY <2>2, <2>4, <2>5, <2>6
<1> HIDE DEF S
<1>5. \A k \in 0..n : k \in S
  BY <1>0, <1>3, <1>4, UpTo
<1>6. first(n) = s
  BY <1>0
<1>7. W(n) \in Seq(Bytes) /\ Reading(W(n)) = [escaped |-> FALSE, bytes |-> s]
  <2> HIDE DEF W, first, OK
  <2>1. OK(n)
    BY <1>0, <1>5 DEF S
  <2> QED
    BY <1>6, <2>1 DEF OK
<1>8. L!WriteJson(s) = <<34>> \o W(n) \o <<34>>
  <2>1. DOMAIN s = 1..n
    OBVIOUS
  <2> QED
    BY <2>1, FlattenSameL DEF L!WriteJson, Written
<1>9. SubSeq(L!WriteJson(s), 2, Len(L!WriteJson(s)) - 1) = W(n)
  <2> DEFINE w == W(n)
             all == <<34>> \o w \o <<34>>
             mid == SubSeq(all, 2, Len(all) - 1)
  <2>1. w \in Seq(Bytes) /\ 34 \in Bytes /\ Len(w) \in Nat
    BY <1>7 DEF Bytes
  <2> HIDE DEF w
  <2>2. /\ all \in Seq(Bytes) /\ Len(all) = Len(w) + 2
        /\ \A i \in 1..Len(w) : all[i + 1] = w[i]
    BY <2>1
  <2> HIDE DEF all
  <2>3. mid \in Seq(Bytes) /\ Len(mid) = Len(w) /\ \A i \in 1..Len(w) : mid[i] = all[2 + i - 1]
    <3>1. \A i \in 2..Len(all) - 1 : all[i] \in Bytes
      BY <2>1, <2>2, ElementOfSeq
    <3>2. Len(all) - 1 \in Int /\ (Len(all) - 1) - 2 + 1 = Len(w) /\ (2 > Len(all) - 1 => Len(w) = 0)
      BY <2>1, <2>2
    <3> QED
      BY <2>1, <3>1, <3>2, SubSeqProperties
  <2>4. \A i \in 1..Len(w) : mid[i] = w[i]
    BY <2>1, <2>2, <2>3
  <2> HIDE DEF mid
  <2>5. mid = w
    BY <2>1, <2>3, <2>4, SeqEqual
  <2> QED
    BY <1>8, <2>5 DEF mid, all, w
<1>10. L!ReadJson(L!WriteJson(s)) =
         IF \E i \in DOMAIN W(n) : W(n)[i] < 32 THEN {} ELSE {Reading(W(n)).bytes}
  BY <1>9, ReadJsonIs
<1>11. (\E i \in DOMAIN W(n) : W(n)[i] < 32) <=> (\E i \in DOMAIN s : s[i] < 32 /\ s[i] \notin {10, 13})
  <2>1. (\E i \in DOMAIN W(n) : W(n)[i] < 32) <=> \E v \in Range(W(n)) : v < 32
    BY DEF Range
  <2>2. \A v : v \in Range(W(n)) <=> \E i \in 1..n : v \in Range(Written(s[i]))
    <3>2. \A i \in 1..n : parts(n)[i] = Written(s[i])
      OBVIOUS
    <3> HIDE DEF parts
    <3>1. \A v : v \in Range(W(n)) <=> \E i \in 1..Len(parts(n)) : v \in Range(parts(n)[i])
      BY <1>0, <1>2, FlattenRange
    <3> QED
      BY <1>0, <1>2, <3>1, <3>2
  <2>3. ASSUME NEW b \in Bytes
        PROVE  (\E v \in Range(Written(b)) : v < 32) <=> b < 32 /\ b \notin {10, 13}
    <3>0. b \in Nat
      BY DEF Bytes
    <3>1. \A x, y : Range(<<x, y>>) = {x, y} /\ Range(<<x>>) = {x}
      BY DEF Range
    <3>2. CASE b = 34 \/ b = 92
      <4>1. Written(b) = <<92, b>>
        BY <3>2 DEF Written
      <4> QED
        BY <3>1, <3>2, <4>1
    <3>3. CASE b = 10
      BY <3>1, <3>3 DEF Written
    <3>4. CASE b = 13
      BY <3>1, <3>4 DEF Written
    <3>5. CASE b \notin {34, 92, 10, 13}
      <4>1. Written(b) = <<b>>
        BY <3>5 DEF Written
      <4> QED
        BY <3>1, <3>5, <4>1
    <3> QED
      BY <3>2, <3>3, <3>4, <3>5
  <2>4. DOMAIN s = 1..n
    OBVIOUS
  <2> HIDE DEF W
  <2> QED
    BY <1>0, <2>1, <2>2, <2>3, <2>4
<1>12. Reading(W(n)).bytes = s
  BY <1>7
<1> DEFINE low == \E i \in DOMAIN W(n) : W(n)[i] < 32
           control == \E i \in DOMAIN s : s[i] < 32 /\ s[i] \notin {10, 13}
<1>13. low <=> control
  BY <1>11
<1>14. L!ReadJson(L!WriteJson(s)) = IF low THEN {} ELSE {s}
  <2>1. L!ReadJson(L!WriteJson(s)) = IF low THEN {} ELSE {Reading(W(n)).bytes}
    BY <1>10
  <2> HIDE DEF low, W
  <2> QED
    BY <1>12, <2>1
<1> HIDE DEF low, control, W
<1>15. ~ control => L!ReadJson(L!WriteJson(s)) = {s}
  BY <1>13, <1>14
<1> QED
  BY <1>15 DEF control, L!Unescaped

-----------------------------------------------------------------------------
(* The editors, their rings and the recorder.                                 *)

EditInv ==
  /\ line \in Seq(Nat) /\ history \in Seq(Seq(Nat)) /\ cursor = Len(line)
  /\ index \in 0..Len(history) /\ recalled \in BOOLEAN
  /\ ~ recalled => index = Len(history)

ReadInv ==
  /\ text \in Seq(Bytes) /\ at = Len(text) /\ halved \in BOOLEAN
  /\ ~ halved => Validate(text)

RingInv ==
  /\ latest # <<>> => ring # <<>> /\ turn = 0 /\ ring[1] = latest
  /\ ring \in Seq(Seq(Bytes)) /\ clips \in Seq(Seq(Bytes)) /\ copied \in Seq(Bytes)
  /\ clips = <<>> => copied = <<>>
  /\ clips # <<>> => clips[1] = SubSeq(copied, 1, IF Len(copied) <= ClipLimit THEN Len(copied) ELSE ClipLimit)

RecordInv ==
  /\ shown \in Seq(Bytes) /\ events \in Seq(Seq(Bytes)) /\ FlattenSeq(events) = shown

LEMMA CodesAre == Codes \subseteq Scalars /\ \A c \in Codes : Encode(c) \in Seq(Bytes) /\ Encode(c) # <<>>
<1>1. Codes \subseteq Scalars
  BY EditorsAssumption DEF Scalars
<1>2. ASSUME NEW c \in Codes PROVE Encode(c) \in Seq(Bytes) /\ Encode(c) # <<>>
  <2>1. Encode(c) \in Seq(Bytes) /\ Len(Encode(c)) \in 1..4
    BY <1>1, EncodeIs
  <2>2. Len(Encode(c)) # 0
    BY <2>1, SMTT(30)
  <2>3. Len(<<>>) = 0
    OBVIOUS
  <2> QED
    BY <2>1, <2>2, <2>3
<1> QED
  BY <1>1, <1>2

LEMMA MinIs == ASSUME NEW m \in Nat, NEW n \in Nat PROVE L!Min({m, n}) = IF m <= n THEN m ELSE n
BY DEF L!Min

\* Behind the last place, nothing is pushed aside.
LEMMA InsertedLast ==
  ASSUME NEW S, NEW s \in Seq(S), NEW more \in Seq(S)
  PROVE  L!InsertedAt(s, Len(s), more) = s \o more
<1>1. SubSeq(s, 1, Len(s)) = s
  OBVIOUS
<1>2. SubSeq(s, Len(s) + 1, Len(s)) = <<>>
  OBVIOUS
<1>3. s \o more \in Seq(S) /\ (s \o more) \o <<>> = s \o more
  OBVIOUS
<1> QED
  BY <1>1, <1>2, <1>3 DEF L!InsertedAt

LEMMA RemovedLast ==
  ASSUME NEW S, NEW s \in Seq(S), Len(s) > 0
  PROVE  LET t == L!RemoveAt(s, Len(s))
         IN  t \in Seq(S) /\ Len(t) = Len(s) - 1 /\ \A i \in 1..Len(t) : t[i] = s[i]
<1> DEFINE u == SubSeq(s, 1, Len(s) - 1)
<1>1. SubSeq(s, Len(s) + 1, Len(s)) = <<>>
  OBVIOUS
<1>2. u \in Seq(S) /\ Len(u) = Len(s) - 1 /\ \A i \in 1..Len(u) : u[i] = s[i]
  <2>1. Len(s) \in Nat /\ 1 \in Nat /\ \A i \in 1..Len(s) : s[i] \in S
    BY ElementOfSeq
  <2>2. Len(s) - 1 \in Nat /\ 1 \in 1..(Len(s) - 1) + 1 /\ Len(s) - 1 = (Len(s) - 1) - 1 + 1
    BY <2>1
  <2>3. \A i \in 1..Len(s) - 1 : i \in 1..Len(s)
    BY <2>1
  <2>4. \A i \in 1..(Len(s) - 1) : s[i] \in S
    BY <2>1, <2>3
  <2>5. Len(u) = Len(s) - 1
    BY <2>1, <2>2
  <2>6. u \in Seq(S)
    BY <2>1, <2>2, <2>4
  <2>7. \A i \in 1..Len(u) : u[i] = s[i]
    BY <2>1, <2>2, <2>5
  <2> QED
    BY <2>5, <2>6, <2>7
<1>3. u \o <<>> = u
  BY <1>2
<1>4. L!RemoveAt(s, Len(s)) = u
  BY <1>1, <1>3 DEF L!RemoveAt
<1> QED
  BY <1>2, <1>4

LEMMA EditStep == ASSUME EditInv, L!EditNext PROVE EditInv'
<1> USE DEF EditInv
<1>1. CASE L!Insert
  <2>1. PICK code \in Codes : line' = L!InsertedAt(line, cursor, <<code>>) /\ cursor' = cursor + 1
    BY <1>1 DEF L!Insert
  <2>2. UNCHANGED <<history, index, recalled>>
    BY <1>1 DEF L!Insert
  <2>3. code \in Nat
    BY EditorsAssumption
  <2>4. <<code>> \in Seq(Nat)
    BY <2>3
  <2>5. line' = line \o <<code>>
    BY <2>1, <2>4, InsertedLast
  <2>6. line \o <<code>> \in Seq(Nat) /\ Len(line \o <<code>>) = Len(line) + 1
    BY <2>4
  <2> QED
    BY <2>1, <2>2, <2>5, <2>6
<1>2. CASE L!Backspace
  <2>1. Len(line) > 0 /\ line' = L!RemoveAt(line, Len(line)) /\ cursor' = Len(line) - 1
    BY <1>2 DEF L!Backspace
  <2>2. UNCHANGED <<history, index, recalled>>
    BY <1>2 DEF L!Backspace
  <2>3. line' \in Seq(Nat) /\ Len(line') = Len(line) - 1
    BY <2>1, RemovedLast
  <2> QED
    BY <2>1, <2>2, <2>3
<1>3. CASE L!HistoryUp
  <2>1. /\ history # <<>> /\ index' = (IF index > 0 THEN index - 1 ELSE index)
        /\ line' = history[index' + 1] /\ cursor' = Len(line') /\ recalled' = TRUE /\ history' = history
    BY <1>3 DEF L!HistoryUp
  <2>2. Len(history) \in Nat /\ Len(history) # 0
    BY <2>1, EmptySeq
  <2>3. index' \in 0..Len(history) /\ index' + 1 \in 1..Len(history)
    BY <2>1, <2>2
  <2>4. history[index' + 1] \in Seq(Nat)
    BY <2>3, ElementOfSeq
  <2> QED
    BY <2>1, <2>3, <2>4
<1>4. CASE L!Submit
  <2>1. /\ history' = (IF line = <<>> THEN history ELSE Append(history, line))
        /\ index' = Len(history') /\ line' = <<>> /\ cursor' = 0 /\ recalled' = FALSE
    BY <1>4 DEF L!Submit, L!IndexAfter
  <2>2. Append(history, line) \in Seq(Seq(Nat))
    OBVIOUS
  <2>3. history' \in Seq(Seq(Nat))
    BY <2>1, <2>2
  <2>4. Len(history') \in 0..Len(history')
    <3>1. Len(history') \in Nat
      BY <2>3
    <3> QED
      BY <3>1
  <2>5. <<>> \in Seq(Nat) /\ Len(<<>>) = 0
    OBVIOUS
  <2> QED
    BY <2>1, <2>3, <2>4, <2>5
<1> QED
  BY <1>1, <1>2, <1>3, <1>4 DEF L!EditNext

LEMMA FlattenEmpty == FlattenSeq(<<>>) = <<>> /\ <<>> \in Seq(Seq(Bytes)) /\ <<>> \in Seq(Bytes)
<1>1. <<>> \in Seq(Seq(Bytes)) /\ <<>> \in Seq(Bytes)
  OBVIOUS
<1>2. ASSUME NEW seqs \in Seq(Seq(Bytes)), seqs = <<>> PROVE FlattenSeq(seqs) = <<>>
  BY <1>2 DEF FlattenSeq
<1> QED
  BY <1>1, <1>2, Zenon

\* One or two characters behind a text keep it UTF-8.
LEMMA TypedIs ==
  ASSUME NEW s \in Seq(Bytes), NEW codes \in {<<c>> : c \in Codes} \cup (Codes \X Codes)
  PROVE  LET bytes == L!FlattenSeq([i \in DOMAIN codes |-> Encode(codes[i])])
         IN  bytes \in Seq(Bytes) /\ (Validate(s) => Validate(s \o bytes))
<1>0. FlattenSeq(<<>>) = <<>> /\ <<>> \in Seq(Seq(Bytes)) /\ <<>> \in Seq(Bytes)
  BY FlattenEmpty
<1>1. ASSUME NEW e \in Seq(Bytes) PROVE FlattenSeq(<<e>>) = e /\ <<e>> \in Seq(Seq(Bytes))
  <2>1. Append(<<>>, e) = <<e>> /\ <<e>> \in Seq(Seq(Bytes))
    OBVIOUS
  <2>2. <<>> \o e = e
    BY ConcatEmptySeq
  <2>3. FlattenSeq(Append(<<>>, e)) = FlattenSeq(<<>>) \o e
    BY <1>0, FlattenAppend, Zenon
  <2> QED
    BY <1>0, <2>1, <2>2, <2>3, Zenon
<1>2. ASSUME NEW c \in Codes, codes = <<c>>
      PROVE  LET bytes == L!FlattenSeq([i \in DOMAIN codes |-> Encode(codes[i])])
             IN  bytes \in Seq(Bytes) /\ (Validate(s) => Validate(s \o bytes))
  <2>1. [i \in DOMAIN codes |-> Encode(codes[i])] = <<Encode(c)>>
    BY <1>2
  <2>2. L!FlattenSeq(<<Encode(c)>>) = Encode(c)
    BY <1>1, CodesAre, FlattenSameL
  <2>3. c \in Scalars /\ Encode(c) \in Seq(Bytes)
    BY CodesAre
  <2>4. Validate(s) => Validate(s \o Encode(c))
    BY <2>3, ValidAppend
  <2> QED
    BY <2>1, <2>2, <2>3, <2>4
<1>3. ASSUME NEW c \in Codes, NEW d \in Codes, codes = <<c, d>>
      PROVE  LET bytes == L!FlattenSeq([i \in DOMAIN codes |-> Encode(codes[i])])
             IN  bytes \in Seq(Bytes) /\ (Validate(s) => Validate(s \o bytes))
  <2> DEFINE x == Encode(c)
             y == Encode(d)
  <2>1. [i \in DOMAIN codes |-> Encode(codes[i])] = <<x, y>>
    BY <1>3
  <2>2. x \in Seq(Bytes) /\ y \in Seq(Bytes) /\ c \in Scalars /\ d \in Scalars
    BY CodesAre
  <2>3. Validate(s) => Validate((s \o x) \o y)
    <3>1. Validate(s) => s \o x \in Seq(Bytes) /\ Validate(s \o x)
      BY <2>2, ValidAppend
    <3>2. ASSUME NEW t \in Seq(Bytes), Validate(t) PROVE Validate(t \o y)
      BY <2>2, <3>2, ValidAppend
    <3> QED
      BY <3>1, <3>2, Zenon
  <2> HIDE DEF x, y
  <2>4. Append(<<x>>, y) = <<x, y>>
    <3>1. Append(<<x>>, y) \in Seq(Seq(Bytes)) /\ <<x, y>> \in Seq(Seq(Bytes))
      BY <2>2
    <3>2. Len(Append(<<x>>, y)) = 2 /\ Len(<<x, y>>) = 2
      BY <2>2
    <3>3. \A i \in 1..2 : Append(<<x>>, y)[i] = <<x, y>>[i]
      <4>1. Append(<<x>>, y)[1] = x /\ Append(<<x>>, y)[2] = y
        BY <2>2
      <4> QED
        BY <4>1
    <3> QED
      BY <3>1, <3>2, <3>3, SeqEqual, Zenon
  <2>5. L!FlattenSeq(<<x, y>>) = x \o y
    <3>1. <<x>> \in Seq(Seq(Bytes)) /\ FlattenSeq(<<x>>) = x
      BY <1>1, <2>2
    <3>2. FlattenSeq(Append(<<x>>, y)) = FlattenSeq(<<x>>) \o y
      BY <2>2, <3>1, FlattenAppend, Zenon
    <3> QED
      BY <2>4, <3>1, <3>2, FlattenSameL, Zenon
  <2>6. x \o y \in Seq(Bytes)
    BY <2>2, ConcatProperties
  <2>7. (s \o x) \o y = s \o (x \o y)
    BY <2>2, ConcatAssociative
  <2> QED
    BY <2>1, <2>3, <2>5, <2>6, <2>7, Zenon
<1> QED
  BY <1>2, <1>3

LEMMA ReadStep == ASSUME ReadInv, L!ReadNext PROVE ReadInv'
<1> USE DEF ReadInv
<1>1. CASE L!Type
  <2>1. PICK codes \in {<<c>> : c \in {d \in Codes : d >= 32}} \cup (Codes \X Codes) :
          LET bytes == L!FlattenSeq([i \in DOMAIN codes |-> Encode(codes[i])])
          IN  text' = L!InsertedAt(text, at, bytes) /\ at' = at + L!Step(bytes)
    BY <1>1, Zenon DEF L!Type
  <2>2. codes \in {<<c>> : c \in Codes} \cup (Codes \X Codes)
    OBVIOUS
  <2> DEFINE bytes == L!FlattenSeq([i \in DOMAIN codes |-> Encode(codes[i])])
  <2>3. bytes \in Seq(Bytes) /\ (Validate(text) => Validate(text \o bytes))
    BY <2>2, TypedIs
  <2>4. text' = L!InsertedAt(text, at, bytes) /\ at' = at + Len(bytes) /\ halved' = halved
    BY <1>1, <2>1 DEF L!Type, L!Step
  <2> HIDE DEF bytes
  <2>5. text' = text \o bytes
    BY <2>3, <2>4, InsertedLast
  <2>6. text \o bytes \in Seq(Bytes) /\ Len(text \o bytes) = Len(text) + Len(bytes)
    BY <2>3
  <2> QED
    BY <2>3, <2>4, <2>5, <2>6
<1>2. CASE L!FeedBackspace
  <2>1. Len(text) > 0 /\ text' = L!RemoveAt(text, Len(text)) /\ at' = Len(text) - 1
        /\ halved' = (halved \/ text[Len(text)] >= 128)
    BY <1>2 DEF L!FeedBackspace
  <2>2. text' \in Seq(Bytes) /\ Len(text') = Len(text) - 1 /\ \A i \in 1..Len(text') : text'[i] = text[i]
    BY <2>1, RemovedLast
  <2>3. ASSUME ~ halved' PROVE Validate(text')
    <3>1. Validate(text) /\ ~ (text[Len(text)] >= 128)
      BY <2>1, <2>3
    <3>2. Len(text) \in Nat /\ Len(text) - 1 \in Nat /\ Len(text) = (Len(text) - 1) + 1
      BY <2>1
    <3>3. text[Len(text)] < 128
      <4>1. text[Len(text)] \in Bytes
        BY <2>1, <3>2, ElementOfSeq
      <4> QED
        BY <3>1, <4>1 DEF Bytes
    <3> QED
      BY <2>2, <3>1, <3>2, <3>3, ValidShrink
  <2>4. halved' \in BOOLEAN
    BY <2>1
  <2> QED
    BY <2>1, <2>2, <2>3, <2>4
<1>3. CASE L!FeedEnter
  BY <1>3 DEF L!FeedEnter
<1>4. CASE L!ReadLine
  <2>1. text' = <<>> /\ at' = 0 /\ halved' = FALSE
    BY <1>4 DEF L!ReadLine
  <2>2. <<>> \in Seq(Bytes) /\ Len(<<>>) = 0 /\ Validate(<<>>)
    BY ValidEmpty
  <2> QED
    BY <2>1, <2>2
<1> QED
  BY <1>1, <1>2, <1>3, <1>4 DEF L!ReadNext
\* The newest entry of a ring is the one pushed last.
LEMMA PushedIs ==
  ASSUME NEW entries \in Seq(Seq(Bytes)), NEW b \in Seq(Bytes)
  PROVE  LET p == L!Pushed(entries, b) IN p \in Seq(Seq(Bytes)) /\ p # <<>> /\ p[1] = b
<1> DEFINE all == <<b>> \o entries
           n == Len(entries) + 1
           m == L!Min({n, RingLimit})
<1>1. Len(entries) \in Nat /\ RingLimit \in Nat \ {0}
  BY EditorsAssumption
<1>2. m \in 1..n
  <2>1. n \in Nat /\ n >= 1 /\ RingLimit \in Nat /\ RingLimit >= 1
    BY <1>1
  <2> HIDE DEF n
  <2>2. m = IF n <= RingLimit THEN n ELSE RingLimit
    BY <2>1, MinIs
  <2> HIDE DEF m
  <2> QED
    BY <2>1, <2>2
<1>3. <<b>> \in Seq(Seq(Bytes)) /\ Len(<<b>>) = 1 /\ <<b>>[1] = b
  OBVIOUS
<1>4. all \in Seq(Seq(Bytes)) /\ Len(all) = n /\ all[1] = b
  BY <1>1, <1>3, ConcatProperties
<1> HIDE DEF m, n, all
<1>5. n \in Nat /\ m \in Int /\ 1 <= m /\ m <= n /\ 1 \in Int
  BY <1>1, <1>2 DEF n
<1>6. \A i \in 1..m : all[i] \in Seq(Bytes)
  BY <1>4, <1>5, ElementOfSeq
<1> DEFINE p == SubSeq(all, 1, m)
<1>7. p \in Seq(Seq(Bytes)) /\ Len(p) = m /\ p[1] = all[1]
  <2>1. p \in Seq(Seq(Bytes)) /\ Len(p) = m
    BY <1>5, <1>6, SubSeqProperties
  <2>2. \A i \in 1..m : p[i] = all[i]
    BY <1>5, <1>6, SubSeqProperties
  <2> QED
    BY <1>5, <2>1, <2>2
<1>8. L!Pushed(entries, b) = p
  BY DEF L!Pushed, all, m, n
<1> HIDE DEF p
<1>9. p # <<>>
  BY <1>5, <1>7
<1> QED
  BY <1>4, <1>7, <1>8, <1>9

LEMMA RingStep == ASSUME RingInv, L!RingNext PROVE RingInv'
<1> USE DEF RingInv
<1>1. CASE L!Kill
  <2>1. PICK code \in Codes : ring' = L!Pushed(ring, Encode(code)) /\ latest' = Encode(code)
    BY <1>1 DEF L!Kill
  <2>2. turn' = 0 /\ clips' = clips /\ copied' = copied
    BY <1>1 DEF L!Kill
  <2>3. Encode(code) \in Seq(Bytes)
    BY CodesAre
  <2>4. ring' \in Seq(Seq(Bytes)) /\ ring' # <<>> /\ ring'[1] = latest'
    BY <2>1, <2>3, PushedIs
  <2> QED
    BY <2>2, <2>4
<1>2. CASE L!Rotate
  BY <1>2 DEF L!Rotate
<1>3. CASE L!Copy
  <2>1. PICK code \in Codes :
          /\ clips' = L!Pushed(clips, SubSeq(Encode(code), 1, L!Min({Len(Encode(code)), ClipLimit})))
          /\ copied' = Encode(code)
    BY <1>3 DEF L!Copy
  <2>2. ring' = ring /\ turn' = turn /\ latest' = latest
    BY <1>3 DEF L!Copy
  <2> DEFINE e == Encode(code)
             m == IF Len(e) <= ClipLimit THEN Len(e) ELSE ClipLimit
  <2>3. e \in Seq(Bytes)
    BY CodesAre
  <2>4. Len(e) \in Nat /\ ClipLimit \in Nat
    BY <2>3, EditorsAssumption
  <2>5. L!Min({Len(e), ClipLimit}) = m
    BY <2>4, MinIs
  <2>6. clips' = L!Pushed(clips, SubSeq(e, 1, m)) /\ copied' = e
    BY <2>1, <2>5
  <2> HIDE DEF e
  <2>7. m \in Int /\ 1 \in Int /\ m <= Len(e)
    BY <2>4
  <2>8. SubSeq(e, 1, m) \in Seq(Bytes)
    <3>1. \A i \in 1..m : e[i] \in Bytes
      BY <2>3, <2>4, <2>7, ElementOfSeq
    <3> HIDE DEF m
    <3> QED
      BY <2>7, <3>1, SubSeqProperties
  <2>9. clips' \in Seq(Seq(Bytes)) /\ clips' # <<>> /\ clips'[1] = SubSeq(e, 1, m)
    BY <2>6, <2>8, PushedIs
  <2> QED
    BY <2>2, <2>3, <2>6, <2>9
<1> QED
  BY <1>1, <1>2, <1>3 DEF L!RingNext

LEMMA RecordStep == ASSUME RecordInv, L!RecordNext PROVE RecordInv'
<1> USE DEF RecordInv
<1>1. CASE L!Start
  <2>1. events' = <<>> /\ shown' = <<>>
    BY <1>1 DEF L!Start, L!Kept
  <2> QED
    BY <2>1, FlattenEmpty
<1>2. CASE L!Stop
  BY <1>2 DEF L!Stop
<1>3. CASE L!RecordOutput
  <2>1. CASE UNCHANGED <<events, shown>>
    BY <2>1
  <2>2. CASE ~ UNCHANGED <<events, shown>>
    <3> DEFINE bytes(codes) == L!FlattenSeq([i \in DOMAIN codes |-> Encode(codes[i])])
    <3>1. PICK codes \in {<<c>> : c \in Codes} \cup (Codes \X Codes) :
            events' = Append(events, bytes(codes)) /\ shown' = shown \o bytes(codes)
      BY <1>3, <2>2 DEF L!RecordOutput
    <3>2. bytes(codes) \in Seq(Bytes)
      BY TypedIs
    <3> DEFINE piece == bytes(codes)
    <3> HIDE DEF piece
    <3>3. piece \in Seq(Bytes) /\ events' = Append(events, piece) /\ shown' = shown \o piece
      BY <3>1, <3>2 DEF piece
    <3>4. Append(events, piece) \in Seq(Seq(Bytes)) /\ shown \o piece \in Seq(Bytes)
      BY <3>3
    <3>5. FlattenSeq(Append(events, piece)) = FlattenSeq(events) \o piece
      BY <3>3, FlattenAppend
    <3> QED
      BY <3>3, <3>4, <3>5
  <2> QED
    BY <2>1, <2>2
<1> QED
  BY <1>1, <1>2, <1>3 DEF L!RecordNext

\* What the editors, the rings and the recorder keep.
EditorsInv == EditInv /\ ReadInv /\ RingInv /\ RecordInv

LEMMA EditorsStart == Init => EditorsInv
<1> SUFFICES ASSUME Init PROVE EditorsInv
  OBVIOUS
<1>1. L!Init
  BY DEF Init
<1>2. /\ line = <<>> /\ history = <<>> /\ cursor = 0 /\ index = 0 /\ recalled = FALSE /\ latest = <<>>
      /\ text = <<>> /\ at = 0 /\ halved = FALSE
      /\ ring = <<>> /\ turn = 0 /\ clips = <<>> /\ copied = <<>> /\ events = <<>> /\ shown = <<>>
  BY <1>1 DEF L!Init
<1>3. EditInv
  <2>1. <<>> \in Seq(Nat) /\ <<>> \in Seq(Seq(Nat)) /\ Len(<<>>) = 0 /\ 0 \in 0..0
    OBVIOUS
  <2> QED
    BY <1>2, <2>1 DEF EditInv
<1>4. ReadInv
  <2>1. <<>> \in Seq(Bytes) /\ Len(<<>>) = 0
    OBVIOUS
  <2> QED
    BY <1>2, <2>1, ValidEmpty DEF ReadInv
<1>5. RingInv
  BY <1>2 DEF RingInv
<1>6. RecordInv
  BY <1>2, FlattenEmpty DEF RecordInv
<1> QED
  BY <1>3, <1>4, <1>5, <1>6 DEF EditorsInv

\* A step of one of them leaves the others alone.
LEMMA OneMoves ==
  /\ L!EditNext => UNCHANGED <<L!readVars, L!ringVars, L!recordVars>>
  /\ L!ReadNext => UNCHANGED <<L!editVars, L!ringVars, L!recordVars>>
  /\ L!RingNext => UNCHANGED <<L!editVars, L!readVars, L!recordVars>>
  /\ L!RecordNext => UNCHANGED <<L!editVars, L!readVars, L!ringVars>>
<1>1. L!EditNext => UNCHANGED <<L!readVars, L!ringVars, L!recordVars>>
  BY DEF L!EditNext, L!Insert, L!Backspace, L!HistoryUp, L!Submit
<1>2. L!ReadNext => UNCHANGED <<L!editVars, L!ringVars, L!recordVars>>
  BY DEF L!ReadNext, L!Type, L!FeedBackspace, L!FeedEnter, L!ReadLine
<1>3. L!RingNext => UNCHANGED <<L!editVars, L!readVars, L!recordVars>>
  BY DEF L!RingNext, L!Kill, L!Rotate, L!Copy
<1>4. L!RecordNext => UNCHANGED <<L!editVars, L!readVars, L!ringVars>>
  BY DEF L!RecordNext, L!Start, L!Stop, L!RecordOutput
<1> QED
  BY <1>1, <1>2, <1>3, <1>4

LEMMA EditStays == ASSUME EditInv, UNCHANGED L!editVars PROVE EditInv'
BY DEF EditInv, L!editVars

LEMMA ReadStays == ASSUME ReadInv, UNCHANGED L!readVars PROVE ReadInv'
BY DEF ReadInv, L!readVars

LEMMA RingStays == ASSUME RingInv, UNCHANGED L!ringVars PROVE RingInv'
BY DEF RingInv, L!ringVars

LEMMA RecordStays == ASSUME RecordInv, UNCHANGED L!recordVars PROVE RecordInv'
BY DEF RecordInv, L!recordVars

LEMMA EditorsMoves == EditorsInv /\ [Next]_vars => EditorsInv'
<1> SUFFICES ASSUME EditorsInv, [Next]_vars PROVE EditorsInv'
  OBVIOUS
<1> USE DEF EditorsInv
<1>1. CASE L!EditNext
  BY <1>1, OneMoves, EditStep, ReadStays, RingStays, RecordStays
<1>2. CASE L!ReadNext
  BY <1>2, OneMoves, EditStays, ReadStep, RingStays, RecordStays
<1>3. CASE L!RingNext
  BY <1>3, OneMoves, EditStays, ReadStays, RingStep, RecordStays
<1>4. CASE L!RecordNext
  BY <1>4, OneMoves, EditStays, ReadStays, RingStays, RecordStep
<1>5. CASE UNCHANGED editorVars
  <2>1. UNCHANGED <<L!editVars, L!readVars, L!ringVars, L!recordVars>>
    BY <1>5 DEF editorVars, L!editVars, L!readVars, L!ringVars, L!recordVars
  <2> QED
    BY <2>1, EditStays, ReadStays, RingStays, RecordStays
<1>6. L!EditNext \/ L!ReadNext \/ L!RingNext \/ L!RecordNext \/ UNCHANGED editorVars
  BY DEF Next, vars, Grow
<1> QED
  BY <1>1, <1>2, <1>3, <1>4, <1>5, <1>6

LEMMA EditorsHold == EditorsInv => EditorsExact
<1> SUFFICES ASSUME EditorsInv PROVE EditorsExact
  OBVIOUS
<1>1. cursor = Len(line) /\ index <= Len(history) /\ (~ recalled => index = Len(history))
  BY DEF EditorsInv, EditInv
<1>2. at = Len(text) /\ (~ halved => Validate(text))
  BY DEF EditorsInv, ReadInv
<1>3. latest # <<>> => L!Yank = latest
  <2>1. SUFFICES ASSUME latest # <<>> PROVE L!Yank = latest
    OBVIOUS
  <2>2. ring # <<>> /\ turn = 0 /\ ring[1] = latest /\ ring \in Seq(Seq(Bytes))
    BY <2>1 DEF EditorsInv, RingInv
  <2>3. Len(ring) \in Nat /\ Len(ring) # 0
    BY <2>2, EmptySeq
  <2>4. 0 % Len(ring) = 0
    BY <2>3
  <2> QED
    BY <2>2, <2>4 DEF L!Yank
<1>4. L!IsPrefix(L!Paste, copied) /\ (Len(L!Paste) < ClipLimit => L!Paste = copied)
  <2>0. clips \in Seq(Seq(Bytes)) /\ copied \in Seq(Bytes) /\ ClipLimit \in Nat /\ Len(copied) \in Nat
    BY EditorsAssumption DEF EditorsInv, RingInv
  <2>1. CASE clips = <<>>
    <3>1. copied = <<>>
      BY <2>1 DEF EditorsInv, RingInv
    <3>2. L!Paste = <<>>
      BY <2>1 DEF L!Paste
    <3>3. Len(<<>>) = 0 /\ SubSeq(<<>>, 1, 0) = <<>>
      OBVIOUS
    <3> QED
      BY <3>1, <3>2, <3>3 DEF L!IsPrefix
  <2>2. CASE clips # <<>>
    <3> DEFINE m == IF Len(copied) <= ClipLimit THEN Len(copied) ELSE ClipLimit
               cut == SubSeq(copied, 1, m)
    <3>1. L!Paste = cut
      BY <2>2 DEF EditorsInv, RingInv, L!Paste
    <3>2. m \in Nat /\ m <= Len(copied) /\ (m < ClipLimit => m = Len(copied))
      BY <2>0
    <3>3. SubSeq(copied, 1, Len(copied)) = copied
      BY <2>0
    <3> HIDE DEF m
    <3>4. cut \in Seq(Bytes) /\ Len(cut) = m
      <4>1. \A i \in 1..m : copied[i] \in Bytes
        BY <2>0, <3>2, ElementOfSeq
      <4> QED
        BY <3>2, <4>1, SubSeqProperties
    <3> HIDE DEF cut
    <3>5. SubSeq(cut, 1, Len(cut)) = cut
      BY <3>4
    <3>6. cut = SubSeq(copied, 1, m)
      BY DEF cut
    <3>7. L!IsPrefix(cut, copied)
      BY <3>2, <3>4, <3>5, <3>6 DEF L!IsPrefix
    <3>8. Len(cut) < ClipLimit => cut = copied
      BY <3>2, <3>3, <3>4, <3>6
    <3> QED
      BY <3>1, <3>7, <3>8
  <2> QED
    BY <2>1, <2>2
<1>5. L!FlattenSeq(events) = shown
  BY FlattenSameL DEF EditorsInv, RecordInv
<1>6. \A i \in DOMAIN events :
        ~ L!Unescaped(events[i]) => L!ReadJson(L!WriteJson(events[i])) = {events[i]}
  <2>1. events \in Seq(Seq(Bytes))
    BY DEF EditorsInv, RecordInv
  <2>2. \A i \in DOMAIN events : events[i] \in Seq(Bytes)
    BY <2>1
  <2> QED
    BY <2>2, JsonReadsBack
<1> QED
  BY <1>1, <1>2, <1>3, <1>4, <1>5, <1>6 DEF EditorsExact, L!EditorsExact

\* Whatever was typed, pasted, recalled, deleted or submitted, both editors' cursors stay
\* behind the text and the history's index within it, and the text stays UTF-8 until a
\* backspace halves a character; a yank gives the last kill and a paste the last copy up to
\* the limit; a recording holds the output since start(), and each piece of it without a
\* control character other than a line break reads back from its JSON (TTyTk-Editor,
\* rl::Editor, KillRing, clip::History, Recorder).
THEOREM EditorsAreExact == Spec => []EditorsExact
<1>1. Spec => []EditorsInv
  BY EditorsStart, EditorsMoves, PTL DEF Spec
<1> QED
  BY <1>1, EditorsHold, PTL

==================================================================================
