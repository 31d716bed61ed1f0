--------------------------- MODULE TextBufferProofs ---------------------------
(***************************************************************************)
(* Texts and TextBuffer for any alphabets, handles, texts and bounds: what  *)
(* segment() and the line index compute of a text, that the edits make      *)
(* texts of texts, where the motions of a cursor lead, and that the sharing *)
(* of strings is sound.                                                     *)
(***************************************************************************)
EXTENDS TextBuffer, Texts, TLAPS, WellFoundedInduction, SequenceTheorems,
        FunctionTheorems, FiniteSetTheorems

-----------------------------------------------------------------------------
(* What next_break() cuts at, as a fact about the whole text: a boundary as   *)
(* Texts states it, but with any number of ZWJs before a pictograph.          *)

PictographRun(chars, o) ==
  /\ o > 1 /\ At(chars, o) = "extended_pictographic" /\ At(chars, o - 1) = "zwj"
  /\ \E i \in 0..o - 2 :
       /\ At(chars, i) = "extended_pictographic"
       /\ \A j \in i + 1..o - 2 : At(chars, j) \in {"extend", "zwj"}

Cut(chars, o) ==
  \/ o \in {0, Len(chars)}
  \/ LET p == At(chars, o - 1)
         c == At(chars, o)
     IN  /\ ~ (p = "cr" /\ c = "lf")
         /\ \/ p \in Breaker \/ c \in Breaker
            \/ /\ ~ Hangul(p, c)
               /\ c \notin {"extend", "zwj", "spacing_mark"} /\ p # "prepend"
               /\ ~ PictographRun(chars, o) /\ ~ FlagOpen(chars, o)

-----------------------------------------------------------------------------

\* A set of numbers has a least one: what holds of no least counterexample holds of all.
LEMMA LeastNat ==
  ASSUME NEW T, T \subseteq Nat, T # {}
  PROVE  \E m \in T : \A n \in T : m <= n
<1> DEFINE R == OpToRel(<, Nat)
<1>1. IsWellFoundedOn(R, Nat)
  BY NatLessThanWellFounded
<1>2. \A m, n \in Nat : m < n => <<m, n>> \in R
  BY DEF OpToRel
<1> HIDE DEF R
<1>3. PICK m \in T : \A n \in T : ~ (<<n, m>> \in R)
  BY <1>1, WFMin
<1>4. \A n \in T : ~ (n < m)
  BY <1>2, <1>3
<1> QED
  BY <1>4

\* The same from above: a set of numbers up to n has a greatest one.
LEMMA GreatestNat ==
  ASSUME NEW n \in Nat, NEW T, T \subseteq 0..n, T # {}
  PROVE  \E m \in T : \A k \in T : k <= m
<1> DEFINE U == {n - k : k \in T}
<1>1. U \subseteq Nat /\ U # {}
  <2>1. \A k \in T : n - k \in Nat
    OBVIOUS
  <2> QED
    BY <2>1
<1>2. PICK u \in U : \A v \in U : u <= v
  <2> HIDE DEF U
  <2> QED
    BY <1>1, LeastNat
<1>3. PICK m \in T : u = n - m
  BY <1>2
<1>4. \A k \in T : n - k \in U
  OBVIOUS
<1>5. \A k \in T : n - m <= n - k
  <2> HIDE DEF U
  <2> QED
    BY <1>2, <1>3, <1>4
<1> QED
  BY <1>3, <1>5

LEMMA MinIs ==
  ASSUME NEW T, T \subseteq Nat, T # {}
  PROVE  Min(T) \in T /\ \A n \in T : Min(T) <= n
BY LeastNat DEF Min

LEMMA MaxIs ==
  ASSUME NEW n \in Nat, NEW T, T \subseteq 0..n, T # {}
  PROVE  Max(T) \in T /\ \A k \in T : k <= Max(T)
<1>1. \E m \in T : \A k \in T : m >= k
  BY GreatestNat
<1> QED
  BY <1>1 DEF Max

-----------------------------------------------------------------------------
(* The clusters of a text.                                                   *)

\* f is the recursion down from n along next: base at n, and elsewhere step of what f is
\* at the next place.
Descends(f, first, n, next, base, step) ==
  \A i \in first..n : f[i] = IF i = n THEN base ELSE step[<<i, f[next[i]]>>]

LEMMA DescentExists ==
  ASSUME NEW n \in Nat, NEW V, NEW base \in V, NEW first \in 0..n,
         NEW next, \A i \in first..n - 1 : next[i] \in i + 1..n,
         NEW step \in [(first..n) \X V -> V]
  PROVE  \E f \in [first..n -> V] : Descends(f, first, n, next, base, step)
<1> DEFINE Some(k) == \E f \in [n - k..n -> V] : Descends(f, n - k, n, next, base, step)
           T == {k \in 0..n - first : ~ Some(k)}
<1>0. n - first \in 0..n - first /\ n - (n - first) = first
  OBVIOUS
<1> SUFFICES ASSUME T # {} PROVE FALSE
  <2>1. Some(n - first)
    BY <1>0
  <2> QED
    BY <1>0, <2>1
<1>1. T \subseteq Nat
  OBVIOUS
<1>2. PICK k \in T : \A j \in T : k <= j
  <2> HIDE DEF T
  <2> QED
    BY <1>1, LeastNat
<1>3. k # 0
  <2>1. [i \in n - 0..n |-> base] \in [n - 0..n -> V]
    OBVIOUS
  <2>2. Descends([i \in n - 0..n |-> base], n - 0, n, next, base, step)
    BY DEF Descends
  <2> QED
    BY <2>1, <2>2
<1>4. k \in 1..n - first /\ k - 1 \in 0..n - first /\ ~ Some(k)
  BY <1>2, <1>3
<1>5. Some(k - 1)
  <2>1. k - 1 \notin T
    <3> HIDE DEF T
    <3> QED
      BY <1>2, <1>4
  <2> QED
    BY <1>4, <2>1
<1> DEFINE m == n - k
<1>6. n - (k - 1) = m + 1 /\ m \in first..n - 1 /\ next[m] \in m + 1..n
  BY <1>4
<1>7. PICK f \in [m + 1..n -> V] : Descends(f, m + 1, n, next, base, step)
  BY <1>5, <1>6
<1> DEFINE top == step[<<m, f[next[m]]>>]
           g == [i \in m..n |-> IF i = m THEN top ELSE f[i]]
<1>8. top \in V
  <2>1. f[next[m]] \in V /\ m \in first..n
    BY <1>6, <1>7
  <2> QED
    BY <2>1
<1>9. g \in [m..n -> V]
  BY <1>6, <1>7, <1>8
<1>10. Descends(g, m, n, next, base, step)
  <2> SUFFICES ASSUME NEW i \in m..n
               PROVE  g[i] = IF i = n THEN base ELSE step[<<i, g[next[i]]>>]
    BY DEF Descends
  <2> HIDE DEF m
  <2>1. i # n => next[i] \in i + 1..n
    BY <1>6
  <2>2. i # n => g[next[i]] = f[next[i]]
    BY <1>6, <2>1
  <2>3. CASE i = m
    <3>1. i # n /\ g[i] = top /\ top = step[<<i, f[next[i]]>>]
      BY <1>6, <2>3
    <3> QED
      BY <2>2, <3>1
  <2>4. CASE i # m
    <3>1. i \in m + 1..n /\ g[i] = f[i]
      BY <1>6, <2>4
    <3>2. f[i] = IF i = n THEN base ELSE step[<<i, f[next[i]]>>]
      BY <1>7, <3>1 DEF Descends
    <3> QED
      BY <2>2, <3>1, <3>2
  <2> QED
    BY <2>3, <2>4
<1> QED
  BY <1>4, <1>9, <1>10

LEMMA NextBreakIs ==
  ASSUME NEW S, NEW t \in Seq(S), NEW s \in 0..Len(t) - 1
  PROVE  LET e == NextBreak(t, s)
         IN  /\ e \in s + 1..Len(t)
             /\ e = Len(t) \/ ~ Joined(t, s, e)
             /\ \A o \in s + 1..e - 1 : Joined(t, s, o)
<1> DEFINE T == {o \in s + 1..Len(t) : o = Len(t) \/ ~ Joined(t, s, o)}
           e == NextBreak(t, s)
<1>0. Len(t) \in Nat /\ Len(t) \in s + 1..Len(t)
  OBVIOUS
<1>1. e = Min(T)
  BY <1>0 DEF NextBreak
<1>2. T \subseteq Nat /\ T # {}
  <2>1. Len(t) \in T
    BY <1>0
  <2> QED
    BY <1>0, <2>1
<1>3. e \in T /\ \A o \in T : e <= o
  <2> HIDE DEF T
  <2> QED
    BY <1>1, <1>2, MinIs
<1>4. \A o \in s + 1..e - 1 : o \in s + 1..Len(t) /\ o \notin T
  <2> HIDE DEF e
  <2>1. e \in s + 1..Len(t)
    BY <1>3
  <2>2. \A o \in s + 1..e - 1 : o \in s + 1..Len(t) /\ ~ (e <= o)
    BY <1>0, <2>1
  <2> QED
    BY <1>3, <2>2
<1> QED
  BY <1>3, <1>4

LEMMA NextBreakAtEnd ==
  ASSUME NEW S, NEW t \in Seq(S)
  PROVE  NextBreak(t, Len(t)) = Len(t)
BY DEF NextBreak

\* Nothing joins the code points around a cut, whatever comes before.
LEMMA PictographBehind ==
  ASSUME NEW S, NEW t \in Seq(S), NEW s \in 0..Len(t) - 1, NEW o \in s + 1..Len(t) - 1,
         Cut(t, s), At(t, o) = "extended_pictographic"
  PROVE  ZwjAfterPictographic(t, s, o) <=> PictographRun(t, o)
<1>1. ASSUME ZwjAfterPictographic(t, s, o) PROVE PictographRun(t, o)
  BY <1>1 DEF ZwjAfterPictographic, PictographRun
<1>2. ASSUME PictographRun(t, o) PROVE ZwjAfterPictographic(t, s, o)
  <2>1. PICK i \in 0..o - 2 : /\ At(t, i) = "extended_pictographic"
                              /\ \A j \in i + 1..o - 2 : At(t, j) \in {"extend", "zwj"}
    BY <1>2 DEF PictographRun
  <2>2. At(t, o - 1) = "zwj"
    BY <1>2 DEF PictographRun
  <2>3. ASSUME i < s PROVE FALSE
    <3>1. s \in i + 1..o - 2 \/ s = o - 1
      BY <2>3
    <3>2. At(t, s) \in {"extend", "zwj"}
      BY <2>1, <2>2, <3>1
    <3>3. s - 1 = i \/ s - 1 \in i + 1..o - 2
      BY <2>3
    <3>4. At(t, s - 1) \in {"extend", "zwj", "extended_pictographic"}
      BY <2>1, <3>3
    <3>5. s \notin {0, Len(t)}
      BY <2>3
    <3> QED
      BY <3>2, <3>4, <3>5 DEF Cut, Breaker
  <2>4. i \in s..o - 2
    BY <2>3
  <2> QED
    BY <2>1, <2>2, <2>4 DEF ZwjAfterPictographic
<1> QED
  BY <1>1, <1>2

\* The regional indicators before a place: they are those from some place on.
LEMMA RunBefore ==
  ASSUME NEW S, NEW t \in Seq(S), NEW o \in 1..Len(t),
         At(t, o - 1) = "regional_indicator"
  PROVE  \E r \in 0..o - 1 :
           /\ \A j \in r..o - 1 : At(t, j) = "regional_indicator"
           /\ r > 0 => At(t, r - 1) # "regional_indicator"
           /\ {i \in 0..o - 1 : \A j \in i..o - 1 : At(t, j) = "regional_indicator"} = r..o - 1
<1> DEFINE F == {i \in 0..o - 1 : \A j \in i..o - 1 : At(t, j) = "regional_indicator"}
<1>0. Len(t) \in Nat
  OBVIOUS
<1>1. F \subseteq Nat /\ o - 1 \in F
  OBVIOUS
<1>2. PICK r \in F : \A i \in F : r <= i
  <2> HIDE DEF F
  <2> QED
    BY <1>1, LeastNat
<1>3. r \in 0..o - 1 /\ \A j \in r..o - 1 : At(t, j) = "regional_indicator"
  BY <1>2
<1>4. ASSUME r > 0, At(t, r - 1) = "regional_indicator" PROVE FALSE
  <2>1. r - 1 \in 0..o - 1 /\ \A j \in r - 1..o - 1 : j = r - 1 \/ j \in r..o - 1
    BY <1>3, <1>4
  <2>2. r - 1 \in F
    BY <1>3, <1>4, <2>1
  <2> QED
    BY <1>2, <1>3, <2>2
<1>5. F = r..o - 1
  <2>1. \A i \in r..o - 1 : i \in 0..o - 1 /\ \A j \in i..o - 1 : j \in r..o - 1
    BY <1>3
  <2>2. r..o - 1 \subseteq F
    BY <1>3, <2>1
  <2>3. \A i \in F : i \in r..o - 1
    BY <1>2, <1>3
  <2> QED
    BY <2>2, <2>3
<1> QED
  BY <1>3, <1>4, <1>5

LEMMA FlagBehind ==
  ASSUME NEW S, NEW t \in Seq(S), NEW s \in 0..Len(t) - 1, NEW o \in s + 1..Len(t) - 1,
         Cut(t, s), \A k \in s + 1..o - 1 : Joined(t, s, k),
         At(t, o) = "regional_indicator", At(t, o - 1) = "regional_indicator"
  PROVE  Regionals(t, s, o) % 2 = 1 <=> FlagOpen(t, o)
<1> DEFINE RI(j) == At(t, j) = "regional_indicator"
           G == {i \in s..o - 1 : RI(i) /\ \A j \in i..o - 1 : At(t, j) \in {"regional_indicator", "extend"}}
<1>0. Len(t) \in Nat /\ o \in 1..Len(t)
  OBVIOUS
<1>1. PICK r \in 0..o - 1 :
        /\ \A j \in r..o - 1 : RI(j)
        /\ r > 0 => ~ RI(r - 1)
        /\ {i \in 0..o - 1 : \A j \in i..o - 1 : RI(j)} = r..o - 1
  BY <1>0, RunBefore
<1>2. Cardinality(r..o - 1) = o - r
  BY FS_Interval
<1>3. FlagOpen(t, o) <=> (o - r) % 2 = 1
  BY <1>1, <1>2 DEF FlagOpen
<1>4. CASE r >= s
  <2>1. ASSUME NEW i \in G, i < r PROVE FALSE
    <3>1. r - 1 \in i..o - 1 /\ r > 0 /\ i \in s..o - 1
      BY <2>1
    <3>2. At(t, r - 1) = "extend"
      BY <1>1, <3>1
    <3>3. i # r - 1
      BY <3>2
    <3>4. r \in s + 1..o - 1 /\ RI(r)
      BY <1>1, <2>1, <3>1, <3>3
    <3>5. Joined(t, s, r)
      BY <3>4
    <3> QED
      BY <3>2, <3>4, <3>5 DEF Joined, NoBreak, Hangul
  <2>2. r..o - 1 \subseteq G
    BY <1>1, <1>4
  <2>3. G = r..o - 1
    BY <2>1, <2>2
  <2>4. Regionals(t, s, o) = o - r
    BY <1>2, <2>3 DEF Regionals
  <2> QED
    BY <1>3, <2>4
<1>5. CASE r < s
  <2>1. s \in 1..Len(t) /\ RI(s) /\ RI(s - 1)
    BY <1>1, <1>5
  <2>2. PICK q \in 0..s - 1 :
          /\ \A j \in q..s - 1 : RI(j)
          /\ q > 0 => ~ RI(q - 1)
          /\ {i \in 0..s - 1 : \A j \in i..s - 1 : RI(j)} = q..s - 1
    BY <2>1, RunBefore
  <2>3. q = r
    <3>1. ~ (q < r)
      <4>1. q < r => r - 1 \in q..s - 1 /\ r > 0
        BY <1>5
      <4> QED
        BY <1>1, <2>2, <4>1
    <3>2. ~ (r < q)
      <4>1. r < q => q - 1 \in r..o - 1 /\ q > 0
        BY <1>5
      <4> QED
        BY <1>1, <2>2, <4>1
    <3> QED
      BY <3>1, <3>2
  <2>4. Cardinality(q..s - 1) = s - q
    BY FS_Interval
  <2>5. FlagOpen(t, s) <=> (s - r) % 2 = 1
    BY <2>1, <2>2, <2>3, <2>4 DEF FlagOpen
  <2>6. ~ FlagOpen(t, s)
    BY <2>1 DEF Cut, Breaker
  <2>7. G = s..o - 1
    <3>1. \A i \in s..o - 1 : RI(i)
      BY <1>1, <1>5
    <3> QED
      BY <3>1
  <2>8. Regionals(t, s, o) = o - s
    <3>1. Cardinality(s..o - 1) = o - s
      BY FS_Interval
    <3> QED
      BY <2>7, <3>1 DEF Regionals
  <2>9. (o - s) % 2 = 1 <=> (o - r) % 2 = 1
    BY <1>5, <2>5, <2>6
  <2> QED
    BY <1>3, <2>8, <2>9
<1> QED
  BY <1>4, <1>5

\* What segment() sees of the current cluster decides as the whole text does.
LEMMA JoinedIsNoBoundary ==
  ASSUME NEW S, NEW t \in Seq(S), NEW s \in 0..Len(t) - 1, NEW o \in s + 1..Len(t) - 1,
         Cut(t, s), \A k \in s + 1..o - 1 : Joined(t, s, k)
  PROVE  Joined(t, s, o) <=> ~ Cut(t, o)
<1>1. At(t, o) = "extended_pictographic" =>
        (ZwjAfterPictographic(t, s, o) <=> PictographRun(t, o))
  BY PictographBehind
<1>2. At(t, o) = "regional_indicator" /\ At(t, o - 1) = "regional_indicator" =>
        (Regionals(t, s, o) % 2 = 1 <=> FlagOpen(t, o))
  BY FlagBehind
<1>3. o \notin {0, Len(t)}
  OBVIOUS
<1>4. PictographRun(t, o) => At(t, o) = "extended_pictographic"
  BY DEF PictographRun
<1>5. FlagOpen(t, o) => At(t, o) = "regional_indicator" /\ At(t, o - 1) = "regional_indicator"
  BY DEF FlagOpen
<1> QED
  BY <1>1, <1>2, <1>3, <1>4, <1>5 DEF Joined, NoBreak, Cut, Breaker

\* From a boundary segment() goes to the next.
LEMMA NextBreakIsBoundary ==
  ASSUME NEW S, NEW t \in Seq(S), NEW s \in 0..Len(t) - 1, Cut(t, s)
  PROVE  /\ NextBreak(t, s) \in s + 1..Len(t)
         /\ Cut(t, NextBreak(t, s))
         /\ \A o \in s + 1..NextBreak(t, s) - 1 : ~ Cut(t, o)
<1> DEFINE e == NextBreak(t, s)
<1>0. Len(t) \in Nat
  OBVIOUS
<1>1. /\ e \in s + 1..Len(t)
      /\ e = Len(t) \/ ~ Joined(t, s, e)
      /\ \A o \in s + 1..e - 1 : Joined(t, s, o)
  BY NextBreakIs
<1> HIDE DEF e
<1>2. ASSUME NEW o \in s + 1..e - 1 PROVE ~ Cut(t, o)
  <2>1. o \in s + 1..Len(t) - 1 /\ \A k \in s + 1..o - 1 : k \in s + 1..e - 1
    BY <1>0, <1>1
  <2> QED
    BY <1>1, <2>1, JoinedIsNoBoundary
<1>3. Cut(t, e)
  <2>1. CASE e = Len(t)
    BY <2>1 DEF Cut
  <2>2. CASE e # Len(t)
    <3>1. e \in s + 1..Len(t) - 1
      BY <1>0, <1>1, <2>2
    <3> QED
      BY <1>1, <2>2, <3>1, JoinedIsNoBoundary
  <2> QED
    BY <2>1, <2>2
<1> QED
  BY <1>1, <1>2, <1>3 DEF e

\* Breaks by its recursion.
LEMMA BreaksDescend ==
  ASSUME NEW S, NEW t \in Seq(S)
  PROVE  \E f : /\ Breaks(t) = f[0]
                /\ \A i \in 0..Len(t) :
                     f[i] = IF i = Len(t) THEN {i} ELSE {i} \cup f[NextBreak(t, i)]
<1> DEFINE n == Len(t)
           V == SUBSET (0..n)
           next == [i \in 0..n |-> NextBreak(t, i)]
           step == [p \in (0..n) \X V |-> {p[1]} \cup p[2]]
           Is(f) == f = [i \in 0..n |-> IF i = n THEN {i} ELSE {i} \cup f[NextBreak(t, i)]]
           from == CHOOSE f : Is(f)
<1>0. n \in Nat /\ {n} \in V /\ 0 \in 0..n
  OBVIOUS
<1>1. \A i \in 0..n - 1 : NextBreak(t, i) \in i + 1..n
  BY NextBreakIs
<1>2. \A i \in 0..n - 1 : next[i] \in i + 1..n
  BY <1>0, <1>1
<1>3. step \in [(0..n) \X V -> V]
  <2>1. \A p \in (0..n) \X V : {p[1]} \cup p[2] \in V
    OBVIOUS
  <2> QED
    BY <2>1
<1>4. \E f \in [0..n -> V] : Descends(f, 0, n, next, {n}, step)
  <2> HIDE DEF n, V, next, step
  <2> QED
    BY <1>0, <1>2, <1>3, DescentExists
<1>5. PICK f \in [0..n -> V] : Descends(f, 0, n, next, {n}, step)
  BY <1>4
<1>6. \A i \in 0..n : f[i] = IF i = n THEN {i} ELSE {i} \cup f[NextBreak(t, i)]
  <2> SUFFICES ASSUME NEW i \in 0..n, i # n PROVE f[i] = {i} \cup f[NextBreak(t, i)]
    BY <1>0, <1>5 DEF Descends
  <2>1. next[i] = NextBreak(t, i) /\ next[i] \in 0..n
    BY <1>0, <1>2
  <2>2. f[i] = step[<<i, f[next[i]]>>]
    <3> HIDE DEF step, next
    <3> QED
      BY <1>5 DEF Descends
  <2>3. <<i, f[next[i]]>> \in (0..n) \X V
    BY <1>5, <2>1
  <2> QED
    BY <2>1, <2>2, <2>3
<1>7. Is(f)
  <2> HIDE DEF n, V
  <2> QED
    BY <1>6
<1>8. Is(from)
  BY <1>7, Zenon
<1>9. Breaks(t) = from[0]
  BY DEF Breaks
<1> HIDE DEF from
<1>10. \A i \in 0..n : from[i] = IF i = n THEN {i} ELSE {i} \cup from[NextBreak(t, i)]
  <2> HIDE DEF n
  <2> QED
    BY <1>8, Zenon
<1> QED
  BY <1>9, <1>10

\* segment() cuts a text exactly where Cut says, which looks at the whole text.
LEMMA BreaksAreBoundaries ==
  ASSUME NEW S, NEW t \in Seq(S)
  PROVE  Breaks(t) = {o \in 0..Len(t) : Cut(t, o)}
<1> DEFINE n == Len(t)
           From(i) == {o \in i..n : Cut(t, o)}
<1>0. n \in Nat /\ Cut(t, 0) /\ Cut(t, n)
  BY DEF Cut
<1>1. PICK f : /\ Breaks(t) = f[0]
               /\ \A i \in 0..n : f[i] = IF i = n THEN {i} ELSE {i} \cup f[NextBreak(t, i)]
  BY BreaksDescend
<1> DEFINE T == {i \in 0..n : Cut(t, i) /\ f[i] # From(i)}
<1>2. T = {}
  <2> SUFFICES ASSUME T # {} PROVE FALSE
    OBVIOUS
  <2>1. T \subseteq 0..n
    OBVIOUS
  <2>2. PICK i \in T : \A k \in T : k <= i
    <3> HIDE DEF T
    <3> QED
      BY <1>0, <2>1, GreatestNat
  <2>3. CASE i = n
    <3>1. From(n) = {n}
      BY <1>0
    <3> QED
      BY <1>1, <2>2, <2>3, <3>1
  <2>4. CASE i # n
    <3> DEFINE e == NextBreak(t, i)
    <3>1. i \in 0..n - 1 /\ Cut(t, i)
      BY <1>0, <2>2, <2>4
    <3>2. e \in i + 1..n /\ Cut(t, e) /\ \A o \in i + 1..e - 1 : ~ Cut(t, o)
      BY <3>1, NextBreakIsBoundary
    <3> HIDE DEF e
    <3>3. e \in 0..n /\ e > i
      BY <3>1, <3>2
    <3>4. f[e] = From(e)
      <4>1. e \notin T
        <5> HIDE DEF T
        <5> QED
          BY <2>2, <3>3, <3>1
      <4> QED
        BY <3>2, <3>3, <4>1
    <3>5. From(i) = {i} \cup From(e)
      <4>1. \A o \in i..n : o = i \/ o \in i + 1..e - 1 \/ o \in e..n
        BY <1>0, <3>1, <3>2
      <4>2. \A o \in From(i) : o = i \/ o \in From(e)
        BY <3>2, <4>1
      <4>3. e..n \subseteq i..n
        BY <3>1, <3>3
      <4> QED
        BY <3>1, <4>2, <4>3
    <3>6. f[i] = {i} \cup f[e]
      BY <1>1, <3>1, <2>4 DEF e
    <3> QED
      BY <2>2, <3>4, <3>5, <3>6
  <2> QED
    BY <2>3, <2>4
<1>3. 0 \notin T /\ 0 \in 0..n
  BY <1>0, <1>2
<1> QED
  BY <1>0, <1>1, <1>3

TypedInv == typed \in Seq(UNION Alphabets)

LEMMA TypedIsText == TextSpec => []TypedInv
<1>1. TextInit => TypedInv
  BY DEF TextInit, TypedInv
<1>2. TypedInv /\ [Type]_typed => TypedInv'
  BY DEF TypedInv, Type
<1> QED
  BY <1>1, <1>2, PTL DEF TextSpec

\* Where no two joiners stand before a pictograph, a run of extenders before it has the
\* one joiner of GB11.
LEMMA OneJoiner ==
  ASSUME NEW S, NEW t \in Seq(S), NEW o \in 0..Len(t), ~ AfterTwoJoiners(t, o)
  PROVE  Cut(t, o) <=> Boundary(t, o)
<1>1. CASE o = Len(t)
  BY <1>1 DEF Cut, Boundary
<1>2. CASE o # Len(t)
  <2>0. o \in Nat /\ o < Len(t)
    BY <1>2
  <2>1. ASSUME PictographRun(t, o) PROVE PictographJoiner(t, o)
    <3>1. PICK i \in 0..o - 2 : /\ At(t, i) = "extended_pictographic"
                                /\ \A j \in i + 1..o - 2 : At(t, j) \in {"extend", "zwj"}
      BY <2>1 DEF PictographRun
    <3>2. o > 1 /\ At(t, o) = "extended_pictographic" /\ At(t, o - 1) = "zwj"
      BY <2>1 DEF PictographRun
    <3>3. ASSUME NEW j \in i + 1..o - 2, At(t, j) = "zwj" PROVE FALSE
      <4>1. j \in 0..o - 1 /\ o - 1 \in j + 1..o - 1
        BY <2>0, <3>2
      <4>2. \A k \in j..o - 1 : k \in i + 1..o - 2 \/ k = o - 1
        BY <2>0
      <4>3. \A k \in j..o - 1 : At(t, k) \in {"extend", "zwj"}
        BY <3>1, <3>2, <4>2
      <4> QED
        BY <2>0, <3>2, <3>3, <4>1, <4>3 DEF AfterTwoJoiners
    <3> QED
      BY <3>1, <3>2, <3>3 DEF PictographJoiner
  <2>2. PictographJoiner(t, o) => PictographRun(t, o)
    BY DEF PictographJoiner, PictographRun
  <2> QED
    BY <2>1, <2>2 DEF Cut, Boundary
<1> QED
  BY <1>1, <1>2

\* In every text segment() cuts exactly where a boundary rule of UAX #29 stated for the
\* whole text does, but for a pictograph after two joiners.
THEOREM SegmentsExact == TextSpec => []SegmentsAreClusters
<1>1. ASSUME TypedInv PROVE SegmentsAreClusters
  <2>1. Breaks(typed) = {o \in Offsets : Cut(typed, o)}
    BY <1>1, BreaksAreBoundaries DEF Offsets, TypedInv
  <2>2. \A o \in Offsets : ~ AfterTwoJoiners(typed, o) => (Cut(typed, o) <=> Boundary(typed, o))
    BY <1>1, OneJoiner DEF Offsets, TypedInv
  <2> QED
    BY <2>1, <2>2 DEF SegmentsAreClusters
<1> QED
  BY <1>1, TypedIsText, PTL

-----------------------------------------------------------------------------
(* The lines of a text.                                                      *)

\* The line an offset lies on.
Rank(t, o) == Cardinality({k \in NewLines(t) : k < o})

LEMMA RankOf ==
  ASSUME NEW S, NEW t \in Seq(S)
  PROVE  /\ Rank(t, 0) = 0
         /\ Lines(t) = Rank(t, Len(t)) + 1
         /\ \A o \in 0..Len(t) : Rank(t, o) \in Nat
         /\ \A o \in 0..Len(t) - 1 :
              Rank(t, o + 1) = Rank(t, o) + (IF At(t, o) = "lf" THEN 1 ELSE 0)
         /\ \A a, b \in 0..Len(t) : a <= b => Rank(t, a) <= Rank(t, b)
<1> DEFINE n == Len(t)
           Earlier(o) == {k \in NewLines(t) : k < o}
<1>0. n \in Nat /\ NewLines(t) \subseteq 0..n - 1
  BY DEF NewLines
<1>1. IsFiniteSet(NewLines(t)) /\ \A o \in 0..n : IsFiniteSet(Earlier(o)) /\ Cardinality(Earlier(o)) \in Nat
  <2>1. IsFiniteSet(NewLines(t))
    <3>1. IsFiniteSet(0..n - 1)
      BY <1>0, FS_Interval
    <3> QED
      BY <1>0, <3>1, FS_Subset
  <2>2. \A o \in 0..n : IsFiniteSet(Earlier(o))
    BY <2>1, FS_Subset
  <2> QED
    BY <2>1, <2>2, FS_CardinalityType
<1>2. Earlier(0) = {} /\ Earlier(n) = NewLines(t)
  BY <1>0
<1>3. ASSUME NEW o \in 0..n - 1
      PROVE  Cardinality(Earlier(o + 1)) = Cardinality(Earlier(o)) + (IF At(t, o) = "lf" THEN 1 ELSE 0)
  <2>1. CASE At(t, o) = "lf"
    <3>1. o \in NewLines(t)
      BY <2>1 DEF NewLines
    <3>2. Earlier(o + 1) = Earlier(o) \cup {o} /\ o \notin Earlier(o)
      BY <1>0, <3>1
    <3>3. o \in 0..n
      BY <1>0
    <3> QED
      BY <1>1, <2>1, <3>2, <3>3, FS_AddElement
  <2>2. CASE At(t, o) # "lf"
    <3>1. o \notin NewLines(t)
      BY <2>2 DEF NewLines
    <3>2. Earlier(o + 1) = Earlier(o)
      BY <1>0, <3>1
    <3>3. o \in 0..n
      BY <1>0
    <3>4. Cardinality(Earlier(o)) \in Nat /\ Cardinality(Earlier(o + 1)) = Cardinality(Earlier(o))
      BY <1>1, <3>2, <3>3
    <3> HIDE DEF Earlier
    <3> QED
      BY <2>2, <3>4
  <2> QED
    BY <2>1, <2>2
<1>4. ASSUME NEW a \in 0..n, NEW b \in 0..n, a <= b
      PROVE  Cardinality(Earlier(a)) <= Cardinality(Earlier(b))
  <2>1. Earlier(a) \subseteq Earlier(b)
    BY <1>0, <1>4
  <2> QED
    BY <1>1, <2>1, FS_Subset
<1>5. Cardinality(Earlier(0)) = 0
  BY <1>2, FS_EmptySet
<1>6. \A o : Rank(t, o) = Cardinality(Earlier(o))
  BY DEF Rank
<1>7. Lines(t) = Cardinality(Earlier(n)) + 1
  BY <1>2 DEF Lines
<1> HIDE DEF Earlier
<1> QED
  BY <1>1, <1>3, <1>4, <1>5, <1>6, <1>7

\* A line break between two offsets makes a line between them.
LEMMA BreakBetween ==
  ASSUME NEW S, NEW t \in Seq(S), NEW a \in 0..Len(t), NEW b \in 0..Len(t),
         NEW k \in a..b - 1, At(t, k) = "lf"
  PROVE  Rank(t, a) < Rank(t, b)
<1>1. k \in 0..Len(t) - 1 /\ k \in 0..Len(t) /\ k + 1 \in 0..Len(t) /\ a <= k /\ k + 1 <= b
  OBVIOUS
<1>2. Rank(t, a) <= Rank(t, k) /\ Rank(t, k + 1) <= Rank(t, b)
  BY <1>1, RankOf
<1>3. Rank(t, k + 1) = Rank(t, k) + 1
  BY <1>1, RankOf
<1>4. Rank(t, a) \in Nat /\ Rank(t, k) \in Nat /\ Rank(t, b) \in Nat
  BY <1>1, RankOf
<1> QED
  BY <1>2, <1>3, <1>4

\* starts_[l] is the first offset of line l.
LEMMA StartIs ==
  ASSUME NEW S, NEW t \in Seq(S), NEW l \in 0..Lines(t) - 1
  PROVE  /\ Start(t, l) \in 0..Len(t)
         /\ Rank(t, Start(t, l)) = l
         /\ Start(t, l) > 0 => At(t, Start(t, l) - 1) = "lf"
         /\ l = 0 => Start(t, l) = 0
         /\ \A o \in 0..Len(t) : Start(t, l) <= o <=> l <= Rank(t, o)
<1> DEFINE n == Len(t)
           Firsts == {0} \cup {k + 1 : k \in NewLines(t)}
           T == {o \in 0..n : l <= Rank(t, o)}
<1>0. n \in Nat /\ NewLines(t) \subseteq 0..n - 1 /\ Firsts \subseteq 0..n
  BY DEF NewLines
<1>1. n \in 0..n /\ Rank(t, n) \in Nat /\ l \in 0..Rank(t, n)
  BY <1>0, RankOf
<1>2. T \subseteq Nat /\ T # {}
  <2>1. n \in T
    BY <1>1
  <2> QED
    BY <2>1
<1>3. PICK o \in T : \A p \in T : o <= p
  <2> HIDE DEF T
  <2> QED
    BY <1>2, LeastNat
<1>4. o \in Firsts /\ Rank(t, o) = l
  <2>1. CASE o = 0
    BY <2>1, RankOf, <1>3, <1>1
  <2>2. CASE o # 0
    <3>1. o - 1 \in 0..n - 1 /\ o - 1 \in 0..n /\ o - 1 + 1 = o /\ o \in 0..n
      BY <1>0, <1>3, <2>2
    <3>2. ~ (l <= Rank(t, o - 1))
      <4>1. o - 1 \notin T
        <5> HIDE DEF T
        <5> QED
          BY <1>3, <3>1
      <4> QED
        BY <3>1, <4>1
    <3>3. Rank(t, o) = Rank(t, o - 1) + (IF At(t, o - 1) = "lf" THEN 1 ELSE 0)
      BY <3>1, RankOf
    <3>4. Rank(t, o - 1) \in Nat /\ Rank(t, o) \in Nat /\ l <= Rank(t, o)
      BY <1>3, <3>1, RankOf
    <3>5. At(t, o - 1) = "lf" /\ Rank(t, o) = l
      BY <1>1, <3>2, <3>3, <3>4
    <3>6. o - 1 \in NewLines(t)
      BY <3>1, <3>5 DEF NewLines
    <3> QED
      BY <3>1, <3>5, <3>6
  <2> QED
    BY <2>1, <2>2
<1>5. Start(t, l) = CHOOSE p \in Firsts : Rank(t, p) = l
  BY DEF Start, Rank
<1> DEFINE s == Start(t, l)
<1>6. s \in Firsts /\ Rank(t, s) = l
  <2> HIDE DEF Firsts
  <2> QED
    BY <1>4, <1>5
<1>7. s \in 0..n /\ (s > 0 => At(t, s - 1) = "lf" /\ s - 1 \in 0..n - 1)
  <2>1. \A k \in NewLines(t) : At(t, k) = "lf" /\ k \in 0..n - 1
    BY DEF NewLines
  <2>2. s = 0 \/ \E k \in NewLines(t) : s = k + 1
    BY <1>6
  <2> QED
    BY <1>0, <2>1, <2>2
<1> HIDE DEF s
<1>8. ASSUME NEW p \in 0..n PROVE s <= p <=> l <= Rank(t, p)
  <2>1. s <= p => Rank(t, s) <= Rank(t, p)
    BY <1>7, RankOf
  <2>2. ASSUME p < s PROVE Rank(t, p) < Rank(t, s)
    <3>1. s - 1 \in p..s - 1 /\ At(t, s - 1) = "lf"
      BY <1>7, <2>2
    <3> QED
      BY <1>7, <3>1, BreakBetween
  <2>3. Rank(t, p) \in Nat
    BY RankOf
  <2> QED
    BY <1>6, <1>7, <2>1, <2>2, <2>3
<1>9. l = 0 => s = 0
  BY <1>7, <1>8, <1>0, RankOf
<1> QED
  BY <1>6, <1>7, <1>8, <1>9 DEF s

\* The line ends before its line break, or with the text.
LEMMA EndIs ==
  ASSUME NEW S, NEW t \in Seq(S), NEW l \in 0..Lines(t) - 1
  PROVE  /\ End(t, l) \in Start(t, l)..Len(t)
         /\ \A o \in 0..Len(t) : o <= End(t, l) <=> Rank(t, o) <= l
<1>0. Len(t) \in Nat /\ Lines(t) \in Nat /\ l \in Nat
  BY RankOf
<1>1. CASE l + 1 < Lines(t)
  <2> DEFINE e == Start(t, l + 1)
  <2>1. l + 1 \in 0..Lines(t) - 1 /\ End(t, l) = e - 1
    BY <1>0, <1>1 DEF End
  <2>2. /\ e \in 0..Len(t) /\ Rank(t, e) = l + 1
        /\ \A o \in 0..Len(t) : e <= o <=> l + 1 <= Rank(t, o)
    BY <2>1, StartIs
  <2>3. e # 0
    BY <1>0, <2>2, RankOf
  <2>4. ASSUME NEW o \in 0..Len(t) PROVE o <= e - 1 <=> Rank(t, o) <= l
    <3>1. Rank(t, o) \in Nat
      BY RankOf
    <3> HIDE DEF e
    <3> QED
      BY <1>0, <2>2, <3>1
  <2>5. Rank(t, Start(t, l)) = l /\ Start(t, l) \in 0..Len(t)
    BY StartIs
  <2> HIDE DEF e
  <2> QED
    BY <1>0, <2>1, <2>2, <2>3, <2>4, <2>5
<1>2. CASE ~ (l + 1 < Lines(t))
  <2>1. End(t, l) = Len(t)
    BY <1>2 DEF End
  <2>2. \A o \in 0..Len(t) : Rank(t, o) \in Nat /\ Rank(t, o) <= Rank(t, Len(t))
    BY <1>0, RankOf
  <2>3. Rank(t, Len(t)) \in Nat /\ Lines(t) = Rank(t, Len(t)) + 1
    BY <1>0, RankOf
  <2>4. Start(t, l) \in 0..Len(t)
    BY StartIs
  <2> QED
    BY <1>0, <1>2, <2>1, <2>2, <2>3, <2>4
<1> QED
  BY <1>1, <1>2

\* A line begins at a boundary: nothing joins a line break to what follows it.
LEMMA StartIsBoundary ==
  ASSUME NEW S, NEW t \in Seq(S), NEW l \in 0..Lines(t) - 1
  PROVE  Cut(t, Start(t, l))
BY StartIs DEF Cut, Breaker

-----------------------------------------------------------------------------
(* Counting clusters.                                                        *)

LEMMA NextBreakBound ==
  ASSUME NEW S, NEW t \in Seq(S), NEW s \in 0..Len(t)
  PROVE  /\ NextBreak(t, s) \in s..Len(t)
         /\ s < Len(t) => NextBreak(t, s) \in s + 1..Len(t)
<1>1. CASE s = Len(t)
  BY <1>1, NextBreakAtEnd
<1>2. CASE s # Len(t)
  <2>1. s \in 0..Len(t) - 1
    BY <1>2
  <2>2. NextBreak(t, s) \in s + 1..Len(t)
    BY <2>1, NextBreakIs
  <2> QED
    BY <2>2
<1> QED
  BY <1>1, <1>2

\* f counts the clusters up to o from each place on.
Counts(f, t, s, o) ==
  \A i \in s..Len(t) : f[i] = IF i >= o THEN 0 ELSE 1 + f[NextBreak(t, i)]

LEMMA ClustersCount ==
  ASSUME NEW S, NEW t \in Seq(S), NEW s \in 0..Len(t), NEW o \in 0..Len(t)
  PROVE  \E f : /\ Clusters(t, s, o) = f[s]
                /\ Counts(f, t, s, o)
                /\ \A i \in s..Len(t) : f[i] \in Nat
<1> DEFINE n == Len(t)
           next == [i \in s..n |-> NextBreak(t, i)]
           step == [p \in (s..n) \X Nat |-> IF p[1] >= o THEN 0 ELSE 1 + p[2]]
           Is(f) == f = [i \in s..n |-> IF i >= o THEN 0 ELSE 1 + f[NextBreak(t, i)]]
           from == CHOOSE f : Is(f)
<1>0. n \in Nat /\ s \in 0..n /\ 0 \in Nat
  OBVIOUS
<1>1. \A i \in s..n - 1 : NextBreak(t, i) \in i + 1..n
  BY NextBreakBound
<1>2. \A i \in s..n - 1 : next[i] \in i + 1..n
  BY <1>0, <1>1
<1>3. step \in [(s..n) \X Nat -> Nat]
  <2>1. \A p \in (s..n) \X Nat : (IF p[1] >= o THEN 0 ELSE 1 + p[2]) \in Nat
    OBVIOUS
  <2> QED
    BY <2>1
<1>4. PICK f \in [s..n -> Nat] : Descends(f, s, n, next, 0, step)
  <2> HIDE DEF n, next, step
  <2> QED
    BY <1>0, <1>2, <1>3, DescentExists
<1>5. Counts(f, t, s, o)
  <2> SUFFICES ASSUME NEW i \in s..n
               PROVE  f[i] = IF i >= o THEN 0 ELSE 1 + f[NextBreak(t, i)]
    BY DEF Counts
  <2>1. CASE i = n
    <3>1. f[n] = 0
      <4> HIDE DEF next, step
      <4> QED
        BY <1>0, <1>4, <2>1 DEF Descends
    <3> QED
      BY <1>0, <2>1, <3>1
  <2>2. CASE i # n
    <3>0. i \in s..n - 1
      BY <1>0, <2>2
    <3>1. next[i] = NextBreak(t, i) /\ next[i] \in s..n
      <4>1. next[i] = NextBreak(t, i)
        OBVIOUS
      <4> HIDE DEF next, n
      <4> QED
        BY <1>0, <1>2, <3>0, <4>1
    <3>2. f[i] = step[<<i, f[next[i]]>>]
      <4> HIDE DEF step, next
      <4> QED
        BY <1>4, <2>2 DEF Descends
    <3>3. <<i, f[next[i]]>> \in (s..n) \X Nat
      BY <1>4, <3>1
    <3> QED
      BY <3>1, <3>2, <3>3
  <2> QED
    BY <2>1, <2>2
<1>6. Is(f)
  <2>1. \A i \in s..n : f[i] = IF i >= o THEN 0 ELSE 1 + f[NextBreak(t, i)]
    BY <1>5 DEF n, Counts
  <2>2. f = [i \in s..n |-> f[i]]
    BY <1>4
  <2> HIDE DEF n
  <2> QED
    BY <2>1, <2>2, Zenon
<1>7. Is(from)
  BY <1>6, Zenon
<1>8. Clusters(t, s, o) = from[s]
  BY DEF Clusters
<1> HIDE DEF from
<1>9. Counts(from, t, s, o)
  <2> HIDE DEF n
  <2>1. \A i \in s..n : from[i] = IF i >= o THEN 0 ELSE 1 + from[NextBreak(t, i)]
    BY <1>7, Zenon
  <2> QED
    BY <2>1 DEF n, Counts
<1> DEFINE T == {i \in s..n : from[i] \notin Nat}
<1>10. T = {}
  <2> SUFFICES ASSUME T # {} PROVE FALSE
    OBVIOUS
  <2>1. T \subseteq 0..n
    OBVIOUS
  <2>2. PICK i \in T : \A k \in T : k <= i
    <3> HIDE DEF T
    <3> QED
      BY <1>0, <2>1, GreatestNat
  <2>3. from[i] = IF i >= o THEN 0 ELSE 1 + from[NextBreak(t, i)]
    BY <1>9 DEF Counts
  <2>4. i < o /\ NextBreak(t, i) \in i + 1..n
    BY <1>1, <2>2, <2>3
  <2>5. NextBreak(t, i) \notin T
    <3> HIDE DEF T
    <3> QED
      BY <2>1, <2>2, <2>4
  <2> QED
    BY <2>2, <2>3, <2>4, <2>5
<1> QED
  BY <1>8, <1>9, <1>10

LEMMA CountsAgree ==
  ASSUME NEW S, NEW t \in Seq(S), NEW s \in 0..Len(t), NEW r \in s..Len(t), NEW o \in 0..Len(t),
         NEW f, Counts(f, t, s, o), NEW g, Counts(g, t, r, o)
  PROVE  f[r] = g[r]
<1> DEFINE n == Len(t)
           T == {i \in r..n : f[i] # g[i]}
<1>0. n \in Nat
  OBVIOUS
<1> SUFFICES ASSUME T # {} PROVE FALSE
  OBVIOUS
<1>1. T \subseteq 0..n
  OBVIOUS
<1>2. PICK i \in T : \A k \in T : k <= i
  <2> HIDE DEF T
  <2> QED
    BY <1>0, <1>1, GreatestNat
<1>3. /\ f[i] = IF i >= o THEN 0 ELSE 1 + f[NextBreak(t, i)]
      /\ g[i] = IF i >= o THEN 0 ELSE 1 + g[NextBreak(t, i)]
  BY DEF Counts
<1>4. i < o
  BY <1>2, <1>3
<1>5. NextBreak(t, i) \in i + 1..n
  BY <1>4, NextBreakBound
<1>6. NextBreak(t, i) \notin T
  <2> HIDE DEF T
  <2> QED
    BY <1>1, <1>2, <1>5
<1> QED
  BY <1>2, <1>3, <1>5, <1>6

\* One cluster more from a place than from the end of its cluster.
LEMMA ClustersStep ==
  ASSUME NEW S, NEW t \in Seq(S), NEW s \in 0..Len(t), NEW o \in 0..Len(t)
  PROVE  /\ Clusters(t, s, o) \in Nat
         /\ Clusters(t, s, o) = 0 <=> s >= o
         /\ s < o => Clusters(t, s, o) = 1 + Clusters(t, NextBreak(t, s), o)
<1>1. PICK f : Clusters(t, s, o) = f[s] /\ Counts(f, t, s, o) /\ \A i \in s..Len(t) : f[i] \in Nat
  BY ClustersCount
<1>2. f[s] = IF s >= o THEN 0 ELSE 1 + f[NextBreak(t, s)]
  BY <1>1 DEF Counts
<1>3. NextBreak(t, s) \in s..Len(t)
  BY NextBreakBound
<1>4. f[NextBreak(t, s)] \in Nat
  BY <1>1, <1>3
<1>5. f[NextBreak(t, s)] = Clusters(t, NextBreak(t, s), o)
  <2> DEFINE r == NextBreak(t, s)
  <2>1. r \in s..Len(t) /\ r \in 0..Len(t)
    BY <1>3
  <2> HIDE DEF r
  <2>2. PICK g : Clusters(t, r, o) = g[r] /\ Counts(g, t, r, o)
    BY <2>1, ClustersCount
  <2>3. f[r] = g[r]
    BY <1>1, <2>1, <2>2, CountsAgree
  <2> QED
    BY <2>2, <2>3 DEF r
<1> QED
  BY <1>1, <1>2, <1>4, <1>5

-----------------------------------------------------------------------------
(* Positions.                                                                *)

\* The walk of offset() along line l.
Walks(w, t, l, c) ==
  /\ w[0] = Start(t, l)
  /\ \A k \in 1..c :
       w[k] = IF w[k - 1] < End(t, l) THEN NextBreak(t, w[k - 1]) ELSE w[k - 1]

LEMMA OffsetWalks ==
  ASSUME NEW S, NEW t \in Seq(S), NEW p \in Position
  PROVE  LET l == Min({p.line, Lines(t) - 1})
         IN  /\ l \in 0..Lines(t) - 1
             /\ \E w : /\ Offset(p, t) = w[p.col]
                       /\ Walks(w, t, l, p.col)
                       /\ \A k \in 0..p.col : w[k] \in Start(t, l)..Len(t)
<1> DEFINE l == Min({p.line, Lines(t) - 1})
           c == p.col
           s == Start(t, l)
           V == s..Len(t)
           next == [i \in 0..c |-> i + 1]
           step == [q \in (0..c) \X V |-> IF q[2] < End(t, l) THEN NextBreak(t, q[2]) ELSE q[2]]
           Is(w) == w = [k \in 0..c |-> IF k = 0 THEN s
                                        ELSE IF w[k - 1] < End(t, l) THEN NextBreak(t, w[k - 1])
                                        ELSE w[k - 1]]
           walk == CHOOSE w : Is(w)
<1>0. c \in Nat /\ p.line \in Nat /\ Lines(t) - 1 \in Nat /\ Len(t) \in Nat /\ 0 \in 0..c
  BY RankOf DEF Position
<1>1. l \in 0..Lines(t) - 1
  <2>1. {p.line, Lines(t) - 1} \subseteq Nat /\ {p.line, Lines(t) - 1} # {}
    BY <1>0
  <2>2. l \in {p.line, Lines(t) - 1} /\ \A k \in {p.line, Lines(t) - 1} : l <= k
    BY <2>1, MinIs
  <2> QED
    BY <1>0, <2>2
<1> HIDE DEF l
<1>2. s \in 0..Len(t) /\ End(t, l) \in s..Len(t)
  BY <1>1, StartIs, EndIs
<1>3. \A i \in V : i < End(t, l) => NextBreak(t, i) \in V
  <2> SUFFICES ASSUME NEW i \in V, i < End(t, l) PROVE NextBreak(t, i) \in V
    OBVIOUS
  <2>1. i \in 0..Len(t)
    BY <1>2
  <2>2. NextBreak(t, i) \in i..Len(t)
    BY <2>1, NextBreakBound
  <2> QED
    BY <1>2, <2>2
<1>4. step \in [(0..c) \X V -> V]
  <2>1. \A q \in (0..c) \X V : q[2] \in V
    OBVIOUS
  <2>2. \A q \in (0..c) \X V : (IF q[2] < End(t, l) THEN NextBreak(t, q[2]) ELSE q[2]) \in V
    <3> HIDE DEF V
    <3> QED
      BY <1>3, <2>1
  <2> QED
    BY <2>2
<1>5. \A i \in 0..c - 1 : next[i] \in i + 1..c
  BY <1>0
<1>6. s \in V
  BY <1>2
<1>7. PICK f \in [0..c -> V] : Descends(f, 0, c, next, s, step)
  <2> HIDE DEF s, V, next, step
  <2> QED
    BY <1>0, <1>4, <1>5, <1>6, DescentExists
<1> DEFINE w == [k \in 0..c |-> f[c - k]]
<1>8. ASSUME NEW k \in 0..c
      PROVE  w[k] = IF k = 0 THEN s
                    ELSE IF w[k - 1] < End(t, l) THEN NextBreak(t, w[k - 1]) ELSE w[k - 1]
  <2>1. CASE k = 0
    <3>1. w[k] = f[c] /\ c \in 0..c
      BY <1>0, <2>1
    <3> QED
      BY <1>7, <2>1, <3>1 DEF Descends
  <2>2. CASE k # 0
    <3> DEFINE i == c - k
    <3>1. i \in 0..c /\ i # c /\ i + 1 \in 0..c /\ i + 1 = c - (k - 1)
      BY <1>0, <2>2
    <3>2. w[k] = f[i] /\ w[k - 1] = f[i + 1] /\ next[i] = i + 1
      <4>1. k - 1 \in 0..c
        BY <1>0, <2>2
      <4>2. w[k] = f[i] /\ w[k - 1] = f[c - (k - 1)]
        BY <4>1
      <4>3. next[i] = i + 1
        BY <3>1
      <4> HIDE DEF next, w, i
      <4> QED
        BY <3>1, <4>2, <4>3
    <3>3. f[i] = step[<<i, f[next[i]]>>]
      <4> HIDE DEF step, next, i
      <4> QED
        BY <1>7, <3>1 DEF Descends
    <3>4. <<i, f[i + 1]>> \in (0..c) \X V
      <4> HIDE DEF i, V
      <4> QED
        BY <1>7, <3>1
    <3>5. step[<<i, f[i + 1]>>] = IF f[i + 1] < End(t, l) THEN NextBreak(t, f[i + 1]) ELSE f[i + 1]
      <4> HIDE DEF i, V
      <4> QED
        BY <3>4
    <3> HIDE DEF step, next, w, i
    <3> QED
      BY <2>2, <3>2, <3>3, <3>5
  <2> QED
    BY <2>1, <2>2
<1>9. Is(w)
  <2>1. w = [k \in 0..c |-> w[k]]
    OBVIOUS
  <2> HIDE DEF w
  <2> QED
    BY <1>8, <2>1
<1>10. Is(walk)
  <2> HIDE DEF Is, w
  <2> QED
    BY <1>9, Zenon
<1>11. Offset(p, t) = walk[c]
  BY DEF Offset, l
<1> HIDE DEF walk
<1>12. \A k \in 0..c : walk[k] = IF k = 0 THEN s
                         ELSE IF walk[k - 1] < End(t, l) THEN NextBreak(t, walk[k - 1]) ELSE walk[k - 1]
  <2> HIDE DEF c, s
  <2> QED
    BY <1>10, Zenon
<1>13. Walks(walk, t, l, c)
  BY <1>0, <1>12 DEF Walks
<1> DEFINE T == {k \in 0..c : walk[k] \notin V}
<1>14. T = {}
  <2> SUFFICES ASSUME T # {} PROVE FALSE
    OBVIOUS
  <2>1. T \subseteq Nat
    OBVIOUS
  <2>2. PICK k \in T : \A j \in T : k <= j
    <3> HIDE DEF T
    <3> QED
      BY <2>1, LeastNat
  <2>3. k # 0 /\ k - 1 \in 0..c
    BY <1>0, <1>6, <1>12, <2>2
  <2>4. walk[k - 1] \in V
    <3>1. k - 1 \notin T
      <4> HIDE DEF T
      <4> QED
        BY <2>1, <2>2, <2>3
    <3> QED
      BY <2>3, <3>1
  <2> HIDE DEF V
  <2> QED
    BY <1>3, <1>12, <2>2, <2>3, <2>4
<1> QED
  BY <1>1, <1>11, <1>13, <1>14 DEF l

\* The way to a position and back: each step of offset() takes one of the clusters that
\* position() counted.
LEMMA ThereAndBack ==
  ASSUME NEW S, NEW t \in Seq(S), NEW o \in 0..Len(t), Cut(t, o)
  PROVE  Offset(PositionOf(o, t), t) = o
<1> DEFINE l == Rank(t, o)
           s == Start(t, l)
           c == Clusters(t, s, o)
           n == Len(t)
<1>0. n \in Nat /\ l \in Nat /\ l <= Lines(t) - 1 /\ Lines(t) \in Nat
  BY RankOf
<1>1. l \in 0..Lines(t) - 1
  BY <1>0
<1> HIDE DEF l
<1>2. s \in 0..n /\ s <= o /\ Cut(t, s)
  BY <1>0, <1>1, StartIs, StartIsBoundary DEF l
<1>3. o <= End(t, l) /\ End(t, l) \in s..n
  BY <1>0, <1>1, EndIs DEF l
<1> HIDE DEF s
<1>4. c \in Nat
  BY <1>2, ClustersStep
<1>5. PositionOf(o, t) = Pos(l, c)
  <2>1. Min({o, Len(t)}) = o
    <3>1. {o, Len(t)} \subseteq Nat /\ {o, Len(t)} # {}
      OBVIOUS
    <3>2. Min({o, Len(t)}) \in {o, Len(t)} /\ Min({o, Len(t)}) <= o
      BY <3>1, MinIs
    <3> QED
      BY <3>2
  <2> QED
    BY <2>1 DEF PositionOf, s, l, Rank
<1> DEFINE p == Pos(l, c)
<1>6. p \in Position /\ p.line = l /\ p.col = c
  BY <1>0, <1>4 DEF Pos, Position
<1> HIDE DEF p
<1>7. Min({p.line, Lines(t) - 1}) = l
  <2>1. {l, Lines(t) - 1} \subseteq Nat /\ {l, Lines(t) - 1} # {}
    BY <1>0
  <2>2. Min({l, Lines(t) - 1}) \in {l, Lines(t) - 1} /\ Min({l, Lines(t) - 1}) <= l
    BY <2>1, MinIs
  <2> QED
    BY <1>0, <1>6, <2>2
<1>8. PICK w : Offset(p, t) = w[c] /\ Walks(w, t, l, c)
  BY <1>6, <1>7, OffsetWalks
<1> HIDE DEF c
<1> DEFINE Near(k) == /\ w[k] \in s..o /\ Cut(t, w[k])
                      /\ Clusters(t, w[k], o) = c - k
           T == {k \in 0..c : ~ Near(k)}
<1>9. Near(0)
  <2>1. w[0] = s /\ Clusters(t, s, o) = c /\ c - 0 = c /\ s \in s..o
    BY <1>2, <1>4, <1>8 DEF Walks, c, s
  <2> QED
    BY <1>2, <2>1
<1>10. T = {}
  <2> SUFFICES ASSUME T # {} PROVE FALSE
    OBVIOUS
  <2>1. T \subseteq Nat
    OBVIOUS
  <2>2. PICK k \in T : \A j \in T : k <= j
    <3> HIDE DEF T
    <3> QED
      BY <2>1, LeastNat
  <2>3. k # 0 /\ k \in 1..c /\ k - 1 \in 0..c
    BY <1>4, <1>9, <2>2
  <2>4. Near(k - 1)
    <3>1. k - 1 \notin T
      <4> HIDE DEF T
      <4> QED
        BY <2>1, <2>2, <2>3
    <3> QED
      BY <2>3, <3>1
  <2> DEFINE x == w[k - 1]
             y == NextBreak(t, x)
  <2>5. x \in 0..n /\ x <= o /\ Cut(t, x) /\ Clusters(t, x, o) = c - (k - 1)
    BY <1>2, <2>4
  <2>6. x < o
    <3>1. Clusters(t, x, o) # 0
      BY <1>4, <2>3, <2>5
    <3> HIDE DEF x
    <3> QED
      BY <2>5, <3>1, ClustersStep
  <2>7. w[k] = y
    <3>1. x < End(t, l)
      BY <1>3, <2>5, <2>6
    <3> QED
      BY <1>8, <2>3, <3>1 DEF Walks
  <2>8. x \in 0..n - 1 /\ x \in s..o
    BY <1>0, <2>4, <2>5, <2>6
  <2> HIDE DEF x
  <2>9. y \in x + 1..n /\ Cut(t, y) /\ \A z \in x + 1..y - 1 : ~ Cut(t, z)
    BY <2>5, <2>8, NextBreakIsBoundary
  <2>10. y <= o
    <3> HIDE DEF y
    <3>1. o < y => o \in x + 1..y - 1
      BY <2>6, <2>8, <2>9
    <3> QED
      BY <2>8, <2>9, <3>1
  <2>11. Clusters(t, x, o) = 1 + Clusters(t, y, o) /\ Clusters(t, y, o) \in Nat
    <3>1. y \in 0..n
      BY <2>8, <2>9
    <3> QED
      BY <2>5, <2>6, <3>1, ClustersStep
  <2>12. Clusters(t, y, o) = c - k
    BY <1>4, <2>3, <2>5, <2>11
  <2>13. Near(k)
    <3> HIDE DEF y
    <3>1. y \in s..o
      BY <1>2, <2>8, <2>9, <2>10
    <3> QED
      BY <2>7, <2>9, <2>12, <3>1
  <2> QED
    BY <2>2, <2>13
<1>11. Near(c)
  BY <1>4, <1>10
<1>12. w[c] = o
  <2>1. w[c] \in 0..n /\ w[c] <= o /\ Clusters(t, w[c], o) = 0
    BY <1>2, <1>4, <1>11
  <2>2. w[c] >= o
    BY <2>1, ClustersStep
  <2> QED
    BY <2>1, <2>2
<1> QED
  BY <1>5, <1>8, <1>12 DEF p

-----------------------------------------------------------------------------
(* A stretch of a text breaks as it does in the text.                        *)

LEMMA ShiftedCount ==
  ASSUME NEW a \in Nat, NEW n \in Nat, NEW T, T \subseteq 0..n,
         NEW U, U = {a + i : i \in T}
  PROVE  Cardinality(U) = Cardinality(T)
<1> DEFINE f == [i \in T |-> a + i]
<1>1. IsFiniteSet(T)
  <2>1. IsFiniteSet(0..n)
    BY FS_Interval
  <2> QED
    BY <2>1, FS_Subset
<1>2. f \in Bijection(T, U)
  <2>1. f \in [T -> U]
    OBVIOUS
  <2>2. \A x, y \in T : f[x] = f[y] => x = y
    OBVIOUS
  <2>3. \A u \in U : \E i \in T : f[i] = u
    OBVIOUS
  <2> HIDE DEF f
  <2> QED
    BY <2>1, <2>2, <2>3 DEF Bijection, Injection, Surjection, IsInjective
<1>3. ExistsBijection(T, U)
  BY <1>2 DEF ExistsBijection
<1> QED
  BY <1>1, <1>3, FS_Bijection

\* Whether two code points of a cluster are joined depends on the cluster so far alone.
LEMMA JoinedInStretch ==
  ASSUME NEW S, NEW t \in Seq(S), NEW u \in Seq(S), NEW a \in Nat,
         a + Len(u) <= Len(t), \A j \in 0..Len(u) - 1 : At(u, j) = At(t, a + j),
         NEW s \in 0..Len(u) - 1, NEW o \in s + 1..Len(u) - 1
  PROVE  Joined(t, a + s, a + o) <=> Joined(u, s, o)
<1>0. Len(t) \in Nat /\ Len(u) \in Nat
  OBVIOUS
<1>1. \A j \in 0..Len(u) - 1 : At(u, j) = At(t, a + j)
  OBVIOUS
<1>2. At(u, o) = At(t, a + o) /\ At(u, o - 1) = At(t, a + o - 1)
  <2>1. o \in 0..Len(u) - 1 /\ o - 1 \in 0..Len(u) - 1 /\ a + (o - 1) = a + o - 1
    BY <1>0
  <2> QED
    BY <1>1, <2>1
<1>3. ZwjAfterPictographic(t, a + s, a + o) <=> ZwjAfterPictographic(u, s, o)
  <2> DEFINE Ext(c) == c \in {"extend", "zwj"}
             After(i) == At(u, i) = "extended_pictographic" /\ \A j \in i + 1..o - 2 : Ext(At(u, j))
             AfterT(i) == At(t, i) = "extended_pictographic" /\ \A j \in i + 1..a + o - 2 : Ext(At(t, j))
  <2>1. ASSUME NEW i \in s..o - 2 PROVE After(i) <=> AfterT(a + i)
    <3>1. At(u, i) = At(t, a + i)
      BY <1>0, <1>1
    <3>2. ASSUME \A j \in i + 1..o - 2 : Ext(At(u, j)), NEW k \in a + i + 1..a + o - 2
          PROVE  Ext(At(t, k))
      <4>1. k - a \in i + 1..o - 2 /\ k - a \in 0..Len(u) - 1 /\ a + (k - a) = k
        BY <1>0
      <4> HIDE DEF Ext
      <4> QED
        BY <1>1, <3>2, <4>1
    <3>3. ASSUME \A j \in a + i + 1..a + o - 2 : Ext(At(t, j)), NEW k \in i + 1..o - 2
          PROVE  Ext(At(u, k))
      <4>1. a + k \in a + i + 1..a + o - 2 /\ k \in 0..Len(u) - 1
        BY <1>0
      <4> HIDE DEF Ext
      <4> QED
        BY <1>1, <3>3, <4>1
    <3> HIDE DEF Ext
    <3> QED
      BY <3>1, <3>2, <3>3
  <2>2. (\E i \in s..o - 2 : After(i)) <=> \E i \in a + s..a + o - 2 : AfterT(i)
    <3>1. ASSUME NEW i \in s..o - 2, After(i) PROVE \E k \in a + s..a + o - 2 : AfterT(k)
      <4>1. a + i \in a + s..a + o - 2
        OBVIOUS
      <4> HIDE DEF After, AfterT
      <4> QED
        BY <2>1, <3>1, <4>1
    <3>2. ASSUME NEW k \in a + s..a + o - 2, AfterT(k) PROVE \E i \in s..o - 2 : After(i)
      <4>1. k - a \in s..o - 2 /\ a + (k - a) = k
        OBVIOUS
      <4> HIDE DEF After, AfterT
      <4> QED
        BY <2>1, <3>2, <4>1
    <3> HIDE DEF After, AfterT
    <3> QED
      BY <3>1, <3>2
  <2>3. ZwjAfterPictographic(u, s, o) <=>
          o - 1 > s /\ At(u, o - 1) = "zwj" /\ \E i \in s..o - 2 : After(i)
    BY DEF ZwjAfterPictographic
  <2>4. ZwjAfterPictographic(t, a + s, a + o) <=>
          a + o - 1 > a + s /\ At(t, a + o - 1) = "zwj" /\ \E i \in a + s..a + o - 2 : AfterT(i)
    BY DEF ZwjAfterPictographic
  <2>5. o - 1 > s <=> a + o - 1 > a + s
    OBVIOUS
  <2> HIDE DEF After, AfterT
  <2> QED
    BY <1>2, <2>2, <2>3, <2>4, <2>5
<1>4. Regionals(t, a + s, a + o) = Regionals(u, s, o)
  <2> DEFINE RI(c) == c = "regional_indicator"
             In(c) == c \in {"regional_indicator", "extend"}
             G == {i \in s..o - 1 : RI(At(u, i)) /\ \A j \in i..o - 1 : In(At(u, j))}
             H == {i \in a + s..a + o - 1 : RI(At(t, i)) /\ \A j \in i..a + o - 1 : In(At(t, j))}
  <2>1. ASSUME NEW i \in s..o - 1 PROVE i \in G <=> a + i \in H
    <3>1. At(u, i) = At(t, a + i)
      BY <1>0, <1>1
    <3>2. ASSUME \A j \in i..o - 1 : In(At(u, j)), NEW k \in a + i..a + o - 1
          PROVE  In(At(t, k))
      <4>1. k - a \in i..o - 1 /\ k - a \in 0..Len(u) - 1 /\ a + (k - a) = k
        BY <1>0
      <4> HIDE DEF In
      <4> QED
        BY <1>1, <3>2, <4>1
    <3>3. ASSUME \A j \in a + i..a + o - 1 : In(At(t, j)), NEW k \in i..o - 1
          PROVE  In(At(u, k))
      <4>1. a + k \in a + i..a + o - 1 /\ k \in 0..Len(u) - 1
        BY <1>0
      <4> HIDE DEF In
      <4> QED
        BY <1>1, <3>3, <4>1
    <3>4. a + i \in a + s..a + o - 1
      OBVIOUS
    <3> HIDE DEF In, RI
    <3> QED
      BY <3>1, <3>2, <3>3, <3>4
  <2>2. H = {a + i : i \in G}
    <3>1. ASSUME NEW k \in H PROVE k \in {a + i : i \in G}
      <4>1. k - a \in s..o - 1 /\ a + (k - a) = k
        OBVIOUS
      <4>2. k - a \in G
        <5> HIDE DEF G, H
        <5> QED
          BY <2>1, <4>1
      <4> HIDE DEF G, H
      <4> QED
        BY <4>1, <4>2
    <3>2. ASSUME NEW i \in G PROVE a + i \in H
      <4>1. i \in s..o - 1
        OBVIOUS
      <4> HIDE DEF G, H
      <4> QED
        BY <2>1, <4>1
    <3> HIDE DEF G, H
    <3> QED
      BY <3>1, <3>2
  <2>3. G \subseteq 0..o /\ o \in Nat
    OBVIOUS
  <2>4. Cardinality(H) = Cardinality(G)
    <3> HIDE DEF G, H
    <3> QED
      BY <2>2, <2>3, ShiftedCount
  <2>5. Regionals(u, s, o) = Cardinality(G) /\ Regionals(t, a + s, a + o) = Cardinality(H)
    BY DEF Regionals
  <2> HIDE DEF G, H
  <2> QED
    BY <2>4, <2>5
<1> QED
  BY <1>2, <1>3, <1>4 DEF Joined, NoBreak

\* A cluster of the stretch ends where the text's does, or with the stretch.
LEMMA NextBreakInStretch ==
  ASSUME NEW S, NEW t \in Seq(S), NEW u \in Seq(S), NEW a \in Nat,
         a + Len(u) <= Len(t), \A j \in 0..Len(u) - 1 : At(u, j) = At(t, a + j),
         NEW s \in 0..Len(u) - 1
  PROVE  IF NextBreak(t, a + s) < a + Len(u) THEN NextBreak(t, a + s) = a + NextBreak(u, s)
         ELSE NextBreak(u, s) = Len(u)
<1> DEFINE x == NextBreak(t, a + s)
           y == NextBreak(u, s)
           n == Len(u)
<1>0. Len(t) \in Nat /\ n \in Nat /\ a + s \in 0..Len(t) - 1
  OBVIOUS
<1>1. /\ x \in a + s + 1..Len(t)
      /\ x = Len(t) \/ ~ Joined(t, a + s, x)
      /\ \A o \in a + s + 1..x - 1 : Joined(t, a + s, o)
  BY <1>0, NextBreakIs
<1>2. /\ y \in s + 1..n
      /\ y = n \/ ~ Joined(u, s, y)
      /\ \A o \in s + 1..y - 1 : Joined(u, s, o)
  BY NextBreakIs
<1> HIDE DEF x, y
<1>3. \A o \in s + 1..n - 1 : Joined(t, a + s, a + o) <=> Joined(u, s, o)
  BY JoinedInStretch
<1>4. ASSUME x < a + n PROVE x = a + y
  <2>1. x - a \in s + 1..n - 1 /\ a + (x - a) = x /\ x # Len(t)
    BY <1>0, <1>1, <1>4
  <2>2. ~ Joined(u, s, x - a)
    BY <1>1, <1>3, <2>1
  <2>3. y <= x - a
    <3>1. x - a < y => x - a \in s + 1..y - 1
      BY <1>2, <2>1
    <3> QED
      BY <1>2, <2>1, <2>2, <3>1
  <2>4. y \in s + 1..n - 1 /\ ~ Joined(t, a + s, a + y)
    BY <1>0, <1>2, <1>3, <2>1, <2>3
  <2>5. ~ (a + y < x)
    <3>1. a + y < x => a + y \in a + s + 1..x - 1
      BY <1>1, <1>2
    <3> QED
      BY <1>1, <2>4, <3>1
  <2> QED
    BY <1>0, <1>1, <1>2, <2>3, <2>5
<1>5. ASSUME ~ (x < a + n), y # n PROVE FALSE
  <2>1. y \in s + 1..n - 1 /\ a + y \in a + s + 1..x - 1
    BY <1>0, <1>1, <1>2, <1>5
  <2> QED
    BY <1>1, <1>2, <1>3, <1>5, <2>1
<1> QED
  BY <1>4, <1>5 DEF x, y

\* Line l of a text, as a stretch of it.
LEMMA LineIs ==
  ASSUME NEW S, NEW t \in Seq(S), NEW l \in 0..Lines(t) - 1
  PROVE  /\ Line(t, l) \in Seq(S)
         /\ Start(t, l) + Len(Line(t, l)) = End(t, l)
         /\ \A j \in 0..Len(Line(t, l)) - 1 : At(Line(t, l), j) = At(t, Start(t, l) + j)
<1> DEFINE s == Start(t, l)
           e == End(t, l)
<1>1. Lines(t) \in Nat /\ Len(t) \in Nat
  BY RankOf
<1>2. s \in 0..Len(t) /\ e \in s..Len(t)
  BY StartIs, EndIs
<1>3. Line(t, l) = SubSeq(t, s + 1, e)
  <2>1. ~ (l >= Lines(t))
    BY <1>1
  <2> QED
    BY <2>1 DEF Line
<1> HIDE DEF s, e
<1>4. s + 1 \in 1..Len(t) + 1 /\ e \in (s + 1) - 1..Len(t)
  BY <1>1, <1>2
<1>5. /\ SubSeq(t, s + 1, e) \in Seq(S)
      /\ Len(SubSeq(t, s + 1, e)) = e - s
      /\ \A i \in 1..e - s : SubSeq(t, s + 1, e)[i] = t[s + 1 + i - 1]
  BY <1>1, <1>2
<1>6. \A j \in 0..e - s - 1 : At(Line(t, l), j) = At(t, s + j)
  <2> SUFFICES ASSUME NEW j \in 0..e - s - 1 PROVE Line(t, l)[j + 1] = t[s + j + 1]
    BY DEF At
  <2>1. j + 1 \in 1..e - s /\ s + 1 + (j + 1) - 1 = s + j + 1
    BY <1>1, <1>2
  <2> QED
    BY <1>3, <1>5, <2>1
<1> QED
  BY <1>2, <1>3, <1>5, <1>6 DEF s, e

\* As many steps as the line has clusters reach its end.
LEMMA PastLine ==
  ASSUME NEW S, NEW t \in Seq(S), NEW l \in 0..Lines(t) - 1, NEW c \in Nat,
         NEW w, Walks(w, t, l, c), \A k \in 0..c : w[k] \in Start(t, l)..Len(t),
         c >= Count(Line(t, l))
  PROVE  w[c] >= End(t, l)
<1> DEFINE s == Start(t, l)
           e == End(t, l)
           u == Line(t, l)
           n == Len(u)
           Near(k) == w[k] >= e \/ Clusters(u, w[k] - s, n) + k = Count(u)
           T == {k \in 0..c : ~ Near(k)}
<1>0. /\ u \in Seq(S) /\ n \in Nat /\ s + n = e
      /\ \A j \in 0..n - 1 : At(u, j) = At(t, s + j)
  BY LineIs
<1>1. s \in 0..Len(t) /\ e \in s..Len(t) /\ Len(t) \in Nat
  BY StartIs, EndIs
<1>2. w[0] = s /\ \A k \in 1..c : w[k] = IF w[k - 1] < e THEN NextBreak(t, w[k - 1]) ELSE w[k - 1]
  BY DEF Walks
<1>3. \A k \in 0..c : w[k] \in s..Len(t)
  OBVIOUS
<1>4. \A i \in 0..n : /\ Clusters(u, i, n) \in Nat
                      /\ Clusters(u, i, n) = 0 <=> i >= n
                      /\ i < n => Clusters(u, i, n) = 1 + Clusters(u, NextBreak(u, i), n)
  BY <1>0, ClustersStep
<1>5. c >= Count(u) /\ Count(u) = Clusters(u, 0, n)
  BY DEF Count
<1>6. \A i \in 0..n - 1 : IF NextBreak(t, s + i) < s + n THEN NextBreak(t, s + i) = s + NextBreak(u, i)
                          ELSE NextBreak(u, i) = n
  <2> HIDE DEF s, u
  <2> QED
    BY <1>0, <1>1, NextBreakInStretch
<1>6a. \A i \in 0..n - 1 : NextBreak(u, i) \in 0..n
  BY <1>0, NextBreakBound
<1> HIDE DEF s, e, u, n
<1>7. T = {}
  <2> SUFFICES ASSUME T # {} PROVE FALSE
    OBVIOUS
  <2>1. T \subseteq Nat
    OBVIOUS
  <2>2. PICK k \in T : \A j \in T : k <= j
    <3> HIDE DEF T
    <3> QED
      BY <2>1, LeastNat
  <2>3. 0 \notin T
    <3>1. s - s = 0 /\ Clusters(u, 0, n) + 0 = Clusters(u, 0, n)
      BY <1>0, <1>1, <1>4
    <3> QED
      BY <1>2, <1>5, <3>1
  <2>4. k \in 1..c /\ k - 1 \in 0..c
    BY <2>2, <2>3
  <2>5. Near(k - 1)
    <3>1. k - 1 \notin T
      <4> HIDE DEF T
      <4> QED
        BY <2>1, <2>2, <2>4
    <3> QED
      BY <2>4, <3>1
  <2> DEFINE x == w[k - 1]
             i == x - s
  <2>6. x \in s..Len(t) /\ w[k] \in s..Len(t)
    BY <1>3, <2>2, <2>4
  <2>7. w[k] = IF x < e THEN NextBreak(t, x) ELSE x
    BY <1>2, <2>4
  <2>8. ~ (w[k] >= e) /\ Clusters(u, w[k] - s, n) + k # Count(u)
    BY <2>2
  <2>9. x < e /\ Clusters(u, i, n) + (k - 1) = Count(u)
    BY <1>1, <2>5, <2>6, <2>7, <2>8
  <2> HIDE DEF x
  <2>10. i \in 0..n - 1 /\ i \in 0..n /\ s + i = x /\ i < n
    BY <1>0, <1>1, <2>6, <2>9
  <2> HIDE DEF i
  <2>11. w[k] < s + n
    BY <1>0, <1>1, <2>6, <2>8
  <2>12. NextBreak(t, s + i) = s + NextBreak(u, i) /\ w[k] = s + NextBreak(u, i)
    BY <1>6, <2>7, <2>9, <2>10, <2>11
  <2>13. w[k] - s = NextBreak(u, i) /\ NextBreak(u, i) \in 0..n
    BY <1>1, <1>6a, <2>10, <2>12
  <2>14. Clusters(u, i, n) = 1 + Clusters(u, w[k] - s, n) /\ Clusters(u, w[k] - s, n) \in Nat
    BY <1>4, <2>10, <2>13
  <2> QED
    BY <2>4, <2>8, <2>9, <2>14
<1>8. Near(c)
  BY <1>7
<1>9. ASSUME w[c] < e PROVE FALSE
  <2>1. w[c] \in s..Len(t)
    BY <1>3
  <2>2. w[c] - s \in 0..n /\ ~ (w[c] - s >= n)
    BY <1>0, <1>1, <1>9, <2>1
  <2>3. Clusters(u, w[c] - s, n) \in Nat \ {0}
    BY <1>4, <2>2
  <2>4. Clusters(u, w[c] - s, n) + c = Count(u)
    BY <1>1, <1>8, <1>9, <2>1
  <2>5. Count(u) \in Nat
    BY <1>0, <1>4, <1>5
  <2> QED
    BY <1>5, <2>3, <2>4, <2>5
<1>10. w[c] \in s..Len(t)
  BY <1>3
<1> QED
  BY <1>1, <1>9, <1>10 DEF e

LEMMA OffsetStays ==
  ASSUME NEW S, NEW t \in Seq(S), NEW p \in Position
  PROVE  LET l == Min({p.line, Lines(t) - 1})
         IN  /\ l \in 0..Lines(t) - 1
             /\ Offset(p, t) \in Start(t, l)..Len(t)
             /\ Offset(p, t) \in 0..Len(t)
             /\ p.col >= Count(Line(t, l)) => Offset(p, t) >= End(t, l)
<1> DEFINE l == Min({p.line, Lines(t) - 1})
           c == p.col
<1>1. /\ l \in 0..Lines(t) - 1
      /\ \E w : Offset(p, t) = w[c] /\ Walks(w, t, l, c) /\ \A k \in 0..c : w[k] \in Start(t, l)..Len(t)
  BY OffsetWalks
<1> HIDE DEF l
<1>2. c \in Nat
  BY DEF Position
<1> HIDE DEF c
<1>3. PICK w : Offset(p, t) = w[c] /\ Walks(w, t, l, c) /\ \A k \in 0..c : w[k] \in Start(t, l)..Len(t)
  BY <1>1
<1>4. c >= Count(Line(t, l)) => w[c] >= End(t, l)
  BY <1>1, <1>2, <1>3, PastLine
<1>5. Start(t, l) \in 0..Len(t)
  BY <1>1, StartIs
<1>6. w[c] \in Start(t, l)..Len(t) /\ w[c] \in 0..Len(t)
  BY <1>2, <1>3, <1>5
<1>7. /\ l \in 0..Lines(t) - 1
      /\ Offset(p, t) \in Start(t, l)..Len(t)
      /\ Offset(p, t) \in 0..Len(t)
      /\ c >= Count(Line(t, l)) => Offset(p, t) >= End(t, l)
  BY <1>1, <1>3, <1>4, <1>6
<1> QED
  BY <1>7 DEF l, c

\* Each offset between two clusters survives the way to a position and back, and a
\* position past the end of its line or of the text means an end, never a place before
\* its line.
THEOREM PositionsExact == TextSpec => []PositionsAgree
<1>1. ASSUME TypedInv PROVE PositionsAgree
  <2> DEFINE S == UNION Alphabets
  <2>0. typed \in Seq(S) /\ Len(typed) \in Nat /\ Lines(typed) \in Nat
    BY <1>1, RankOf DEF TypedInv
  <2>1. ASSUME NEW o \in Breaks(typed) PROVE Offset(PositionOf(o, typed), typed) = o
    <3>1. o \in 0..Len(typed) /\ Cut(typed, o)
      BY <2>0, BreaksAreBoundaries
    <3> QED
      BY <2>0, <3>1, ThereAndBack
  <2>2. ASSUME NEW l \in 0..Lines(typed), NEW c \in 0..Len(typed) + 1
        PROVE  LET m == Min({l, Lines(typed) - 1})
                   o == Offset(Pos(l, c), typed)
               IN  /\ Start(typed, m) <= o /\ o <= Len(typed)
                   /\ c >= Count(Line(typed, m)) => o >= End(typed, m)
    <3>1. Pos(l, c) \in Position /\ Pos(l, c).line = l /\ Pos(l, c).col = c
      BY <2>0 DEF Pos, Position
    <3>2. LET m == Min({l, Lines(typed) - 1})
              o == Offset(Pos(l, c), typed)
          IN  /\ m \in 0..Lines(typed) - 1
              /\ o \in Start(typed, m)..Len(typed)
              /\ c >= Count(Line(typed, m)) => o >= End(typed, m)
      BY <2>0, <3>1, OffsetStays
    <3>3. \A m \in 0..Lines(typed) - 1 : Start(typed, m) \in 0..Len(typed)
      BY <2>0, StartIs
    <3> QED
      BY <2>0, <3>2, <3>3
  <2> QED
    BY <2>1, <2>2 DEF PositionsAgree
<1> QED
  BY <1>1, TypedIsText, PTL

-----------------------------------------------------------------------------
(* Edits.                                                                    *)

LEMMA OffsetInText ==
  ASSUME NEW S, NEW t \in Seq(S), NEW p \in Position
  PROVE  Offset(p, t) \in 0..Len(t)
<1> DEFINE l == Min({p.line, Lines(t) - 1})
<1>1. Offset(p, t) \in 0..Len(t)
  <2> HIDE DEF l
  <2>1. /\ l \in 0..Lines(t) - 1
        /\ Offset(p, t) \in Start(t, l)..Len(t)
        /\ Offset(p, t) \in 0..Len(t)
        /\ p.col >= Count(Line(t, l)) => Offset(p, t) >= End(t, l)
    BY OffsetStays DEF l
  <2> QED
    BY <2>1
<1> QED
  BY <1>1

LEMMA EditsAreTexts ==
  ASSUME NEW S, NEW t \in Seq(S), NEW p \in Position, NEW q \in Position, NEW v \in Seq(S)
  PROVE  /\ Inserted(t, p, v) \in Seq(S)
         /\ Erased(t, p, q) \in Seq(S)
         /\ Replaced(t, p, q, v) \in Seq(S)
<1>1. ASSUME NEW r \in Seq(S) PROVE Inserted(r, p, v) \in Seq(S)
  <2>1. Offset(p, r) \in 0..Len(r) /\ Len(r) \in Nat
    BY OffsetInText
  <2>2. SubSeq(r, 1, Offset(p, r)) \in Seq(S) /\ SubSeq(r, Offset(p, r) + 1, Len(r)) \in Seq(S)
    BY <2>1
  <2> QED
    BY <2>2 DEF Inserted
<1>2. Erased(t, p, q) \in Seq(S)
  <2>1. Offset(p, t) \in 0..Len(t) /\ Offset(q, t) \in 0..Len(t) /\ Len(t) \in Nat
    BY OffsetInText
  <2>2. SubSeq(t, 1, Offset(p, t)) \in Seq(S) /\ SubSeq(t, Offset(q, t) + 1, Len(t)) \in Seq(S)
    BY <2>1
  <2> QED
    BY <2>2 DEF Erased
<1> QED
  BY <1>1, <1>2 DEF Replaced

\* What History::set_text() erases before it inserts is the whole text, whatever its last
\* line: what it leaves is the text it was given.
THEOREM SetTextErasesAll == \A t \in Seq(Property) : EraseAll(t) = <<>>
<1> SUFFICES ASSUME NEW t \in Seq(Property) PROVE EraseAll(t) = <<>>
  OBVIOUS
<1> DEFINE last == Lines(t) - 1
           p == Pos(last, Count(Line(t, last)))
<1>1. Lines(t) \in Nat /\ last \in 0..last /\ last \in 0..Lines(t) - 1 /\ 0 \in 0..Lines(t) - 1 /\ Len(t) \in Nat
  BY RankOf
<1> HIDE DEF last
<1>2. Count(Line(t, last)) \in Nat
  <2>1. Line(t, last) \in Seq(Property)
    BY <1>1, LineIs
  <2>2. 0 \in 0..Len(Line(t, last)) /\ Len(Line(t, last)) \in 0..Len(Line(t, last))
    BY <2>1
  <2> QED
    BY <2>1, <2>2, ClustersStep DEF Count
<1>3. p \in Position /\ p.line = last /\ p.col = Count(Line(t, last))
  BY <1>1, <1>2 DEF Pos, Position
<1>4. Pos(0, 0) \in Position /\ Pos(0, 0).line = 0 /\ Pos(0, 0).col = 0
  BY DEF Pos, Position
<1> HIDE DEF p
<1>5. Min({last, last}) = last /\ Min({0, last}) = 0
  <2>1. {last, last} \subseteq Nat /\ {0, last} \subseteq Nat /\ {last, last} # {} /\ {0, last} # {}
    BY <1>1
  <2>2. Min({last, last}) \in {last, last} /\ Min({0, last}) \in {0, last} /\ Min({0, last}) <= 0
    BY <2>1, MinIs
  <2> QED
    BY <1>1, <2>2
<1>6. Offset(p, t) = Len(t)
  <2>1. Offset(p, t) \in 0..Len(t) /\ Offset(p, t) >= End(t, last)
    <3> DEFINE l == Min({p.line, Lines(t) - 1})
    <3>1. l = last
      BY <1>3, <1>5 DEF last
    <3> HIDE DEF l
    <3>2. p.col >= Count(Line(t, l)) => Offset(p, t) >= End(t, l)
      BY <1>3, OffsetStays DEF l
    <3> QED
      BY <1>2, <1>3, <3>1, <3>2, OffsetInText
  <2>2. End(t, last) = Len(t)
    BY <1>1 DEF End, last
  <2> QED
    BY <1>1, <2>1, <2>2
<1>7. Offset(Pos(0, 0), t) = 0
  <2>1. PICK w : Offset(Pos(0, 0), t) = w[0] /\ Walks(w, t, 0, 0)
    BY <1>4, <1>5, OffsetWalks DEF last
  <2>2. Start(t, 0) = 0
    BY <1>1, StartIs
  <2> QED
    BY <2>1, <2>2 DEF Walks
<1>8. EraseAll(t) = Erased(t, Pos(0, 0), p)
  BY DEF EraseAll, p, last
<1>9. SubSeq(t, 1, 0) \o SubSeq(t, Len(t) + 1, Len(t)) = <<>>
  BY <1>1
<1>10. Len(t) = 0 => t = <<>>
  OBVIOUS
<1> QED
  BY <1>1, <1>6, <1>7, <1>8, <1>9, <1>10 DEF Erased

-----------------------------------------------------------------------------
(* Strings and their handles.                                               *)

\* A string that somebody other than the handle that lets go still holds survives.
LEMMA ReleasedKeeps ==
  ASSUME HandlesOK, NEW c, NEW h, NEW d \in Cells, NEW k \in Holders(d), k # h
  PROVE  Released(c, h)[d] = heap[d]
<1>1. ~ (d = c /\ Holders(c) = {h})
  OBVIOUS
<1>2. QED
  BY <1>1 DEF Released

LEMMA BufferHolds ==
  ASSUME HandlesOK, NEW b \in Buffers
  PROVE  text[b] \in Cells /\ b \in Holders(text[b])
BY DEF HandlesOK, Holders

LEMMA SnapshotHolds ==
  ASSUME HandlesOK, NEW s \in Snapshots, held[s] # None
  PROVE  held[s] \in Cells /\ s \in Holders(held[s])
BY DEF HandlesOK, Holders

\* An edit changes the text of its buffer and what no other handle shows.
LEMMA WriteEffect ==
  ASSUME HandlesOK, NEW b \in Buffers, NEW t, NEW edits \in Nat, Write(b, t, edits)
  PROVE  /\ HandlesOK'
         /\ Content' = [Content EXCEPT ![b] = t]
         /\ View' = View
         /\ version' = [version EXCEPT ![b] = @ + edits]
         /\ UNCHANGED <<held, stamp, source>>
<1>1. /\ version' = [version EXCEPT ![b] = @ + edits]
      /\ UNCHANGED <<held, stamp, source>>
  BY DEF Write
<1>2. PICK c \in Cells :
        /\ heap' = [heap EXCEPT ![c] = t]
        /\ text' = [text EXCEPT ![b] = c]
        /\ \A k : k \in Holders(c) => k = b
  <2>1. CASE Unique(b) /\ heap' = [heap EXCEPT ![text[b]] = t] /\ UNCHANGED text
    BY <2>1, BufferHolds DEF Unique, HandlesOK
  <2>2. ASSUME NEW c \in Free, heap' = [heap EXCEPT ![c] = t], text' = [text EXCEPT ![b] = c]
        PROVE  /\ c \in Cells /\ \A k : k \in Holders(c) => k = b
    BY <2>2 DEF Free
  <2>3. QED
    BY <2>1, <2>2 DEF Write
<1>3. HandlesOK'
  BY <1>1, <1>2 DEF HandlesOK
<1>4. ASSUME NEW d \in Buffers, d # b
      PROVE  heap'[text'[d]] = heap[text[d]]
  <2>1. text'[d] = text[d] /\ text[d] \in Cells /\ text[d] # c
    BY <1>2, <1>4, BufferHolds DEF HandlesOK
  <2>2. QED
    BY <1>2, <2>1 DEF HandlesOK
<1>5. heap'[text'[b]] = t
  BY <1>2 DEF HandlesOK
<1>6. Content' = [Content EXCEPT ![b] = t]
  BY <1>4, <1>5 DEF Content, Text
<1>7. ASSUME NEW s \in Snapshots, held[s] # None
      PROVE  heap'[held[s]] = heap[held[s]]
  <2>1. held[s] \in Cells /\ held[s] # c
    BY <1>2, <1>7, SnapshotHolds, HandlesAssumption
  <2>2. QED
    BY <1>2, <2>1 DEF HandlesOK
<1>8. View' = View
  BY <1>1, <1>7 DEF View
<1>9. QED
  BY <1>1, <1>3, <1>6, <1>8

\* When handle b, a buffer, lets go of its string, the others keep theirs.
LEMMA BufferLetsGo ==
  ASSUME HandlesOK, NEW b \in Buffers, NEW h, h = Released(text[b], b)
  PROVE  /\ \A d \in Buffers \ {b} : h[text[d]] = heap[text[d]]
         /\ \A s \in Snapshots : held[s] # None => h[held[s]] = heap[held[s]]
<1>1. ASSUME NEW d \in Buffers \ {b}
      PROVE  h[text[d]] = heap[text[d]]
  BY BufferHolds, ReleasedKeeps
<1>2. ASSUME NEW s \in Snapshots, held[s] # None
      PROVE  h[held[s]] = heap[held[s]]
  <2>1. s # b
    BY HandlesAssumption
  <2>2. QED
    BY <1>2, <2>1, SnapshotHolds, ReleasedKeeps
<1>3. QED
  BY <1>1, <1>2

LEMMA SnapshotLetsGo ==
  ASSUME HandlesOK, NEW s \in Snapshots, NEW h, h = Released(held[s], s)
  PROVE  /\ \A d \in Buffers : h[text[d]] = heap[text[d]]
         /\ \A r \in Snapshots \ {s} : held[r] # None => h[held[r]] = heap[held[r]]
<1>1. ASSUME NEW d \in Buffers
      PROVE  h[text[d]] = heap[text[d]]
  <2>1. d # s
    BY HandlesAssumption
  <2>2. QED
    BY <2>1, BufferHolds, ReleasedKeeps
<1>2. ASSUME NEW r \in Snapshots \ {s}, held[r] # None
      PROVE  h[held[r]] = heap[held[r]]
  BY <1>2, SnapshotHolds, ReleasedKeeps
<1>3. QED
  BY <1>1, <1>2

LEMMA DisownType ==
  ASSUME HandlesOK, NEW b, Disown(b)
  PROVE  source' \in [Snapshots -> Buffers \cup {None}]
BY DEF HandlesOK, Disown

\* A buffer that is loaded becomes the text that was read.
LEMMA LoadEffect ==
  ASSUME HandlesOK, NEW b \in Buffers, Load(b)
  PROVE  /\ HandlesOK'
         /\ \E v \in Values : Content' = [Content EXCEPT ![b] = v]
         /\ View' = View
         /\ version' = [version EXCEPT ![b] = 0]
<1> DEFINE h == Released(text[b], b)
<1>1. PICK c \in Free, v \in Values :
        heap' = [h EXCEPT ![c] = v] /\ text' = [text EXCEPT ![b] = c]
  BY DEF Load
<1>2. /\ version' = [version EXCEPT ![b] = 0] /\ Disown(b)
      /\ held' = held /\ stamp' = stamp
  BY DEF Load
<1>3. c \in Cells /\ \A k : k \notin Holders(c)
  BY DEF Free
<1>4. heap' = [d \in Cells |-> heap'[d]] /\ heap'[c] = v
      /\ \A d \in Cells \ {c} : heap'[d] = h[d]
  BY <1>1, <1>3 DEF Released
<1>5. HandlesOK'
  BY <1>1, <1>2, <1>3, <1>4, DisownType DEF HandlesOK
<1>6. ASSUME NEW d \in Buffers
      PROVE  heap'[text'[d]] = IF d = b THEN v ELSE heap[text[d]]
  <2>1. CASE d = b
    BY <1>1, <1>4, <2>1 DEF HandlesOK
  <2>2. CASE d # b
    <3>1. text'[d] = text[d] /\ text[d] \in Cells \ {c}
      BY <1>1, <1>3, <2>2, BufferHolds DEF HandlesOK
    <3>2. h[text[d]] = heap[text[d]]
      BY <2>2, BufferLetsGo
    <3>3. QED
      BY <1>4, <2>2, <3>1, <3>2
  <2>3. QED
    BY <2>1, <2>2
<1>7. ASSUME NEW s \in Snapshots, held[s] # None
      PROVE  heap'[held[s]] = heap[held[s]]
  <2>1. held[s] \in Cells \ {c}
    BY <1>3, <1>7, SnapshotHolds
  <2>2. h[held[s]] = heap[held[s]]
    BY <1>7, BufferLetsGo
  <2>3. QED
    BY <1>4, <2>1, <2>2
<1>8. Content' = [Content EXCEPT ![b] = v]
  BY <1>6 DEF Content, Text
<1>9. View' = View
  BY <1>2, <1>7 DEF View
<1>10. QED
  BY <1>2, <1>5, <1>8, <1>9

\* A copied buffer becomes what it was copied from.
LEMMA CopyEffect ==
  ASSUME HandlesOK, NEW b \in Buffers, NEW c \in Buffers, Copy(b, c)
  PROVE  /\ HandlesOK'
         /\ Content' = [Content EXCEPT ![b] = Content[c]]
         /\ View' = View
         /\ version' = [version EXCEPT ![b] = version[c]]
<1>1. /\ b # c /\ heap' = Released(text[b], b)
      /\ text' = [text EXCEPT ![b] = text[c]]
      /\ version' = [version EXCEPT ![b] = version[c]]
      /\ Disown(b) /\ held' = held /\ stamp' = stamp
  BY DEF Copy
<1>2. HandlesOK'
  BY <1>1, DisownType DEF HandlesOK, Released
<1>3. ASSUME NEW d \in Buffers
      PROVE  heap'[text'[d]] = IF d = b THEN heap[text[c]] ELSE heap[text[d]]
  <2>1. \A e \in Buffers \ {b} : heap'[text[e]] = heap[text[e]]
    BY <1>1, BufferLetsGo
  <2>2. text'[d] = IF d = b THEN text[c] ELSE text[d]
    BY <1>1 DEF HandlesOK
  <2>3. QED
    BY <1>1, <2>1, <2>2
<1>4. Content' = [Content EXCEPT ![b] = Content[c]]
  BY <1>3 DEF Content, Text
<1>5. \A s \in Snapshots : held[s] # None => heap'[held[s]] = heap[held[s]]
  BY <1>1, BufferLetsGo
<1>6. View' = View
  BY <1>1, <1>5 DEF View
<1>7. QED
  BY <1>1, <1>2, <1>4, <1>6

\* A snapshot shows the buffer it is taken of.
LEMMA TakeEffect ==
  ASSUME HandlesOK, NEW b \in Buffers, NEW s \in Snapshots, Take(b, s)
  PROVE  /\ HandlesOK'
         /\ Content' = Content /\ version' = version
         /\ View' = [View EXCEPT ![s] = <<Content[b], version[b]>>]
<1>1. /\ heap' = Released(held[s], s)
      /\ held' = [held EXCEPT ![s] = text[b]]
      /\ stamp' = [stamp EXCEPT ![s] = version[b]]
      /\ source' = [source EXCEPT ![s] = b]
      /\ text' = text /\ version' = version
  BY DEF Take
<1>2. HandlesOK'
  BY <1>1 DEF HandlesOK, Released
<1>3. \A d \in Buffers : heap'[text[d]] = heap[text[d]]
  BY <1>1, SnapshotLetsGo
<1>4. Content' = Content
  BY <1>1, <1>3 DEF Content, Text
<1>5. ASSUME NEW r \in Snapshots
      PROVE  View'[r] = IF r = s THEN <<Content[b], version[b]>> ELSE View[r]
  <2>1. CASE r = s
    <3>1. held'[r] = text[b] /\ stamp'[r] = version[b] /\ text[b] # None
      BY <1>1, <2>1, TextAssumption DEF HandlesOK
    <3>2. View'[r] = <<heap'[text[b]], version[b]>>
      BY <3>1 DEF View
    <3>3. QED
      BY <1>3, <2>1, <3>2 DEF Content, Text
  <2>2. CASE r # s
    <3>1. held'[r] = held[r] /\ stamp'[r] = stamp[r]
      BY <1>1, <2>2 DEF HandlesOK
    <3>2. held[r] # None => heap'[held[r]] = heap[held[r]]
      BY <1>1, <2>2, SnapshotLetsGo
    <3>3. QED
      BY <2>2, <3>1, <3>2 DEF View
  <2>3. QED
    BY <2>1, <2>2
<1>6. View' = [View EXCEPT ![s] = <<Content[b], version[b]>>]
  BY <1>5 DEF View
<1>7. QED
  BY <1>1, <1>2, <1>4, <1>6

LEMMA DropEffect ==
  ASSUME HandlesOK, NEW s \in Snapshots, Drop(s)
  PROVE  /\ HandlesOK'
         /\ Content' = Content /\ version' = version
         /\ View' = [View EXCEPT ![s] = None]
<1>1. /\ heap' = Released(held[s], s)
      /\ held' = [held EXCEPT ![s] = None]
      /\ stamp' = [stamp EXCEPT ![s] = 0]
      /\ source' = [source EXCEPT ![s] = None]
      /\ text' = text /\ version' = version
  BY DEF Drop
<1>2. HandlesOK'
  BY <1>1 DEF HandlesOK, Released
<1>3. \A d \in Buffers : heap'[text[d]] = heap[text[d]]
  BY <1>1, SnapshotLetsGo
<1>4. Content' = Content
  BY <1>1, <1>3 DEF Content, Text
<1>5. ASSUME NEW r \in Snapshots
      PROVE  View'[r] = IF r = s THEN None ELSE View[r]
  <2>1. CASE r = s
    BY <1>1, <2>1 DEF HandlesOK, View
  <2>2. CASE r # s
    <3>1. held'[r] = held[r] /\ stamp'[r] = stamp[r]
      BY <1>1, <2>2 DEF HandlesOK
    <3>2. held[r] # None => heap'[held[r]] = heap[held[r]]
      BY <1>1, <2>2, SnapshotLetsGo
    <3>3. QED
      BY <2>2, <3>1, <3>2 DEF View
  <2>3. QED
    BY <2>1, <2>2
<1>6. View' = [View EXCEPT ![s] = None]
  BY <1>5 DEF View
<1>7. QED
  BY <1>1, <1>2, <1>4, <1>6

-----------------------------------------------------------------------------

\* Every handle keeps a string of the heap.
THEOREM HandlesKept == Spec => []HandlesOK
<1>1. Init => HandlesOK
  BY DEF Init, HandlesOK
<1>2. HandlesOK /\ [Next]_vars => HandlesOK'
  <2> SUFFICES ASSUME HandlesOK, [Next]_vars PROVE HandlesOK'
    OBVIOUS
  <2>1. ASSUME NEW b \in Buffers, Insert(b) \/ Erase(b) \/ Replace(b)
        PROVE  HandlesOK'
    BY <2>1, WriteEffect DEF Insert, Erase, Replace
  <2>2. ASSUME NEW b \in Buffers, Load(b)
        PROVE  HandlesOK'
    BY <2>2, LoadEffect
  <2>3. ASSUME NEW b \in Buffers, NEW c \in Buffers, Copy(b, c)
        PROVE  HandlesOK'
    BY <2>3, CopyEffect
  <2>4. ASSUME NEW b \in Buffers, NEW s \in Snapshots, Take(b, s)
        PROVE  HandlesOK'
    BY <2>4, TakeEffect
  <2>5. ASSUME NEW s \in Snapshots, Drop(s)
        PROVE  HandlesOK'
    BY <2>5, DropEffect
  <2>6. CASE UNCHANGED vars
    BY <2>6 DEF vars, HandlesOK
  <2>7. QED
    BY <2>1, <2>2, <2>3, <2>4, <2>5, <2>6 DEF Next
<1>3. QED
  BY <1>1, <1>2, PTL DEF Spec

\* Buffers and snapshots that share strings behave as values of their own: no edit of
\* a buffer is seen through a snapshot or through another buffer.
THEOREM SharingIsInvisible == Spec => ValueSemantics
<1>1. Init => Value!Init
  BY DEF Init, Value!Init, Content, View, Text
<1>2. HandlesOK /\ [Next]_vars => [Value!Next]_(Value!vars)
  <2> SUFFICES ASSUME HandlesOK, [Next]_vars PROVE [Value!Next]_(Value!vars)
    OBVIOUS
  <2>1. ASSUME NEW b \in Buffers, Insert(b)
        PROVE  Value!Next
    <3>1. PICK p \in Places, v \in Values : Write(b, Inserted(Text(b), p, v), 1)
      BY <2>1 DEF Insert
    <3>2. Content[b] = Text(b)
      BY DEF Content
    <3>3. Value!Insert(b, p, v)
      BY <3>1, <3>2, WriteEffect DEF Value!Insert, Value!Become
    <3>4. QED
      BY <3>3 DEF Value!Next
  <2>2. ASSUME NEW b \in Buffers, Erase(b)
        PROVE  Value!Next
    <3>1. PICK p \in Places, q \in Places : Write(b, Erased(Text(b), p, q), 1)
      BY <2>2 DEF Erase
    <3>2. Content[b] = Text(b)
      BY DEF Content
    <3>3. Value!Erase(b, p, q)
      BY <3>1, <3>2, WriteEffect DEF Value!Erase, Value!Become
    <3>4. QED
      BY <3>3 DEF Value!Next
  <2>3. ASSUME NEW b \in Buffers, Replace(b)
        PROVE  Value!Next
    <3>1. PICK p \in Places, q \in Places, v \in Values :
            Write(b, Replaced(Text(b), p, q, v), 2)
      BY <2>3 DEF Replace
    <3>2. Content[b] = Text(b)
      BY DEF Content
    <3>3. Value!Replace(b, p, q, v)
      BY <3>1, <3>2, WriteEffect DEF Value!Replace, Value!Become
    <3>4. QED
      BY <3>3 DEF Value!Next
  <2>4. ASSUME NEW b \in Buffers, Load(b)
        PROVE  Value!Next
    <3>1. PICK v \in Values : Value!Load(b, v)
      BY <2>4, LoadEffect DEF Value!Load, Value!Become
    <3>2. QED
      BY <3>1 DEF Value!Next
  <2>5. ASSUME NEW b \in Buffers, NEW c \in Buffers, Copy(b, c)
        PROVE  Value!Next
    BY <2>5, CopyEffect DEF Value!Copy, Value!Become, Value!Next
  <2>6. ASSUME NEW b \in Buffers, NEW s \in Snapshots, Take(b, s)
        PROVE  Value!Next
    BY <2>6, TakeEffect DEF Value!Take, Value!Next
  <2>7. ASSUME NEW s \in Snapshots, Drop(s)
        PROVE  Value!Next
    BY <2>7, DropEffect DEF Value!Drop, Value!Next
  <2>8. CASE UNCHANGED vars
    BY <2>8 DEF vars, Value!vars, Content, View, Text
  <2>9. QED
    BY <2>1, <2>2, <2>3, <2>4, <2>5, <2>6, <2>7, <2>8 DEF Next
<1>3. QED
  BY <1>1, <1>2, HandlesKept, PTL DEF Spec, ValueSemantics, Value!Spec

-----------------------------------------------------------------------------

\* A snapshot s of a buffer that has only been edited since is not of a later
\* generation, and shows the buffer's text if it is of the same one.
Dated(s) ==
  source[s] # None /\ held[s] # None =>
    /\ source[s] \in Buffers /\ stamp[s] <= version[source[s]]
    /\ stamp[s] = version[source[s]] => heap[held[s]] = Content[source[s]]

DatedInv == \A s \in Snapshots : Dated(s)

\* A snapshot stays dated in a step that leaves it and its buffer alone.
LEMMA DatedKept ==
  ASSUME HandlesOK, HandlesOK', NEW s \in Snapshots, Dated(s),
         held'[s] = held[s], stamp'[s] = stamp[s], source'[s] = source[s],
         View'[s] = View[s],
         source[s] \in Buffers =>
           Content'[source[s]] = Content[source[s]] /\ version'[source[s]] = version[source[s]]
  PROVE  Dated(s)'
<1>1. held[s] # None => heap'[held[s]] = heap[held[s]]
  BY DEF View
<1>2. QED
  BY <1>1 DEF Dated

LEMMA DatedWrite ==
  ASSUME HandlesOK, DatedInv, NEW b \in Buffers, NEW t, NEW edits \in Nat \ {0},
         Write(b, t, edits)
  PROVE  DatedInv'
<1>1. /\ HandlesOK' /\ Content' = [Content EXCEPT ![b] = t] /\ View' = View
      /\ version' = [version EXCEPT ![b] = @ + edits]
      /\ held' = held /\ stamp' = stamp /\ source' = source
  BY WriteEffect
<1>2. ASSUME NEW s \in Snapshots, source[s] = b
      PROVE  Dated(s)'
  <2>1. version[b] \in Nat /\ stamp[s] \in Nat /\ version'[b] = version[b] + edits
    BY <1>1 DEF HandlesOK
  <2>2. source[s] # None /\ held[s] # None => stamp[s] <= version[b]
    BY <1>2 DEF DatedInv, Dated
  <2>3. source[s] # None /\ held[s] # None => stamp[s] < version'[b]
    BY <2>1, <2>2
  <2>4. QED
    BY <1>1, <1>2, <2>1, <2>3 DEF Dated
<1>3. ASSUME NEW s \in Snapshots, source[s] # b
      PROVE  Dated(s)'
  <2>1. source[s] \in Buffers =>
          Content'[source[s]] = Content[source[s]] /\ version'[source[s]] = version[source[s]]
    BY <1>1, <1>3 DEF HandlesOK, Content
  <2>2. QED
    BY <1>1, <2>1, DatedKept DEF DatedInv
<1>4. QED
  BY <1>2, <1>3 DEF DatedInv

\* A buffer that becomes another text disowns its snapshots.
LEMMA DatedReplaced ==
  ASSUME HandlesOK, HandlesOK', DatedInv, NEW b \in Buffers, NEW t, NEW n,
         Content' = [Content EXCEPT ![b] = t], version' = [version EXCEPT ![b] = n],
         View' = View, held' = held, stamp' = stamp, Disown(b)
  PROVE  DatedInv'
<1>1. ASSUME NEW s \in Snapshots
      PROVE  Dated(s)'
  <2>1. CASE source[s] = b
    BY <2>1 DEF Disown, Dated
  <2>2. CASE source[s] # b
    <3>1. source'[s] = source[s]
      BY <2>2 DEF Disown
    <3>2. source[s] \in Buffers =>
            Content'[source[s]] = Content[source[s]] /\ version'[source[s]] = version[source[s]]
      BY <2>2 DEF HandlesOK, Content
    <3>3. QED
      BY <3>1, <3>2, DatedKept DEF DatedInv
  <2>3. QED
    BY <2>1, <2>2
<1>2. QED
  BY <1>1 DEF DatedInv

LEMMA DatedTake ==
  ASSUME HandlesOK, DatedInv, NEW b \in Buffers, NEW s \in Snapshots, Take(b, s)
  PROVE  DatedInv'
<1>1. /\ held' = [held EXCEPT ![s] = text[b]] /\ stamp' = [stamp EXCEPT ![s] = version[b]]
      /\ source' = [source EXCEPT ![s] = b]
  BY DEF Take
<1>2. /\ HandlesOK' /\ Content' = Content /\ version' = version
      /\ View' = [View EXCEPT ![s] = <<Content[b], version[b]>>]
  BY TakeEffect
<1>3. Dated(s)'
  <2>1. held'[s] = text[b] /\ stamp'[s] = version[b] /\ source'[s] = b /\ version[b] \in Nat
    BY <1>1 DEF HandlesOK
  <2>2. heap'[text[b]] = Content[b]
    BY <1>2 DEF Content, Text, Take
  <2>3. QED
    BY <1>2, <2>1, <2>2 DEF Dated
<1>4. ASSUME NEW r \in Snapshots, r # s
      PROVE  Dated(r)'
  <2>1. /\ held'[r] = held[r] /\ stamp'[r] = stamp[r] /\ source'[r] = source[r]
        /\ View'[r] = View[r]
    BY <1>1, <1>2, <1>4 DEF HandlesOK, View
  <2>2. QED
    BY <1>2, <2>1, DatedKept DEF DatedInv
<1>5. QED
  BY <1>3, <1>4 DEF DatedInv

LEMMA DatedDrop ==
  ASSUME HandlesOK, DatedInv, NEW s \in Snapshots, Drop(s)
  PROVE  DatedInv'
<1>1. /\ held' = [held EXCEPT ![s] = None] /\ stamp' = [stamp EXCEPT ![s] = 0]
      /\ source' = [source EXCEPT ![s] = None]
  BY DEF Drop
<1>2. /\ HandlesOK' /\ Content' = Content /\ version' = version
      /\ View' = [View EXCEPT ![s] = None]
  BY DropEffect
<1>3. Dated(s)'
  BY <1>1 DEF Dated, HandlesOK
<1>4. ASSUME NEW r \in Snapshots, r # s
      PROVE  Dated(r)'
  <2>1. /\ held'[r] = held[r] /\ stamp'[r] = stamp[r] /\ source'[r] = source[r]
        /\ View'[r] = View[r]
    BY <1>1, <1>2, <1>4 DEF HandlesOK, View
  <2>2. QED
    BY <1>2, <2>1, DatedKept DEF DatedInv
<1>5. QED
  BY <1>3, <1>4 DEF DatedInv

LEMMA DatedStep == HandlesOK /\ DatedInv /\ [Next]_vars => DatedInv'
<1> SUFFICES ASSUME HandlesOK, DatedInv, [Next]_vars PROVE DatedInv'
  OBVIOUS
<1>1. ASSUME NEW b \in Buffers, Insert(b) \/ Erase(b) \/ Replace(b)
      PROVE  DatedInv'
  <2>1. PICK edits \in {1, 2} : \E t : Write(b, t, edits)
    BY <1>1 DEF Insert, Erase, Replace
  <2>2. QED
    BY <2>1, DatedWrite
<1>2. ASSUME NEW b \in Buffers, Load(b)
      PROVE  DatedInv'
  <2>1. Disown(b) /\ held' = held /\ stamp' = stamp
    BY <1>2 DEF Load
  <2>2. QED
    BY <1>2, <2>1, LoadEffect, DatedReplaced
<1>3. ASSUME NEW b \in Buffers, NEW c \in Buffers, Copy(b, c)
      PROVE  DatedInv'
  <2>1. Disown(b) /\ held' = held /\ stamp' = stamp
    BY <1>3 DEF Copy
  <2>2. QED
    BY <1>3, <2>1, CopyEffect, DatedReplaced
<1>4. CASE UNCHANGED vars
  BY <1>4 DEF vars, DatedInv, Dated, Content, Text
<1>5. QED
  BY <1>1, <1>2, <1>3, <1>4, DatedTake, DatedDrop DEF Next

\* generation() names the text of a buffer as long as the buffer is only edited: a
\* cache made of a snapshot is good while the two generations agree.
THEOREM GenerationsNameTexts == Spec => []GenerationNamesText
<1>1. Init => DatedInv
  BY DEF Init, DatedInv, Dated
<1>2. DatedInv => GenerationNamesText
  BY DEF DatedInv, Dated, GenerationNamesText, Content
<1>3. QED
  BY <1>1, <1>2, DatedStep, HandlesKept, PTL DEF Spec

-----------------------------------------------------------------------------
Strings == heap \in [Cells -> Seq(Property)]

LEMMA WriteKeepsStrings ==
  ASSUME HandlesOK, Strings, NEW b \in Buffers, NEW t \in Seq(Property), NEW edits, Write(b, t, edits)
  PROVE  Strings'
BY DEF Write, HandlesOK, Strings, Free

LEMMA ReleaseKeepsStrings ==
  ASSUME Strings, NEW c, NEW h
  PROVE  Released(c, h) \in [Cells -> Seq(Property)]
<1>1. <<>> \in Seq(Property)
  OBVIOUS
<1>2. \A d \in Cells : heap[d] \in Seq(Property)
  BY DEF Strings
<1> QED
  BY <1>1, <1>2 DEF Released

LEMMA StringsStep == HandlesOK /\ Strings /\ [Next]_vars => Strings'
<1> SUFFICES ASSUME HandlesOK, Strings, [Next]_vars PROVE Strings'
  OBVIOUS
<1>0. Values \subseteq Seq(Property) /\ Places \subseteq Position
  BY TextAssumption
<1>1. ASSUME NEW b \in Buffers PROVE Text(b) \in Seq(Property)
  BY DEF Text, HandlesOK, Strings
<1>2. ASSUME NEW b \in Buffers, Insert(b) PROVE Strings'
  <2>1. PICK p \in Places, v \in Values : Write(b, Inserted(Text(b), p, v), 1)
    BY <1>2 DEF Insert
  <2>2. Inserted(Text(b), p, v) \in Seq(Property)
    BY <1>0, <1>1, EditsAreTexts
  <2> QED
    BY <2>1, <2>2, WriteKeepsStrings
<1>3. ASSUME NEW b \in Buffers, Erase(b) PROVE Strings'
  <2>1. PICK p \in Places, q \in Places : Write(b, Erased(Text(b), p, q), 1)
    BY <1>3 DEF Erase
  <2>2. <<>> \in Seq(Property)
    OBVIOUS
  <2>3. Erased(Text(b), p, q) \in Seq(Property)
    BY <1>0, <1>1, <2>2, EditsAreTexts
  <2> QED
    BY <2>1, <2>3, WriteKeepsStrings
<1>4. ASSUME NEW b \in Buffers, Replace(b) PROVE Strings'
  <2>1. PICK p \in Places, q \in Places, v \in Values : Write(b, Replaced(Text(b), p, q, v), 2)
    BY <1>4 DEF Replace
  <2>2. Replaced(Text(b), p, q, v) \in Seq(Property)
    BY <1>0, <1>1, EditsAreTexts
  <2> QED
    BY <2>1, <2>2, WriteKeepsStrings
<1>5. ASSUME NEW b \in Buffers, Load(b) PROVE Strings'
  <2>1. PICK c \in Free, v \in Values : heap' = [Released(text[b], b) EXCEPT ![c] = v]
    BY <1>5 DEF Load
  <2>2. Released(text[b], b) \in [Cells -> Seq(Property)]
    BY ReleaseKeepsStrings
  <2> QED
    BY <1>0, <2>1, <2>2 DEF Strings
<1>6. ASSUME NEW b \in Buffers, NEW c \in Buffers, Copy(b, c) PROVE Strings'
  BY <1>6, ReleaseKeepsStrings DEF Copy, Strings
<1>7. ASSUME NEW b \in Buffers, NEW s \in Snapshots, Take(b, s) PROVE Strings'
  BY <1>7, ReleaseKeepsStrings DEF Take, Strings
<1>8. ASSUME NEW s \in Snapshots, Drop(s) PROVE Strings'
  BY <1>8, ReleaseKeepsStrings DEF Drop, Strings
<1>9. CASE UNCHANGED vars
  BY <1>9 DEF vars, Strings
<1> QED
  BY <1>2, <1>3, <1>4, <1>5, <1>6, <1>7, <1>8, <1>9 DEF Next

\* Every handle keeps a string of the heap, and every edit, wherever it is asked for,
\* makes a text of a text.
THEOREM TypesKept == Spec => []TypeOK
<1>1. Init => Strings
  <2>1. <<>> \in Seq(Property)
    OBVIOUS
  <2> QED
    BY <2>1 DEF Init, Strings
<1>2. HandlesOK /\ Strings => TypeOK
  BY DEF Strings, TypeOK
<1> QED
  BY <1>1, <1>2, StringsStep, HandlesKept, PTL DEF Spec

-----------------------------------------------------------------------------
(* Cursors.                                                                  *)

\* A stretch has no more clusters up to a place within it, counted in the text, than the
\* stretch by itself.
LEMMA CountInStretch ==
  ASSUME NEW S, NEW t \in Seq(S), NEW u \in Seq(S), NEW a \in Nat,
         a + Len(u) <= Len(t), \A j \in 0..Len(u) - 1 : At(u, j) = At(t, a + j),
         NEW o \in 0..a + Len(u)
  PROVE  Clusters(t, a, o) <= Clusters(u, 0, Len(u))
<1> DEFINE n == Len(u)
           T == {i \in 0..n : ~ (Clusters(t, a + i, o) <= Clusters(u, i, n))}
<1>0. n \in Nat /\ Len(t) \in Nat /\ a + n <= Len(t) /\ o \in 0..Len(t) /\ o <= a + n
  OBVIOUS
<1>1. \A i \in 0..n : a + i \in 0..Len(t)
  BY <1>0
<1>2. \A i \in 0..n : Clusters(t, a + i, o) \in Nat /\ Clusters(u, i, n) \in Nat
  <2> SUFFICES ASSUME NEW i \in 0..n PROVE Clusters(t, a + i, o) \in Nat /\ Clusters(u, i, n) \in Nat
    OBVIOUS
  <2>1. n \in 0..n /\ a + i \in 0..Len(t)
    BY <1>0, <1>1
  <2> QED
    BY <1>0, <2>1, ClustersStep
<1>3. T = {}
  <2> SUFFICES ASSUME T # {} PROVE FALSE
    OBVIOUS
  <2>1. PICK i \in T : \A k \in T : k <= i
    <3>1. T \subseteq 0..n
      OBVIOUS
    <3> HIDE DEF T
    <3> QED
      BY <1>0, <3>1, GreatestNat
  <2>2. i \in 0..n /\ ~ (Clusters(t, a + i, o) <= Clusters(u, i, n))
    OBVIOUS
  <2>3. Clusters(t, a + i, o) # 0
    BY <1>2, <2>2
  <2>4. a + i < o
    <3>1. a + i \in 0..Len(t)
      BY <1>1, <2>2
    <3>2. Clusters(t, a + i, o) = 0 <=> a + i >= o
      BY <1>0, <3>1, ClustersStep
    <3> QED
      BY <1>0, <2>2, <2>3, <3>1, <3>2
  <2>5. i \in 0..n - 1
    BY <1>0, <2>2, <2>4
  <2> DEFINE e == NextBreak(t, a + i)
             f == NextBreak(u, i)
  <2>6. Clusters(t, a + i, o) = 1 + Clusters(t, e, o)
    <3>1. a + i \in 0..Len(t)
      BY <1>1, <2>2
    <3> QED
      BY <1>0, <2>4, <3>1, ClustersStep
  <2>7. Clusters(u, i, n) = 1 + Clusters(u, f, n)
    <3>1. i \in 0..Len(u) /\ n \in 0..Len(u) /\ i < n
      BY <1>0, <2>5
    <3> QED
      BY <3>1, ClustersStep
  <2>8. e \in 0..Len(t) /\ f \in i + 1..n
    <3>1. a + i \in 0..Len(t) /\ i \in 0..n /\ i < n
      BY <1>0, <1>1, <2>5
    <3>2. e \in a + i..Len(t)
      BY <3>1, NextBreakBound
    <3>3. f \in i + 1..Len(u)
      BY <3>1, NextBreakBound
    <3> QED
      BY <1>0, <3>1, <3>2, <3>3
  <2>9. IF e < a + n THEN e = a + f ELSE f = n
    BY <2>5, NextBreakInStretch
  <2> HIDE DEF e, f
  <2>10. CASE e < a + n
    <3>1. f \notin T
      <4> HIDE DEF T
      <4> QED
        BY <1>0, <2>1, <2>2, <2>8
    <3>2. f \in 0..n /\ e = a + f
      BY <1>0, <2>2, <2>8, <2>9, <2>10
    <3>3. Clusters(t, a + f, o) <= Clusters(u, f, n)
      BY <3>1, <3>2
    <3> QED
      BY <1>2, <2>2, <2>6, <2>7, <3>2, <3>3
  <2>11. CASE ~ (e < a + n)
    <3>1. Clusters(t, e, o) = 0
      <4>1. e >= o
        BY <1>0, <2>8, <2>11
      <4> QED
        BY <1>0, <2>8, <4>1, ClustersStep
    <3>2. Clusters(u, f, n) \in Nat
      <4>1. f \in 0..n
        BY <1>0, <2>2, <2>8
      <4> QED
        BY <1>2, <4>1
    <3> QED
      BY <2>2, <2>6, <2>7, <3>1, <3>2
  <2> QED
    BY <2>10, <2>11
<1>4. 0 \in 0..n /\ 0 \notin T
  BY <1>0, <1>3
<1> HIDE DEF n
<1> QED
  BY <1>4 DEF n

LEMMA LineLengths ==
  ASSUME NEW S, NEW t \in Seq(S), NEW l \in 0..Lines(t) - 1
  PROVE  LineLength(t, l) \in Nat
<1>1. Line(t, l) \in Seq(S)
  BY LineIs
<1>2. 0 \in 0..Len(Line(t, l)) /\ Len(Line(t, l)) \in 0..Len(Line(t, l))
  <2>1. Len(Line(t, l)) \in Nat
    BY <1>1
  <2> QED
    BY <2>1
<1> QED
  BY <1>1, <1>2, ClustersStep DEF LineLength, Count

\* A boundary is a position of the text.
LEMMA PlacedInLine ==
  ASSUME NEW S, NEW t \in Seq(S), NEW o \in 0..Len(t)
  PROVE  \E l \in 0..Lines(t) - 1 : \E c \in 0..LineLength(t, l) : PositionOf(o, t) = Pos(l, c)
<1> DEFINE l == Rank(t, o)
           c == Clusters(t, Start(t, l), o)
           u == Line(t, l)
<1>0. Len(t) \in Nat /\ o <= Len(t) /\ Len(t) \in 0..Len(t)
  OBVIOUS
<1>1. Min({o, Len(t)}) = o
  BY <1>0 DEF Min
<1>2. PositionOf(o, t) = Pos(l, c)
  BY <1>1 DEF PositionOf, Rank
<1>3. l \in 0..Lines(t) - 1
  <2>1. Rank(t, o) \in Nat /\ Rank(t, o) <= Rank(t, Len(t)) /\ Lines(t) = Rank(t, Len(t)) + 1
        /\ Rank(t, Len(t)) \in Nat
    BY <1>0, RankOf
  <2> QED
    BY <2>1
<1> HIDE DEF l
<1>4. Start(t, l) \in 0..Len(t) /\ End(t, l) \in Start(t, l)..Len(t) /\ o <= End(t, l)
  <2>1. Start(t, l) \in 0..Len(t)
    BY <1>3, StartIs
  <2>2. End(t, l) \in Start(t, l)..Len(t) /\ (o <= End(t, l) <=> Rank(t, o) <= l)
    BY <1>3, EndIs
  <2>3. Rank(t, o) <= l
    BY <1>3 DEF l
  <2> QED
    BY <2>1, <2>2, <2>3
<1>5. u \in Seq(S) /\ Start(t, l) + Len(u) = End(t, l)
      /\ \A j \in 0..Len(u) - 1 : At(u, j) = At(t, Start(t, l) + j)
  BY <1>3, LineIs
<1> HIDE DEF u
<1>6. c <= Clusters(u, 0, Len(u))
  <2>1. Start(t, l) \in Nat /\ Start(t, l) + Len(u) <= Len(t) /\ o \in 0..Start(t, l) + Len(u)
    BY <1>0, <1>4, <1>5
  <2> QED
    BY <1>5, <2>1, CountInStretch
<1>7. c \in Nat
  BY <1>4, ClustersStep
<1>8. LineLength(t, l) \in Nat /\ LineLength(t, l) = Clusters(u, 0, Len(u))
  BY <1>3, LineLengths DEF LineLength, Count, u
<1> QED
  BY <1>2, <1>3, <1>6, <1>7, <1>8

LEMMA CaretIs ==
  \A p : p \in Carets <=> \E l \in LineNumbers : \E c \in 0..LineLength(typed, l) : p = Pos(l, c)
BY DEF Carets

LEMMA BreakIsCaret ==
  ASSUME TypedInv, NEW b \in Breaks(typed)
  PROVE  PositionOf(b, typed) \in Carets /\ Offset(PositionOf(b, typed), typed) = b
<1>1. typed \in Seq(UNION Alphabets)
  BY DEF TypedInv
<1>2. b \in 0..Len(typed) /\ Cut(typed, b)
  BY <1>1, BreaksAreBoundaries
<1>3. Offset(PositionOf(b, typed), typed) = b
  BY <1>1, <1>2, ThereAndBack
<1>4. PositionOf(b, typed) \in Carets
  BY <1>1, <1>2, PlacedInLine, CaretIs DEF LineNumbers
<1> QED
  BY <1>3, <1>4

LEMMA EndsAreBreaks ==
  ASSUME TypedInv
  PROVE  0 \in Breaks(typed) /\ Len(typed) \in Breaks(typed) /\ Breaks(typed) \subseteq 0..Len(typed)
<1>1. typed \in Seq(UNION Alphabets) /\ Len(typed) \in Nat
  BY DEF TypedInv
<1> QED
  BY <1>1, BreaksAreBoundaries DEF Cut

\* A word motion to the right ends where the run of letters (or of others) does.
LEMMA SkipRunIs ==
  ASSUME TypedInv, NEW o \in 0..Len(typed), NEW word
  PROVE  LET b == SkipRun(typed, o, word)
         IN  /\ b \in Breaks(typed) /\ b >= o
             /\ b = Len(typed) \/ IsWord(typed, b) # word
             /\ \A k \in Breaks(typed) : k >= o /\ k < b => IsWord(typed, k) = word
<1> DEFINE B == {k \in Breaks(typed) : k >= o /\ (k = Len(typed) \/ IsWord(typed, k) # word)}
<1>1. Len(typed) \in Breaks(typed) /\ Breaks(typed) \subseteq 0..Len(typed) /\ Len(typed) \in Nat
  BY EndsAreBreaks DEF TypedInv
<1>2. Len(typed) \in B /\ B \subseteq Nat
  BY <1>1
<1>3. SkipRun(typed, o, word) = Min(B)
  BY DEF SkipRun
<1>4. Min(B) \in B /\ \A k \in B : Min(B) <= k
  <2> HIDE DEF B
  <2> QED
    BY <1>2, MinIs
<1>5. \A k \in Breaks(typed) : k >= o /\ k < Min(B) => k \notin B
  <2> HIDE DEF B
  <2>1. \A k \in Breaks(typed) : k \in Nat
    BY <1>1
  <2>2. Min(B) \in Nat
    BY <1>2, <1>4
  <2> QED
    BY <1>4, <2>1, <2>2
<1> DEFINE b == Min(B)
<1>6. b \in B /\ \A k \in Breaks(typed) : k >= o /\ k < b => k \notin B
  BY <1>4, <1>5
<1> HIDE DEF b
<1>7. b \in Breaks(typed) /\ b >= o /\ (b = Len(typed) \/ IsWord(typed, b) # word)
  BY <1>6
<1>8. \A k \in Breaks(typed) : k >= o /\ k < b => IsWord(typed, k) = word
  BY <1>6
<1> QED
  BY <1>3, <1>7, <1>8 DEF b

\* Where a word motion to the left ends.
Last0(o) == Max({0} \cup {b \in {k \in Breaks(typed) : k < o} : IsWord(typed, b)})

First0(o) ==
  LET before == {k \in Breaks(typed) : k < o}
  IN  Min({b \in before \cup {Last0(o)} :
        b <= Last0(o) /\ \A c \in before : b <= c /\ c < Last0(o) => IsWord(typed, c)})

LEMMA WordLeftIs ==
  ASSUME TypedInv, NEW o \in 0..Len(typed)
  PROVE  /\ First0(o) \in Breaks(typed) /\ (First0(o) < o \/ o = 0)
         /\ (\A k \in 0..Len(typed) : k \in Breaks(typed)) => WordBoundary(typed, First0(o))
<1> DEFINE before == {k \in Breaks(typed) : k < o}
           L == {0} \cup {b \in before : IsWord(typed, b)}
           last == Last0(o)
           F == {b \in before \cup {last} : b <= last /\ \A c \in before : b <= c /\ c < last => IsWord(typed, c)}
           start == First0(o)
<1>0. 0 \in Breaks(typed) /\ Breaks(typed) \subseteq 0..Len(typed) /\ Len(typed) \in Nat
  BY EndsAreBreaks DEF TypedInv
<1>1. L \subseteq 0..Len(typed) /\ L # {}
  BY <1>0
<1>2. last \in L
  <2>1. last = Max(L)
    BY DEF Last0
  <2> HIDE DEF L, last
  <2> QED
    BY <1>0, <1>1, <2>1, MaxIs
<1>3. last \in Nat /\ last \in Breaks(typed) /\ (last = 0 \/ (IsWord(typed, last) /\ last < o)) /\ last <= Len(typed)
  BY <1>0, <1>2
<1> HIDE DEF last, L
<1>4. last \in F /\ F \subseteq Nat
  BY <1>0, <1>3
<1>5. start \in F /\ \A k \in F : start <= k
  <2>1. start = Min(F)
    BY DEF First0, last
  <2> HIDE DEF F, start
  <2> QED
    BY <1>4, <2>1, MinIs
<1> HIDE DEF start
<1>6. start \in Breaks(typed) /\ start \in Nat /\ start <= last /\ start <= Len(typed)
      /\ \A c \in before : start <= c /\ c < last => IsWord(typed, c)
  BY <1>0, <1>3, <1>5
<1>7. start < o \/ o = 0
  BY <1>3, <1>6
<1>8. ASSUME \A k \in 0..Len(typed) : k \in Breaks(typed) PROVE WordBoundary(typed, start)
  <2>1. CASE start = 0
    BY <2>1 DEF WordBoundary
  <2>2. CASE start # 0
    <3>1. last # 0 /\ last < o /\ IsWord(typed, last)
      BY <1>3, <1>6, <2>2
    <3>2. start - 1 \in 0..Len(typed) /\ start - 1 < last /\ start - 1 < o
      BY <1>3, <1>6, <2>2, <3>1
    <3>3. start - 1 \in before
      BY <1>8, <3>2
    <3>4. start - 1 \notin F
      <4> HIDE DEF F, before
      <4> QED
        BY <1>5, <1>6
    <3>5. PICK c \in before : start - 1 <= c /\ c < last /\ ~ IsWord(typed, c)
      <4>1. start - 1 \in before \cup {last} /\ start - 1 <= last
        <5> HIDE DEF before
        <5> QED
          BY <1>3, <1>6, <3>2, <3>3
      <4>2. ~ \A c \in before : start - 1 <= c /\ c < last => IsWord(typed, c)
        <5> HIDE DEF before
        <5> QED
          BY <3>4, <4>1, Zenon DEF F
      <4> QED
        BY <4>2
    <3>6. c = start - 1
      <4>1. c \in Nat
        BY <1>0
      <4>2. ~ (start <= c)
        BY <1>6, <3>5
      <4> QED
        BY <1>6, <3>5, <4>1, <4>2
    <3>7. IsWord(typed, start)
      <4>1. CASE start = last
        BY <3>1, <4>1
      <4>2. CASE start # last
        <5>1. start \in before /\ start < last
          BY <1>3, <1>6, <3>1, <4>2
        <5>2. start <= start
          BY <1>6
        <5> QED
          BY <1>6, <5>1, <5>2
      <4> QED
        BY <4>1, <4>2
    <3> QED
      BY <3>5, <3>6, <3>7 DEF WordBoundary
  <2> QED
    BY <2>1, <2>2
<1> QED
  BY <1>6, <1>7, <1>8 DEF start

\* Every offset of such a text is a boundary.
LEMMA UnjoinedBreaks ==
  ASSUME TypedInv, Unjoined(typed)
  PROVE  \A k \in 0..Len(typed) : k \in Breaks(typed)
<1>0. typed \in Seq(UNION Alphabets) /\ Len(typed) \in Nat
  BY DEF TypedInv
<1> SUFFICES ASSUME NEW k \in 0..Len(typed) PROVE Cut(typed, k)
  BY <1>0, BreaksAreBoundaries
<1>1. CASE k \in {0, Len(typed)}
  BY <1>1 DEF Cut
<1>2. CASE k \notin {0, Len(typed)}
  <2> DEFINE p == At(typed, k - 1)
             c == At(typed, k)
  <2>1. k \in DOMAIN typed /\ k + 1 \in DOMAIN typed /\ (k - 1) + 1 = k
    BY <1>0, <1>2
  <2>2. ~ NoBreak(p, c, TRUE, 1)
    BY <2>1 DEF Unjoined, At
  <2>3. 1 % 2 = 1
    OBVIOUS
  <2> HIDE DEF p, c
  <2>4. /\ ~ (p = "cr" /\ c = "lf")
        /\ \/ p \in Breaker \/ c \in Breaker
           \/ /\ ~ Hangul(p, c)
              /\ c \notin {"extend", "zwj", "spacing_mark"} /\ p # "prepend"
              /\ c # "extended_pictographic" /\ ~ (p = "regional_indicator" /\ c = "regional_indicator")
    BY <2>2, <2>3 DEF NoBreak
  <2>5. (PictographRun(typed, k) => c = "extended_pictographic")
        /\ (FlagOpen(typed, k) => c = "regional_indicator" /\ p = "regional_indicator")
    BY DEF PictographRun, FlagOpen, p, c
  <2> QED
    BY <2>4, <2>5 DEF Cut, p, c
<1> QED
  BY <1>1, <1>2

\* Where the motions of a cursor lead.
LEMMA MotionsLead ==
  ASSUME NEW p
  PROVE  LET to(motion) == Moved(typed, CursorAt(p), motion, FALSE).position
         IN  /\ to("left") = Left(typed, p) /\ to("right") = Right(typed, p)
             /\ to("up") = ToLine(typed, CursorAt(p), p.line - 1)
             /\ to("down") = ToLine(typed, CursorAt(p), p.line + 1)
             /\ to("word_left") = WordLeft(typed, p) /\ to("word_right") = WordRight(typed, p)
             /\ to("paragraph_up") = ParagraphUp(typed, p) /\ to("paragraph_down") = ParagraphDown(typed, p)
<1>1. \A motion : Moved(typed, CursorAt(p), motion, FALSE).position = Target(typed, CursorAt(p), motion)
  BY DEF Moved
<1>2. CursorAt(p).position = p
  BY DEF CursorAt
<1>3. Target(typed, CursorAt(p), "left") = Left(typed, p)
  BY <1>2 DEF Target
<1>4. Target(typed, CursorAt(p), "right") = Right(typed, p)
  BY <1>2 DEF Target
<1>5. Target(typed, CursorAt(p), "up") = ToLine(typed, CursorAt(p), p.line - 1)
  BY <1>2 DEF Target
<1>6. Target(typed, CursorAt(p), "down") = ToLine(typed, CursorAt(p), p.line + 1)
  BY <1>2 DEF Target
<1>7. Target(typed, CursorAt(p), "word_left") = WordLeft(typed, p)
  BY <1>2 DEF Target
<1>8. Target(typed, CursorAt(p), "word_right") = WordRight(typed, p)
  BY <1>2 DEF Target
<1>9. Target(typed, CursorAt(p), "paragraph_up") = ParagraphUp(typed, p)
  BY <1>2 DEF Target
<1>10. Target(typed, CursorAt(p), "paragraph_down") = ParagraphDown(typed, p)
  BY <1>2 DEF Target
<1> QED
  BY <1>1, <1>3, <1>4, <1>5, <1>6, <1>7, <1>8, <1>9, <1>10

\* Moving by one cluster or by one line stays in the text, and left undoes right.
LEMMA StepsStay ==
  ASSUME TypedInv, NEW p \in Carets
  PROVE  /\ Left(typed, p) \in Carets /\ Right(typed, p) \in Carets
         /\ \A l \in Int : ToLine(typed, CursorAt(p), l) \in Carets
         /\ Left(typed, Right(typed, p)) = p \/ p = Pos(Lines(typed) - 1, LineLength(typed, Lines(typed) - 1))
         /\ Right(typed, Left(typed, p)) = p \/ p = Pos(0, 0)
<1>1. Lines(typed) \in Nat /\ Lines(typed) >= 1
  <2>1. typed \in Seq(UNION Alphabets) /\ 0 \in 0..Len(typed) /\ Len(typed) \in 0..Len(typed)
    BY DEF TypedInv
  <2>2. Rank(typed, Len(typed)) \in Nat /\ Lines(typed) = Rank(typed, Len(typed)) + 1
    BY <2>1, RankOf
  <2> QED
    BY <2>2
<1>2. \A l \in LineNumbers : l \in Nat /\ l < Lines(typed) /\ LineLength(typed, l) \in Nat
  BY <1>1, LineLengths DEF TypedInv, LineNumbers
<1>3. \A l \in Nat : l < Lines(typed) => l \in LineNumbers
  BY <1>1 DEF LineNumbers
<1>4. \A l \in LineNumbers : \A c \in 0..LineLength(typed, l) : Pos(l, c) \in Carets
  BY CaretIs
<1>5a. PICK l \in LineNumbers : \E c \in 0..LineLength(typed, l) : p = Pos(l, c)
  BY CaretIs
<1>5. PICK c \in 0..LineLength(typed, l) : p = Pos(l, c)
  BY <1>5a
<1>6. \A a, b : Pos(a, b).line = a /\ Pos(a, b).col = b
  BY DEF Pos
<1>7. l \in Nat /\ l < Lines(typed) /\ c \in Nat /\ c <= LineLength(typed, l) /\ LineLength(typed, l) \in Nat
      /\ p.line = l /\ p.col = c
  BY <1>2, <1>5, <1>6
<1> HIDE DEF LineNumbers, Carets, Pos
<1>8. /\ Right(typed, p) \in Carets
      /\ Left(typed, Right(typed, p)) = p \/ p = Pos(Lines(typed) - 1, LineLength(typed, Lines(typed) - 1))
  <2>1. CASE c < LineLength(typed, l)
    <3>1. Right(typed, p) = Pos(l, c + 1)
      BY <1>7, <2>1 DEF Right
    <3>2. c + 1 \in 0..LineLength(typed, l) /\ c + 1 > 0 /\ (c + 1) - 1 = c
      BY <1>7, <2>1
    <3>3. Left(typed, Pos(l, c + 1)) = Pos(l, c)
      BY <1>6, <3>2 DEF Left
    <3> QED
      BY <1>4, <1>5, <3>1, <3>2, <3>3
  <2>2. CASE ~ (c < LineLength(typed, l)) /\ l + 1 < Lines(typed)
    <3>1. Right(typed, p) = Pos(l + 1, 0)
      BY <1>7, <2>2 DEF Right
    <3>2. l + 1 \in LineNumbers /\ 0 \in 0..LineLength(typed, l + 1) /\ ~ (0 > 0) /\ l + 1 > 0
          /\ (l + 1) - 1 = l
      <4>1. l + 1 \in LineNumbers
        BY <1>3, <1>7, <2>2
      <4> QED
        BY <1>2, <1>7, <4>1
    <3>3. Left(typed, Pos(l + 1, 0)) = Pos(l, LineLength(typed, l))
      BY <1>6, <3>2 DEF Left
    <3>4. c = LineLength(typed, l)
      BY <1>7, <2>2
    <3> QED
      BY <1>4, <1>5, <3>1, <3>2, <3>3, <3>4
  <2>3. CASE ~ (c < LineLength(typed, l)) /\ ~ (l + 1 < Lines(typed))
    <3>1. Right(typed, p) = p
      BY <1>7, <2>3 DEF Right
    <3>2. c = LineLength(typed, l) /\ l = Lines(typed) - 1
      BY <1>1, <1>7, <2>3
    <3> QED
      BY <1>5, <3>1, <3>2
  <2> QED
    BY <2>1, <2>2, <2>3
<1>9. /\ Left(typed, p) \in Carets
      /\ Right(typed, Left(typed, p)) = p \/ p = Pos(0, 0)
  <2>1. CASE c > 0
    <3>1. Left(typed, p) = Pos(l, c - 1)
      BY <1>7, <2>1 DEF Left
    <3>2. c - 1 \in 0..LineLength(typed, l) /\ c - 1 < LineLength(typed, l) /\ (c - 1) + 1 = c
      BY <1>7, <2>1
    <3>3. Right(typed, Pos(l, c - 1)) = Pos(l, c)
      BY <1>6, <3>2 DEF Right
    <3> QED
      BY <1>4, <1>5, <3>1, <3>2, <3>3
  <2>2. CASE ~ (c > 0) /\ l > 0
    <3>1. Left(typed, p) = Pos(l - 1, LineLength(typed, l - 1))
      BY <1>7, <2>2 DEF Left
    <3>2. l - 1 \in LineNumbers /\ (l - 1) + 1 = l /\ l < Lines(typed)
      <4>1. l - 1 \in Nat /\ l - 1 < Lines(typed) /\ (l - 1) + 1 = l
        BY <1>1, <1>7, <2>2
      <4> QED
        BY <1>3, <1>7, <4>1
    <3>3. LineLength(typed, l - 1) \in 0..LineLength(typed, l - 1)
          /\ ~ (LineLength(typed, l - 1) < LineLength(typed, l - 1))
      BY <1>2, <3>2
    <3>4. Right(typed, Pos(l - 1, LineLength(typed, l - 1))) = Pos(l, 0)
      BY <1>6, <3>2, <3>3 DEF Right
    <3>5. c = 0
      BY <1>7, <2>2
    <3> QED
      BY <1>4, <1>5, <3>1, <3>2, <3>3, <3>4, <3>5
  <2>3. CASE ~ (c > 0) /\ ~ (l > 0)
    <3>1. c = 0 /\ l = 0
      BY <1>7, <2>3
    <3> QED
      BY <1>5, <1>7, <2>3, <3>1 DEF Left
  <2> QED
    BY <2>1, <2>2, <2>3
<1>10. ASSUME NEW k \in Int PROVE ToLine(typed, CursorAt(p), k) \in Carets
  <2>1. CursorAt(p).position = p /\ CursorAt(p).sticky = c
    BY <1>7 DEF CursorAt
  <2>2. CASE k \in 0..Lines(typed) - 1
    <3>1. k \in LineNumbers /\ LineLength(typed, k) \in Nat
      BY <1>2, <2>2 DEF LineNumbers
    <3>2. Min({c, LineLength(typed, k)}) \in 0..LineLength(typed, k)
      <4>1. {c, LineLength(typed, k)} \subseteq Nat /\ {c, LineLength(typed, k)} # {}
        BY <1>7, <3>1
      <4>2. Min({c, LineLength(typed, k)}) \in {c, LineLength(typed, k)}
            /\ Min({c, LineLength(typed, k)}) <= LineLength(typed, k)
        BY <4>1, MinIs
      <4> QED
        BY <1>7, <3>1, <4>2
    <3>3. ToLine(typed, CursorAt(p), k) = Pos(k, Min({c, LineLength(typed, k)}))
      BY <2>1, <2>2 DEF ToLine
    <3> QED
      BY <1>4, <3>1, <3>2, <3>3
  <2>3. CASE k \notin 0..Lines(typed) - 1
    BY <2>1, <2>3 DEF ToLine
  <2> QED
    BY <2>2, <2>3
<1> QED
  <2>1. \A k \in Int : ToLine(typed, CursorAt(p), k) \in Carets
    BY <1>10
  <2> HIDE DEF Left, Right
  <2> QED
    BY <1>8, <1>9, <2>1, Zenon

\* Moving by a paragraph stays in the text.
LEMMA ParagraphsStay ==
  ASSUME TypedInv, NEW p \in Carets
  PROVE  ParagraphUp(typed, p) \in Carets /\ ParagraphDown(typed, p) \in Carets
<1>1. Lines(typed) \in Nat /\ Lines(typed) >= 1
  <2>1. typed \in Seq(UNION Alphabets) /\ 0 \in 0..Len(typed) /\ Len(typed) \in 0..Len(typed)
    BY DEF TypedInv
  <2>2. Rank(typed, Len(typed)) \in Nat /\ Lines(typed) = Rank(typed, Len(typed)) + 1
    BY <2>1, RankOf
  <2> QED
    BY <2>2
<1>2. \A l \in 0..Lines(typed) - 1 : Pos(l, 0) \in Carets
  <2> SUFFICES ASSUME NEW l \in 0..Lines(typed) - 1 PROVE Pos(l, 0) \in Carets
    OBVIOUS
  <2>1. LineLength(typed, l) \in Nat
    BY LineLengths DEF TypedInv
  <2>2. 0 \in 0..LineLength(typed, l) /\ l \in LineNumbers
    BY <2>1 DEF LineNumbers
  <2> QED
    BY <2>2, CaretIs
<1>3. p.line \in 0..Lines(typed) - 1
  BY CaretIs DEF LineNumbers, Pos
<1>4. ParagraphUp(typed, p) \in Carets
  <2> DEFINE A == {0} \cup {k \in 0..p.line : ~ Blank(typed, k)}
             l == Max(A)
             B == {0} \cup {k \in 1..l : Blank(typed, k - 1)}
  <2>1. l \in A
    <3>1. A \subseteq 0..Lines(typed) /\ A # {}
      BY <1>1, <1>3
    <3> HIDE DEF A
    <3> QED
      BY <1>1, <3>1, MaxIs
  <2>2. l \in 0..Lines(typed) - 1
    BY <1>1, <1>3, <2>1
  <2> HIDE DEF l
  <2>3. B \subseteq 0..l /\ B # {} /\ l \in Nat
    BY <2>2
  <2>4. Max(B) \in 0..l
    <3> HIDE DEF B
    <3> QED
      BY <2>3, MaxIs
  <2>5. ParagraphUp(typed, p) = Pos(Max(B), 0)
    BY DEF ParagraphUp, l
  <2> HIDE DEF B
  <2>6. Max(B) \in 0..Lines(typed) - 1
    BY <1>1, <2>2, <2>4
  <2> QED
    BY <1>2, <2>5, <2>6
<1>5. ParagraphDown(typed, p) \in Carets
  <2> DEFINE last == Lines(typed) - 1
             A == {last} \cup {k \in p.line..last : k < last /\ Blank(typed, k + 1)}
             l == Min(A)
             B == {last} \cup {k \in l..last : ~ Blank(typed, k)}
  <2>0. last \in Nat /\ last \in 0..last
    BY <1>1
  <2>1. l \in A
    <3>1. A \subseteq Nat /\ A # {}
      BY <1>1, <1>3
    <3> HIDE DEF A
    <3> QED
      BY <3>1, MinIs
  <2>2. l \in Nat
    BY <1>1, <1>3, <2>1
  <2>3. ParagraphDown(typed, p) = Pos(Min(B), 0)
    BY DEF ParagraphDown
  <2> HIDE DEF l, last
  <2>4. B \subseteq 0..last /\ B # {} /\ B \subseteq Nat
    BY <2>0, <2>2
  <2>5. Min(B) \in B
    <3> HIDE DEF B
    <3> QED
      BY <2>4, MinIs
  <2>6. Min(B) \in 0..Lines(typed) - 1
    BY <2>4, <2>5 DEF last
  <2> QED
    BY <1>2, <2>3, <2>6
<1> QED
  BY <1>4, <1>5

\* What a word motion does.
LEMMA WordsStay ==
  ASSUME TypedInv, NEW p \in Carets
  PROVE  /\ WordLeft(typed, p) \in Carets /\ WordRight(typed, p) \in Carets
         /\ Offset(WordRight(typed, p), typed) > Offset(p, typed) \/ Offset(p, typed) = Len(typed)
         /\ Offset(WordLeft(typed, p), typed) < Offset(p, typed) \/ Offset(p, typed) = 0
         /\ Unjoined(typed) => /\ WordBoundary(typed, Offset(WordRight(typed, p), typed))
                               /\ WordBoundary(typed, Offset(WordLeft(typed, p), typed))
<1> DEFINE o == Offset(p, typed)
           word == o < Len(typed) /\ IsWord(typed, o)
           b == SkipRun(typed, o, word)
           start == First0(o)
<1>1. typed \in Seq(UNION Alphabets) /\ Len(typed) \in Nat
  BY DEF TypedInv
<1>2. o \in 0..Len(typed)
  <2>0. PICK l \in LineNumbers : \E c \in 0..LineLength(typed, l) : p = Pos(l, c)
    BY CaretIs
  <2>1. PICK c \in 0..LineLength(typed, l) : p = Pos(l, c)
    BY <2>0
  <2>2. l \in Nat /\ c \in Nat
    BY LineLengths, <2>1 DEF TypedInv, LineNumbers
  <2>3. p \in Position
    BY <2>1, <2>2 DEF Position, Pos
  <2> QED
    BY <1>1, <2>3, OffsetInText
<1>3. WordLeft(typed, p) = PositionOf(start, typed)
  BY DEF WordLeft, First0, Last0
<1>4. WordRight(typed, p) = PositionOf(b, typed)
  BY DEF WordRight
<1> HIDE DEF o, start
<1>5. start \in Breaks(typed) /\ (start < o \/ o = 0)
      /\ ((\A k \in 0..Len(typed) : k \in Breaks(typed)) => WordBoundary(typed, start))
  BY <1>2, WordLeftIs DEF start
<1>6. /\ b \in Breaks(typed) /\ b >= o
      /\ b = Len(typed) \/ IsWord(typed, b) # word
      /\ \A k \in Breaks(typed) : k >= o /\ k < b => IsWord(typed, k) = word
  <2> HIDE DEF word
  <2> QED
    BY <1>2, SkipRunIs
<1> HIDE DEF b
<1>7. b \in 0..Len(typed)
  BY <1>6, EndsAreBreaks
<1>8. b > o \/ o = Len(typed)
  <2> SUFFICES ASSUME ~ (b > o), o # Len(typed) PROVE FALSE
    OBVIOUS
  <2>1. b = o /\ o < Len(typed)
    <3>1. o \in Nat /\ o <= Len(typed) /\ b \in Nat /\ b >= o
      BY <1>1, <1>2, <1>6, <1>7
    <3> QED
      BY <1>1, <3>1
  <2>2. word = IsWord(typed, o)
    BY <2>1 DEF IsWord
  <2> QED
    BY <1>6, <2>1, <2>2
<1>9. ASSUME \A k \in 0..Len(typed) : k \in Breaks(typed) PROVE WordBoundary(typed, b)
  <2>1. CASE b = Len(typed)
    BY <1>1, <2>1 DEF WordBoundary
  <2>2. CASE b # Len(typed)
    <3>1. b > o
      <4>1. CASE o = Len(typed)
        <5>1. b = Len(typed)
          BY <1>1, <1>6, <1>7, <4>1
        <5> QED
          BY <2>2, <5>1
      <4> QED
        BY <1>8, <4>1
    <3>2. b - 1 \in 0..Len(typed) /\ b - 1 >= o /\ b - 1 < b
      BY <1>1, <1>2, <1>7, <3>1
    <3>3. IsWord(typed, b - 1) = word
      BY <1>6, <1>9, <3>2
    <3> QED
      BY <1>6, <2>2, <3>3 DEF WordBoundary
  <2> QED
    BY <2>1, <2>2
<1>10. PositionOf(b, typed) \in Carets /\ Offset(PositionOf(b, typed), typed) = b
       /\ PositionOf(start, typed) \in Carets /\ Offset(PositionOf(start, typed), typed) = start
  BY <1>5, <1>6, BreakIsCaret
<1>11. Unjoined(typed) => WordBoundary(typed, b) /\ WordBoundary(typed, start)
  BY <1>5, <1>9, UnjoinedBreaks
<1> HIDE DEF word
<1> QED
  BY <1>3, <1>4, <1>5, <1>8, <1>10, <1>11 DEF o

\* Cursor::move(): no motion leaves the text; left and right undo each other; a word
\* motion gets nearer to its end of the text until it is there, and stops where the
\* letters of a word begin or end.
THEOREM CaretsMove == TextSpec => []CaretMoves
<1>1. ASSUME TypedInv PROVE CaretMoves
  <2> SUFFICES ASSUME NEW p \in Carets
               PROVE  LET to(motion) == Moved(typed, CursorAt(p), motion, FALSE).position
                          o(q) == Offset(q, typed)
                      IN  /\ \A m \in Motions : to(m) \in Carets
                          /\ Left(typed, to("right")) = p
                             \/ p = Pos(Lines(typed) - 1, LineLength(typed, Lines(typed) - 1))
                          /\ Right(typed, to("left")) = p \/ p = Pos(0, 0)
                          /\ o(to("word_right")) > o(p) \/ o(p) = Len(typed)
                          /\ o(to("word_left")) < o(p) \/ o(p) = 0
                          /\ Unjoined(typed) => /\ WordBoundary(typed, o(to("word_right")))
                                                /\ WordBoundary(typed, o(to("word_left")))
    BY DEF CaretMoves
  <2> DEFINE to(motion) == Moved(typed, CursorAt(p), motion, FALSE).position
  <2>1. /\ to("left") = Left(typed, p) /\ to("right") = Right(typed, p)
        /\ to("up") = ToLine(typed, CursorAt(p), p.line - 1)
        /\ to("down") = ToLine(typed, CursorAt(p), p.line + 1)
        /\ to("word_left") = WordLeft(typed, p) /\ to("word_right") = WordRight(typed, p)
        /\ to("paragraph_up") = ParagraphUp(typed, p) /\ to("paragraph_down") = ParagraphDown(typed, p)
    BY MotionsLead
  <2> HIDE DEF to
  <2>2. p.line - 1 \in Int /\ p.line + 1 \in Int
    <3>1. PICK l \in LineNumbers : p.line = l
      BY CaretIs DEF Pos
    <3> QED
      BY <3>1 DEF LineNumbers
  <2>3. ASSUME NEW m \in Motions PROVE to(m) \in Carets
    BY <1>1, <2>1, <2>2, StepsStay, ParagraphsStay, WordsStay DEF Motions
  <2>4. Left(typed, to("right")) = p \/ p = Pos(Lines(typed) - 1, LineLength(typed, Lines(typed) - 1))
    BY <1>1, <2>1, StepsStay
  <2>5. Right(typed, to("left")) = p \/ p = Pos(0, 0)
    BY <1>1, <2>1, StepsStay
  <2>6. /\ Offset(to("word_right"), typed) > Offset(p, typed) \/ Offset(p, typed) = Len(typed)
        /\ Offset(to("word_left"), typed) < Offset(p, typed) \/ Offset(p, typed) = 0
        /\ Unjoined(typed) => /\ WordBoundary(typed, Offset(to("word_right"), typed))
                              /\ WordBoundary(typed, Offset(to("word_left"), typed))
    BY <1>1, <2>1, WordsStay
  <2> QED
    BY <2>3, <2>4, <2>5, <2>6 DEF to
<1> QED
  BY <1>1, TypedIsText, PTL

=============================================================================
