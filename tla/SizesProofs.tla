----------------------------- MODULE SizesProofs -----------------------------
(***************************************************************************)
(* What the recursive definitions of Sizes compute, for every list.  The   *)
(* induction they need is drawn from the well-foundedness of < on the      *)
(* naturals, stated for sets: a set of naturals that holds 0 and, with     *)
(* every member, the next number, holds all of them.  Ordered numbers a    *)
(* finite set by an order of its own, which is what a sort of a list does. *)
(* The last part is what a loop over a list preserves, and what a list     *)
(* sorted by its bases lists.                                              *)
(***************************************************************************)
EXTENDS Sizes, FiniteSetsExt, FiniteSetTheorems, SequenceTheorems,
        WellFoundedInduction, TLAPS

Less == {p \in Nat \X Nat : p[1] < p[2]}

\* Every nonempty set of naturals has a least element.
LEMMA LeastNatural ==
    ASSUME NEW T, T \subseteq Nat, T # {}
    PROVE  \E x \in T : \A y \in T : x <= y
<1>1. OpToRel(<, Nat) = Less
  BY DEF OpToRel, Less
<1>2. IsWellFoundedOn(Less, Nat)
  BY <1>1, NatLessThanWellFounded
<1>3. PICK x \in T : \A y \in T : ~(<<y, x>> \in Less)
  BY <1>2, WFMin
<1>4. ASSUME NEW y \in T, y < x PROVE FALSE
  <2>1. x \in Nat /\ y \in Nat /\ <<y, x>> \in Nat \X Nat
    OBVIOUS
  <2> QED BY <1>3, <1>4, <2>1 DEF Less
<1> QED BY <1>4

\* Induction over the naturals, for a set: the members are those for which the
\* statement holds.
LEMMA SetInduction ==
    ASSUME NEW S, 0 \in S, \A n \in Nat : n \in S => n + 1 \in S
    PROVE  \A n \in Nat : n \in S
<1> SUFFICES ASSUME \E n \in Nat : n \notin S PROVE FALSE
  OBVIOUS
<1>1. PICK x \in Nat \ S : \A y \in Nat \ S : x <= y
  <2>1. Nat \ S \subseteq Nat /\ Nat \ S # {}
    OBVIOUS
  <2> QED BY <2>1, LeastNatural
<1>2. x - 1 \in Nat /\ x - 1 \in S
  BY <1>1
<1> QED BY <1>1, <1>2

\* r is the function with value x0 at 0 and values in X that h continues.
Recursion(r, X, x0, h) ==
    /\ r \in [Nat -> X]
    /\ r[0] = x0
    /\ \A n \in Nat : r[n + 1] = h[<<r[n], n + 1>>]

\* A function defined by recursion over the naturals exists.
LEMMA RecursionExists ==
    ASSUME NEW X, NEW x0 \in X, NEW h \in [X \X Nat -> X]
    PROVE  \E r : Recursion(r, X, x0, h)
<1> DEFINE G(n) == {g \in [0..n -> X] : /\ g[0] = x0
                                        /\ \A k \in 0..(n - 1) : g[k + 1] = h[<<g[k], k + 1>>]}
<1>1. \A n \in Nat : G(n) # {}
  <2> DEFINE S == {n \in Nat : G(n) # {}}
  <2>1. 0 \in S
    <3>1. [k \in 0..0 |-> x0] \in G(0)
      OBVIOUS
    <3> QED BY <3>1
  <2>2. ASSUME NEW n \in Nat, n \in S PROVE n + 1 \in S
    <3>1. PICK g \in G(n) : TRUE
      BY <2>2
    <3> DEFINE e == [k \in 0..(n + 1) |-> IF k <= n THEN g[k] ELSE h[<<g[n], n + 1>>]]
    <3>2. e \in G(n + 1)
      <4>1. e \in [0..(n + 1) -> X]
        BY <3>1
      <4>2. e[0] = x0
        BY <3>1
      <4>3. ASSUME NEW k \in 0..((n + 1) - 1) PROVE e[k + 1] = h[<<e[k], k + 1>>]
        <5>1. CASE k = n
          <6>1. e[k] = g[k] /\ e[k + 1] = h[<<g[n], n + 1>>]
            BY <5>1
          <6> QED BY <5>1, <6>1
        <5>2. CASE k < n
          <6>1. k \in 0..(n - 1) /\ k + 1 \in 0..n
            BY <5>2
          <6>2. e[k] = g[k] /\ e[k + 1] = g[k + 1]
            BY <6>1
          <6> QED BY <6>1, <6>2, <3>1
        <5> QED BY <5>1, <5>2
      <4> HIDE DEF e
      <4> QED BY <4>1, <4>2, <4>3
    <3> HIDE DEF e, G
    <3> QED BY <3>2
  <2> HIDE DEF S
  <2>3. \A n \in Nat : n \in S
    BY <2>1, <2>2, SetInduction
  <2> QED BY <2>3 DEF S
<1>2. ASSUME NEW n \in Nat, NEW m \in Nat, n <= m, NEW f \in G(n), NEW g \in G(m)
      PROVE  f[n] = g[n]
  <2> DEFINE S == {k \in Nat : k <= n => f[k] = g[k]}
  <2>1. 0 \in S
    OBVIOUS
  <2>2. ASSUME NEW k \in Nat, k \in S PROVE k + 1 \in S
    <3> SUFFICES ASSUME k + 1 <= n PROVE f[k + 1] = g[k + 1]
      OBVIOUS
    <3>1. k \in 0..(n - 1) /\ k \in 0..(m - 1) /\ f[k] = g[k]
      BY <1>2, <2>2
    <3>2. f[k + 1] = h[<<f[k], k + 1>>] /\ g[k + 1] = h[<<g[k], k + 1>>]
      BY <3>1
    <3> QED BY <3>1, <3>2
  <2> HIDE DEF S
  <2>3. \A k \in Nat : k \in S
    BY <2>1, <2>2, SetInduction
  <2> QED BY <2>3 DEF S
<1> DEFINE c(n) == CHOOSE g : g \in G(n)
           r    == [n \in Nat |-> c(n)[n]]
<1>3. \A n \in Nat : c(n) \in G(n)
  BY <1>1
<1>4. \A n \in Nat : c(n) \in [0..n -> X]
  BY <1>3
<1>5. r \in [Nat -> X]
  BY <1>4
<1>6. r[0] = x0
  BY <1>3
<1>7. ASSUME NEW n \in Nat PROVE r[n + 1] = h[<<r[n], n + 1>>]
  <2>0. n + 1 \in Nat
    OBVIOUS
  <2>1. c(n) \in G(n) /\ c(n + 1) \in G(n + 1)
    <3> HIDE DEF c, G
    <3> QED BY <1>3, <2>0
  <2>2. c(n + 1)[n + 1] = h[<<c(n + 1)[n], n + 1>>]
    <3>1. n \in 0..((n + 1) - 1)
      OBVIOUS
    <3> HIDE DEF c
    <3> QED BY <2>1, <3>1
  <2>3. c(n)[n] = c(n + 1)[n]
    <3> HIDE DEF c, G
    <3>1. n + 1 \in Nat /\ n <= n + 1
      OBVIOUS
    <3> QED BY <1>2, <2>1, <3>1
  <2>4. r[n] = c(n)[n] /\ r[n + 1] = c(n + 1)[n + 1]
    <3> HIDE DEF c
    <3> QED BY <2>0
  <2> HIDE DEF c, r
  <2> QED BY <2>2, <2>3, <2>4
<1> QED BY <1>5, <1>6, <1>7 DEF Recursion

\* Total is the function its definition describes.
LEMMA TotalDefined ==
    ASSUME NEW sizes \in Seq(Nat)
    PROVE  /\ Total(sizes, 0) = 0
           /\ \A n \in 1..Len(sizes) : Total(sizes, n) = Total(sizes, n - 1) + sizes[n]
           /\ \A n \in 0..Len(sizes) : Total(sizes, n) \in Nat
<1>0. \A n \in 1..Len(sizes) : sizes[n] \in Nat
  OBVIOUS
<1> DEFINE Sum(s) == s = [k \in 0..Len(sizes) |-> IF k = 0 THEN 0 ELSE s[k - 1] + sizes[k]]
           total == CHOOSE s : Sum(s)
<1>1. \A n : Total(sizes, n) = total[n]
  BY DEF Total
<1>2. PICK r \in [Nat -> Nat] :
         /\ r[0] = 0
         /\ \A n \in Nat : r[n + 1] = r[n] + (IF n + 1 \in 1..Len(sizes) THEN sizes[n + 1] ELSE 0)
  <2> DEFINE h == [p \in Nat \X Nat |-> p[1] + (IF p[2] \in 1..Len(sizes) THEN sizes[p[2]] ELSE 0)]
  <2>1. h \in [Nat \X Nat -> Nat]
    OBVIOUS
  <2>2. \A x, n \in Nat : h[<<x, n>>] = x + (IF n \in 1..Len(sizes) THEN sizes[n] ELSE 0)
    OBVIOUS
  <2> HIDE DEF h
  <2>3. PICK r \in [Nat -> Nat] : r[0] = 0 /\ \A n \in Nat : r[n + 1] = h[<<r[n], n + 1>>]
    <3>1. 0 \in Nat
      OBVIOUS
    <3>2. \E r : Recursion(r, Nat, 0, h)
      BY <2>1, <3>1, RecursionExists
    <3> QED BY <3>2 DEF Recursion
  <2>4. \A n \in Nat : r[n] \in Nat /\ n + 1 \in Nat
    OBVIOUS
  <2> QED BY ZenonT(40), <2>2, <2>3, <2>4
<1>3. Sum([k \in 0..Len(sizes) |-> r[k]])
  <2> DEFINE s == [k \in 0..Len(sizes) |-> r[k]]
  <2>1. ASSUME NEW k \in 0..Len(sizes)
        PROVE  s[k] = IF k = 0 THEN 0 ELSE s[k - 1] + sizes[k]
    <3>1. CASE k = 0
      BY <3>1, <1>2
    <3>2. CASE k # 0
      <4>1. k - 1 \in Nat /\ k - 1 \in 0..Len(sizes) /\ (k - 1) + 1 = k /\ k \in 1..Len(sizes)
        BY <3>2
      <4>2. r[k] = r[k - 1] + sizes[k]
        BY <1>2, <4>1
      <4> QED BY <3>2, <4>1, <4>2
    <3> QED BY <3>1, <3>2
  <2> QED BY <2>1
<1>4. Sum(total)
  <2> HIDE DEF Sum
  <2> QED BY <1>3
<1> HIDE DEF total
<1>5. total[0] = 0
  BY <1>4
<1>6. ASSUME NEW n \in 1..Len(sizes) PROVE total[n] = total[n - 1] + sizes[n]
  <2>1. n \in 0..Len(sizes) /\ n # 0
    OBVIOUS
  <2> QED BY <1>4, <2>1
<1>7. \A n \in 0..Len(sizes) : total[n] \in Nat
  <2>0. ASSUME NEW n \in 1..Len(sizes), total[n - 1] \in Nat PROVE total[n] \in Nat
    <3>1. total[n] = total[n - 1] + sizes[n]
      BY <1>6
    <3>2. sizes[n] \in Nat
      BY <1>0
    <3>3. \A a, b \in Nat : a + b \in Nat
      OBVIOUS
    <3> HIDE <1>6, <1>0
    <3> QED BY <2>0, <3>1, <3>2, <3>3, Zenon
  <2> DEFINE S == {n \in Nat : n <= Len(sizes) => total[n] \in Nat}
  <2>1. 0 \in S
    BY <1>5
  <2>2. ASSUME NEW n \in Nat, n \in S PROVE n + 1 \in S
    <3> SUFFICES ASSUME n + 1 <= Len(sizes) PROVE total[n + 1] \in Nat
      OBVIOUS
    <3>1. total[n] \in Nat
      BY <2>2
    <3>2. n + 1 \in 1..Len(sizes) /\ (n + 1) - 1 = n
      OBVIOUS
    <3> QED BY <2>0, <3>1, <3>2
  <2> HIDE DEF S
  <2>3. \A n \in Nat : n \in S
    BY <2>1, <2>2, SetInduction
  <2> QED BY <2>3 DEF S
<1> QED BY <1>1, <1>5, <1>6, <1>7

\* A total depends on the entries it adds up, and on nothing else.
LEMMA TotalPrefix ==
    ASSUME NEW a \in Seq(Nat), NEW b \in Seq(Nat), NEW m \in Nat, m <= Len(a), m <= Len(b),
           \A n \in 1..m : a[n] = b[n]
    PROVE  Total(a, m) = Total(b, m)
<1> DEFINE S == {n \in Nat : n <= m => Total(a, n) = Total(b, n)}
<1>1. 0 \in S
  BY TotalDefined
<1>2. ASSUME NEW n \in Nat, n \in S PROVE n + 1 \in S
  <2> SUFFICES ASSUME n + 1 <= m PROVE Total(a, n + 1) = Total(b, n + 1)
    OBVIOUS
  <2>1. /\ n + 1 \in 1..m /\ n + 1 \in 1..Len(a) /\ n + 1 \in 1..Len(b) /\ (n + 1) - 1 = n
        /\ Total(a, n) = Total(b, n)
    BY <1>2
  <2>2. Total(a, n + 1) = Total(a, n) + a[n + 1] /\ Total(b, n + 1) = Total(b, n) + b[n + 1]
    BY <2>1, TotalDefined
  <2> QED BY <2>1, <2>2
<1> HIDE DEF S
<1>3. \A n \in Nat : n \in S
  BY <1>1, <1>2, SetInduction
<1> QED BY <1>3 DEF S

\* One more entry adds its size.
LEMMA TotalAppend ==
    ASSUME NEW sizes \in Seq(Nat), NEW x \in Nat
    PROVE  Total(Append(sizes, x), Len(Append(sizes, x))) = Total(sizes, Len(sizes)) + x
<1> DEFINE longer == Append(sizes, x)
<1>1. longer \in Seq(Nat)
  OBVIOUS
<1>2. /\ Len(sizes) \in Nat /\ Len(longer) = Len(sizes) + 1 /\ longer[Len(sizes) + 1] = x
      /\ \A n \in 1..Len(sizes) : longer[n] = sizes[n]
  OBVIOUS
<1> HIDE DEF longer
<1>3. Total(longer, Len(sizes)) = Total(sizes, Len(sizes))
  <2>1. Len(sizes) <= Len(sizes) /\ Len(sizes) <= Len(longer)
    BY <1>2
  <2> QED BY <1>1, <1>2, <2>1, TotalPrefix
<1>4. Len(longer) \in 1..Len(longer) /\ Len(longer) - 1 = Len(sizes)
  BY <1>2
<1>5. Total(longer, Len(longer)) = Total(longer, Len(sizes)) + x
  BY <1>1, <1>2, <1>4, TotalDefined
<1> QED BY <1>3, <1>5 DEF longer

\* A total never falls as more entries are added.
LEMMA TotalGrows ==
    ASSUME NEW sizes \in Seq(Nat), NEW m \in 0..Len(sizes), NEW n \in 0..Len(sizes), m <= n
    PROVE  Total(sizes, m) <= Total(sizes, n)
<1> DEFINE S == {k \in Nat : m <= k /\ k <= Len(sizes) => Total(sizes, m) <= Total(sizes, k)}
<1>0. Len(sizes) \in Nat /\ Total(sizes, m) \in Nat
  BY TotalDefined
<1>1. 0 \in S
  BY <1>0
<1>2. ASSUME NEW k \in Nat, k \in S PROVE k + 1 \in S
  <2> SUFFICES ASSUME m <= k + 1, k + 1 <= Len(sizes)
               PROVE  Total(sizes, m) <= Total(sizes, k + 1)
    OBVIOUS
  <2>1. CASE m = k + 1
    BY <1>0, <2>1
  <2>2. CASE m # k + 1
    <3>1. k + 1 \in 1..Len(sizes) /\ (k + 1) - 1 = k /\ k \in 0..Len(sizes) /\ m <= k
      BY <1>0, <2>2
    <3>2. Total(sizes, k + 1) = Total(sizes, k) + sizes[k + 1]
      BY <3>1, TotalDefined
    <3>3. Total(sizes, k) \in Nat /\ sizes[k + 1] \in Nat
      BY <3>1, TotalDefined
    <3>4. Total(sizes, m) <= Total(sizes, k)
      BY <1>0, <1>2, <3>1
    <3> QED BY <1>0, <3>2, <3>3, <3>4
  <2> QED BY <2>1, <2>2
<1> HIDE DEF S
<1>3. \A k \in Nat : k \in S
  BY <1>1, <1>2, SetInduction
<1>4. n \in Nat
  BY <1>0
<1> QED BY <1>0, <1>3, <1>4 DEF S

\* The segments that have an extent are a list of positive sizes.
LEMMA WithExtentType ==
    ASSUME NEW sizes \in Seq(Nat)
    PROVE  WithExtent(sizes) \in Seq(Nat \ {0})
<1> DEFINE Kept(s) == s = [n \in 0..Len(sizes) |->
                             IF n = 0 THEN <<>>
                             ELSE IF sizes[n] > 0 THEN Append(s[n - 1], sizes[n])
                             ELSE s[n - 1]]
           kept == CHOOSE s : Kept(s)
           X == Seq(Nat \ {0})
<1>1. WithExtent(sizes) = kept[Len(sizes)]
  BY DEF WithExtent
<1>2. PICK r \in [Nat -> X] :
         /\ r[0] = <<>>
         /\ \A n \in Nat : r[n + 1] = IF n + 1 \in 1..Len(sizes) /\ sizes[n + 1] > 0
                                      THEN Append(r[n], sizes[n + 1]) ELSE r[n]
  <2> DEFINE h == [p \in X \X Nat |-> IF p[2] \in 1..Len(sizes) /\ sizes[p[2]] > 0
                                      THEN Append(p[1], sizes[p[2]]) ELSE p[1]]
  <2>1. h \in [X \X Nat -> X]
    <3> SUFFICES ASSUME NEW p \in X \X Nat PROVE h[p] \in X
      OBVIOUS
    <3>1. p[1] \in X /\ p[2] \in Nat
      OBVIOUS
    <3>2. CASE p[2] \in 1..Len(sizes) /\ sizes[p[2]] > 0
      <4>1. sizes[p[2]] \in Nat \ {0}
        BY <3>2
      <4> QED BY <3>1, <3>2, <4>1
    <3> QED BY <3>1, <3>2
  <2>2. \A x \in X, n \in Nat :
           h[<<x, n>>] = IF n \in 1..Len(sizes) /\ sizes[n] > 0 THEN Append(x, sizes[n]) ELSE x
    OBVIOUS
  <2>3. <<>> \in X
    OBVIOUS
  <2> HIDE DEF h, X
  <2>4. PICK r \in [Nat -> X] : r[0] = <<>> /\ \A n \in Nat : r[n + 1] = h[<<r[n], n + 1>>]
    <3>1. \E r : Recursion(r, X, <<>>, h)
      BY <2>1, <2>3, RecursionExists
    <3> QED BY <3>1 DEF Recursion
  <2>5. \A n \in Nat : r[n] \in X /\ n + 1 \in Nat
    OBVIOUS
  <2> QED BY ZenonT(30), <2>2, <2>4, <2>5
<1> HIDE DEF X
<1>3. Kept([n \in 0..Len(sizes) |-> r[n]])
  <2> DEFINE s == [n \in 0..Len(sizes) |-> r[n]]
  <2>1. ASSUME NEW n \in 0..Len(sizes)
        PROVE  s[n] = IF n = 0 THEN <<>>
                      ELSE IF sizes[n] > 0 THEN Append(s[n - 1], sizes[n])
                      ELSE s[n - 1]
    <3>1. CASE n = 0
      BY <3>1, <1>2
    <3>2. CASE n # 0
      <4>1. n - 1 \in Nat /\ n - 1 \in 0..Len(sizes) /\ (n - 1) + 1 = n /\ n \in 1..Len(sizes)
        BY <3>2
      <4>2. r[n] = IF sizes[n] > 0 THEN Append(r[n - 1], sizes[n]) ELSE r[n - 1]
        BY <1>2, <4>1
      <4> QED BY <3>2, <4>1, <4>2
    <3> QED BY <3>1, <3>2
  <2> QED BY <2>1
<1>4. Kept(kept)
  <2> HIDE DEF Kept
  <2> QED BY <1>3
<1> HIDE DEF kept
<1>5. /\ kept[0] = <<>>
      /\ \A n \in 1..Len(sizes) :
           kept[n] = IF sizes[n] > 0 THEN Append(kept[n - 1], sizes[n]) ELSE kept[n - 1]
  <2>1. kept[0] = <<>>
    BY <1>4
  <2>2. ASSUME NEW n \in 1..Len(sizes)
        PROVE  kept[n] = IF sizes[n] > 0 THEN Append(kept[n - 1], sizes[n]) ELSE kept[n - 1]
    <3>1. n \in 0..Len(sizes) /\ n # 0
      OBVIOUS
    <3> QED BY <1>4, <3>1
  <2> QED BY <2>1, <2>2
<1>6. kept[Len(sizes)] \in X
  <2> DEFINE S == {n \in Nat : n <= Len(sizes) => kept[n] = r[n]}
  <2>1. 0 \in S
    BY <1>2, <1>5
  <2>2. ASSUME NEW n \in Nat, n \in S PROVE n + 1 \in S
    <3> SUFFICES ASSUME n + 1 <= Len(sizes) PROVE kept[n + 1] = r[n + 1]
      OBVIOUS
    <3>1. n + 1 \in 1..Len(sizes) /\ (n + 1) - 1 = n /\ kept[n] = r[n]
      BY <2>2
    <3> QED BY <1>2, <1>5, <3>1
  <2> HIDE DEF S
  <2>3. \A n \in Nat : n \in S
    BY <2>1, <2>2, SetInduction
  <2>4. Len(sizes) \in Nat
    OBVIOUS
  <2>5. kept[Len(sizes)] = r[Len(sizes)]
    BY <2>3, <2>4 DEF S
  <2> QED BY <2>4, <2>5
<1> QED BY <1>1, <1>6 DEF X
\* A dump's bytes, as pairs of a segment and an offset, are as many as its sizes
\* say at most.
LEMMA BytesCounted ==
    ASSUME NEW sizes \in Seq(Nat)
    PROVE  LET bytes == UNION {{q} \X (0..(sizes[q] - 1)) : q \in 1..Len(sizes)}
           IN  IsFiniteSet(bytes) /\ Cardinality(bytes) <= Total(sizes, Len(sizes))
<1> DEFINE bytes(n) == UNION {{q} \X (0..(sizes[q] - 1)) : q \in 1..n}
           S == {n \in Nat : n <= Len(sizes) =>
                   IsFiniteSet(bytes(n)) /\ Cardinality(bytes(n)) <= Total(sizes, n)}
<1>1. Len(sizes) \in Nat /\ \A q \in 1..Len(sizes) : sizes[q] \in Nat
  OBVIOUS
<1>2. 0 \in S
  <2>1. bytes(0) = {}
    OBVIOUS
  <2>2. Total(sizes, 0) = 0
    BY TotalDefined
  <2> HIDE DEF bytes
  <2>3. IsFiniteSet(bytes(0)) /\ Cardinality(bytes(0)) <= Total(sizes, 0)
    <3>1. IsFiniteSet({}) /\ Cardinality({}) = 0
      BY FS_EmptySet
    <3>2. IsFiniteSet(bytes(0)) /\ Cardinality(bytes(0)) = 0
      BY <2>1, <3>1
    <3> QED BY <2>2, <3>2
  <2> QED BY <2>3
<1>3. \A n \in Nat : n \in S => n + 1 \in S
  <2> SUFFICES ASSUME NEW n \in Nat, n \in S, n + 1 <= Len(sizes)
               PROVE  IsFiniteSet(bytes(n + 1)) /\ Cardinality(bytes(n + 1)) <= Total(sizes, n + 1)
    <3> HIDE DEF bytes
    <3>1. \A n \in Nat : n + 1 \in Nat
      OBVIOUS
    <3> QED BY <3>1
  <2> DEFINE last == {n + 1} \X (0..(sizes[n + 1] - 1))
  <2>1. n <= Len(sizes) /\ n + 1 \in 1..Len(sizes) /\ n \in 0..Len(sizes) /\ sizes[n + 1] \in Nat
    BY <1>1
  <2>2. bytes(n + 1) = bytes(n) \cup last
    <3>1. 1..(n + 1) = 1..n \cup {n + 1}
      OBVIOUS
    <3> QED BY <3>1
  <2>3. IsFiniteSet(last) /\ Cardinality(last) = sizes[n + 1]
    <3> DEFINE offsets == 0..(sizes[n + 1] - 1)
    <3>1. IsFiniteSet(offsets) /\ Cardinality(offsets) = sizes[n + 1]
      <4>1. 0 \in Int /\ sizes[n + 1] - 1 \in Int
        BY <2>1
      <4>2. /\ IsFiniteSet(0..(sizes[n + 1] - 1))
            /\ Cardinality(0..(sizes[n + 1] - 1)) =
                 IF 0 > sizes[n + 1] - 1 THEN 0 ELSE sizes[n + 1] - 1 - 0 + 1
        BY <4>1, FS_Interval
      <4> QED BY <2>1, <4>2
    <3>2. IsFiniteSet({n + 1}) /\ Cardinality({n + 1}) = 1
      BY FS_Singleton
    <3> HIDE DEF offsets
    <3>3. /\ IsFiniteSet({n + 1} \X offsets)
          /\ Cardinality({n + 1} \X offsets) = 1 * sizes[n + 1]
      BY ZenonT(40), <3>1, <3>2, FS_Product
    <3> QED BY <2>1, <3>3 DEF offsets
  <2> HIDE DEF bytes, last
  <2>4. IsFiniteSet(bytes(n)) /\ Cardinality(bytes(n)) <= Total(sizes, n)
    BY <2>1
  <2>5. /\ IsFiniteSet(bytes(n) \cup last) /\ IsFiniteSet(bytes(n) \cap last)
        /\ Cardinality(bytes(n) \cup last) =
             Cardinality(bytes(n)) + Cardinality(last) - Cardinality(bytes(n) \cap last)
    <3>1. IsFiniteSet(bytes(n) \cap last)
      BY <2>4, FS_Subset
    <3> QED BY <2>3, <2>4, <3>1, FS_Union
  <2>6. Cardinality(bytes(n) \cap last) \in Nat /\ Cardinality(bytes(n)) \in Nat
    BY <2>4, <2>5, FS_CardinalityType
  <2>7. Total(sizes, n + 1) = Total(sizes, n) + sizes[n + 1] /\ Total(sizes, n) \in Nat
    <3>1. (n + 1) - 1 = n
      OBVIOUS
    <3> QED BY <2>1, <3>1, TotalDefined
  <2>8. Cardinality(bytes(n + 1)) =
          Cardinality(bytes(n)) + sizes[n + 1] - Cardinality(bytes(n) \cap last)
    BY <2>2, <2>3, <2>5
  <2>9. Cardinality(bytes(n + 1)) <= Total(sizes, n + 1)
    BY SMTT(30), <2>1, <2>4, <2>6, <2>7, <2>8
  <2> QED BY <2>2, <2>5, <2>9
<1> HIDE DEF S
<1>4. Len(sizes) \in S
  BY <1>1, <1>2, <1>3, SetInduction
<1> QED BY <1>1, <1>4 DEF S

(* A finite set put in order. *)

StrictOrder(K, R) ==
    /\ R \subseteq K \X K
    /\ \A i \in K : <<i, i>> \notin R
    /\ \A i, j \in K : i = j \/ <<i, j>> \in R \/ <<j, i>> \in R
    /\ \A i, j, k \in K : <<i, j>> \in R /\ <<j, k>> \in R => <<i, k>> \in R

Below(K, R, i) == {j \in K : <<j, i>> \in R}
Placing(K, R) == [i \in K |-> 1 + Cardinality(Below(K, R, i))]
SortedList(s, K, R) ==
    [n \in 1..Cardinality(K) |-> s[CHOOSE i \in K : Placing(K, R)[i] = n]]

\* Counting the members before each one numbers a finite ordered set.
LEMMA Ordered ==
    ASSUME NEW K, IsFiniteSet(K), NEW R, StrictOrder(K, R)
    PROVE  \E p \in [1..Cardinality(K) -> K] :
              /\ \A n \in 1..Cardinality(K) : p[n] = CHOOSE i \in K : Placing(K, R)[i] = n
              /\ \A i \in K : \E n \in 1..Cardinality(K) : p[n] = i
              /\ \A m, n \in 1..Cardinality(K) : m < n => <<p[m], p[n]>> \in R
<1> DEFINE N == Cardinality(K)
           B(i) == Below(K, R, i)
           slot == Placing(K, R)
<1>1. N \in Nat /\ IsFiniteSet(1..N) /\ Cardinality(1..N) = N
  BY FS_CardinalityType, FS_Interval
<1>2. ASSUME NEW i \in K
      PROVE  /\ IsFiniteSet(B(i)) /\ Cardinality(B(i)) \in Nat /\ i \notin B(i)
             /\ Cardinality(B(i) \union {i}) = Cardinality(B(i)) + 1
  <2>1. B(i) \in SUBSET K /\ i \notin B(i)
    BY DEF Below, StrictOrder
  <2>2. IsFiniteSet(B(i))
    BY <2>1, FS_Subset
  <2> HIDE DEF B
  <2> QED BY <2>1, <2>2, FS_CardinalityType, FS_AddElement
<1>3. ASSUME NEW i \in K PROVE slot[i] \in 1..N
  <2>1. B(i) \union {i} \in SUBSET K
    BY DEF Below
  <2>2. Cardinality(B(i) \union {i}) <= N
    BY <2>1, FS_Subset
  <2>3. slot[i] = 1 + Cardinality(B(i))
    BY DEF Placing
  <2> HIDE DEF B, N, slot
  <2> QED BY <1>1, <1>2, <2>2, <2>3
<1>4. ASSUME NEW i \in K, NEW j \in K, <<i, j>> \in R PROVE slot[i] < slot[j]
  <2>1. B(i) \union {i} \in SUBSET B(j)
    BY <1>4 DEF Below, StrictOrder
  <2>2. Cardinality(B(i) \union {i}) <= Cardinality(B(j))
    BY <1>2, <2>1, FS_Subset
  <2>3. slot[i] = 1 + Cardinality(B(i)) /\ slot[j] = 1 + Cardinality(B(j))
    BY DEF Placing
  <2>4. /\ Cardinality(B(i)) \in Nat /\ Cardinality(B(j)) \in Nat
        /\ Cardinality(B(i) \union {i}) = Cardinality(B(i)) + 1
    BY <1>2
  <2> HIDE DEF B, slot
  <2> QED BY <2>2, <2>3, <2>4
<1>5. ASSUME NEW i \in K, NEW j \in K, slot[i] = slot[j] PROVE i = j
  <2>1. slot[i] \in Int /\ slot[j] \in Int
    BY <1>3
  <2>2. <<i, j>> \notin R /\ <<j, i>> \notin R
    <3> HIDE DEF slot
    <3> QED BY <1>4, <1>5, <2>1
  <2> QED BY <2>2 DEF StrictOrder
<1>6. slot \in Injection(K, 1..N)
  <2>1. slot \in [K -> 1..N]
    BY <1>3 DEF Placing
  <2> HIDE DEF slot, N
  <2> QED BY <2>1, <1>5 DEF Injection, IsInjective
<1>7. slot \in Surjection(K, 1..N)
  BY <1>1, <1>6, FS_Injection
<1>8. \A n \in 1..N : \E i \in K : slot[i] = n
  <2> HIDE DEF slot, N
  <2> QED BY <1>7 DEF Surjection
<1> DEFINE p == [n \in 1..N |-> CHOOSE i \in K : slot[i] = n]
<1> HIDE DEF slot, N
<1>9. \A n \in 1..N : p[n] \in K /\ slot[p[n]] = n
  BY <1>8
<1>10. ASSUME NEW i \in K PROVE \E n \in 1..N : p[n] = i
  BY <1>3, <1>5, <1>9
<1>11. ASSUME NEW m \in 1..N, NEW n \in 1..N, m < n PROVE <<p[m], p[n]>> \in R
  <2>0. p[m] \in K /\ p[n] \in K /\ slot[p[m]] = m /\ slot[p[n]] = n
    BY <1>9
  <2> HIDE DEF p
  <2>1. p[m] # p[n]
    BY <1>11, <2>0
  <2>2. <<p[n], p[m]>> \notin R
    BY <1>4, <1>11, <2>0
  <2> QED BY <2>0, <2>1, <2>2 DEF StrictOrder
<1>12. p \in [1..N -> K] /\ \A n \in 1..N : p[n] = CHOOSE i \in K : slot[i] = n
  BY <1>9
<1> HIDE DEF p
<1> QED BY <1>10, <1>11, <1>12 DEF N, slot

(* A list put in order. *)

\* A list of entries that have a base and a size.
Entries(s) == \E E : s \in Seq(E) /\ \A e \in E : e.base \in Nat /\ e.size \in Nat


\* v lists the entries K of s, each once, by increasing base.
SortedBy(v, s, K) ==
    /\ Len(v) \in Nat /\ DOMAIN v = 1..Len(v)
    /\ \A E : s \in Seq(E) => v \in Seq(E)
    /\ \E p \in [1..Len(v) -> K] :
          /\ \A n \in 1..Len(v) : v[n] = s[p[n]]
          /\ \A i \in K : \E n \in 1..Len(v) : p[n] = i
          /\ \A m, n \in 1..Len(v) : m < n => p[m] # p[n] /\ v[m].base <= v[n].base

\* A function on 1..n is a list of n entries.
LEMMA FunctionIsList ==
    ASSUME NEW n \in Nat, NEW E, NEW f \in [1..n -> E]
    PROVE  f \in Seq(E) /\ Len(f) = n
<1>1. f \in Seq(E)
  BY SeqDef
<1>2. Len(f) \in Nat /\ DOMAIN f = 1..Len(f)
  BY <1>1, LenProperties
<1>3. DOMAIN f = 1..n
  OBVIOUS
<1> QED BY <1>1, <1>2, <1>3

\* Entries laid out by an order that refines their bases are sorted by base.
LEMMA PlacedIsSorted ==
    ASSUME NEW s, Entries(s), NEW K \in SUBSET DOMAIN s, NEW R, StrictOrder(K, R),
           \A i, j \in K : <<i, j>> \in R => s[i].base <= s[j].base,
           NEW v, v = SortedList(s, K, R)
    PROVE  SortedBy(v, s, K)
<1> DEFINE N == Cardinality(K)
<1>1. IsFiniteSet(K) /\ N \in Nat
  <2>1. IsFiniteSet(DOMAIN s)
    <3>1. Len(s) \in Nat /\ DOMAIN s = 1..Len(s)
      BY DEF Entries
    <3> QED BY <3>1, FS_Interval
  <2> QED BY <2>1, FS_Subset, FS_CardinalityType
<1>2. PICK p \in [1..N -> K] :
              /\ \A n \in 1..N : p[n] = CHOOSE i \in K : Placing(K, R)[i] = n
              /\ \A i \in K : \E n \in 1..N : p[n] = i
              /\ \A m, n \in 1..N : m < n => <<p[m], p[n]>> \in R
  BY <1>1, Ordered
<1>3. v = [n \in 1..N |-> s[p[n]]]
  <2> DEFINE c(n) == CHOOSE i \in K : Placing(K, R)[i] = n
  <2>1. v = [n \in 1..N |-> s[c(n)]] /\ \A n \in 1..N : p[n] = c(n)
    BY <1>2 DEF SortedList
  <2> HIDE DEF c, N
  <2> QED BY <2>1
<1> HIDE DEF N
<1>4. DOMAIN v = 1..N /\ \A n \in 1..N : v[n] = s[p[n]]
  BY <1>3
<1>5. ASSUME NEW E, s \in Seq(E) PROVE v \in Seq(E)
  <2>1. \A i \in DOMAIN s : s[i] \in E
    BY <1>5
  <2>2. \A n \in 1..N : v[n] \in E
    BY <1>2, <1>4, <2>1
  <2>3. v \in [1..N -> E]
    BY <1>3, <1>4, <2>2
  <2> QED BY <1>1, <2>3, FunctionIsList
<1>7. Len(v) = N
  <2>1. v \in [1..N -> {v[n] : n \in 1..N}]
    BY <1>3, <1>4
  <2> QED BY <1>1, <2>1, FunctionIsList
<1>8. ASSUME NEW m \in 1..N, NEW n \in 1..N, m < n
      PROVE  p[m] # p[n] /\ v[m].base <= v[n].base
  <2>1. p[m] \in K /\ p[n] \in K /\ <<p[m], p[n]>> \in R
    BY <1>2, <1>8
  <2>2. p[m] # p[n]
    BY <2>1 DEF StrictOrder
  <2> QED BY <1>4, <2>1, <2>2
<1>9. Len(v) \in Nat /\ DOMAIN v = 1..Len(v)
  BY <1>1, <1>4, <1>7
<1>10. \A E_ : s \in Seq(E_) => v \in Seq(E_)
  BY <1>5, Zenon
<1>11. \E q \in [1..Len(v) -> K] :
          /\ \A n \in 1..Len(v) : v[n] = s[q[n]]
          /\ \A i \in K : \E n \in 1..Len(v) : q[n] = i
          /\ \A m, n \in 1..Len(v) : m < n => q[m] # q[n] /\ v[m].base <= v[n].base
  BY <1>2, <1>4, <1>7, <1>8
<1> QED BY <1>9, <1>10, <1>11, Zenon DEF SortedBy

\* A finite set of numbers ordered by a key, then another, then themselves.
LEMMA KeyOrder ==
    ASSUME NEW K, NEW b, NEW e, \A i \in K : i \in Int /\ b[i] \in Int /\ e[i] \in Int,
           NEW R, R \subseteq K \X K,
           \A i, j \in K : <<i, j>> \in R <=>
              b[i] < b[j] \/ (b[i] = b[j] /\ (e[i] < e[j] \/ (e[i] = e[j] /\ i < j)))
    PROVE  StrictOrder(K, R) /\ \A i, j \in K : <<i, j>> \in R => b[i] <= b[j]
<1>1. \A i \in K : <<i, i>> \notin R
  OBVIOUS
<1>2. ASSUME NEW i \in K, NEW j \in K PROVE i = j \/ <<i, j>> \in R \/ <<j, i>> \in R
  <2>1. b[i] \in Int /\ b[j] \in Int /\ e[i] \in Int /\ e[j] \in Int /\ i \in Int /\ j \in Int
    OBVIOUS
  <2>2. \/ i = j
        \/ b[i] < b[j] \/ (b[i] = b[j] /\ (e[i] < e[j] \/ (e[i] = e[j] /\ i < j)))
        \/ b[j] < b[i] \/ (b[j] = b[i] /\ (e[j] < e[i] \/ (e[j] = e[i] /\ j < i)))
    BY <2>1
  <2> QED BY <2>2
<1>3. ASSUME NEW i \in K, NEW j \in K, NEW k \in K, <<i, j>> \in R, <<j, k>> \in R
      PROVE  <<i, k>> \in R
  <2>1. /\ b[i] \in Int /\ b[j] \in Int /\ b[k] \in Int
        /\ e[i] \in Int /\ e[j] \in Int /\ e[k] \in Int /\ i \in Int /\ j \in Int /\ k \in Int
    OBVIOUS
  <2>2. /\ b[i] < b[j] \/ (b[i] = b[j] /\ (e[i] < e[j] \/ (e[i] = e[j] /\ i < j)))
        /\ b[j] < b[k] \/ (b[j] = b[k] /\ (e[j] < e[k] \/ (e[j] = e[k] /\ j < k)))
    BY <1>3
  <2>3. b[i] < b[k] \/ (b[i] = b[k] /\ (e[i] < e[k] \/ (e[i] = e[k] /\ i < k)))
    BY <2>1, <2>2
  <2> QED BY <2>3
<1>4. \A i, j \in K : <<i, j>> \in R => b[i] <= b[j]
  OBVIOUS
<1> QED BY <1>1, <1>2, <1>3, <1>4 DEF StrictOrder

(* A loop over a list. *)

\* f holds what a loop holds after each entry of a list.
Loop(f, N, X, x0, h) ==
    f \in [0..N -> X] /\ f[0] = x0 /\ \A n \in 1..N : f[n] = h[<<f[n - 1], n>>]

\* A loop each step of which stays in X can be run.
LEMMA LoopExists ==
    ASSUME NEW N \in Nat, NEW X, NEW x0 \in X, NEW h \in [X \X Nat -> X]
    PROVE  \E f : Loop(f, N, X, x0, h)
<1>1. PICK r : Recursion(r, X, x0, h)
  BY RecursionExists
<1>2. /\ r \in [Nat -> X] /\ r[0] = x0
      /\ \A n \in Nat : r[n + 1] = h[<<r[n], n + 1>>]
  BY <1>1 DEF Recursion
<1> DEFINE f == [n \in 0..N |-> r[n]]
<1>3. f \in [0..N -> X] /\ f[0] = x0
  BY <1>2
<1>4. ASSUME NEW n \in 1..N PROVE f[n] = h[<<f[n - 1], n>>]
  <2>1. n - 1 \in Nat /\ (n - 1) + 1 = n /\ n \in 0..N /\ n - 1 \in 0..N
    OBVIOUS
  <2>2. f[n] = r[n] /\ f[n - 1] = r[n - 1]
    BY <2>1
  <2> HIDE DEF f
  <2> QED BY <1>2, <2>1, <2>2
<1> HIDE DEF f
<1>5. Loop(f, N, X, x0, h)
  BY <1>3, <1>4 DEF Loop
<1> QED BY <1>5

(* The lesser and the greater of two numbers. *)

\* The lesser of two numbers.
LEMMA MinOfTwo == ASSUME NEW a \in Int, NEW b \in Int PROVE Min({a, b}) = IF a <= b THEN a ELSE b
<1> DEFINE m == IF a <= b THEN a ELSE b
<1>1. m \in {a, b} /\ \A y \in {a, b} : m <= y
  OBVIOUS
<1>2. \A x \in {a, b} : (\A y \in {a, b} : x <= y) => x = m
  OBVIOUS
<1> HIDE DEF m
<1>3. Min({a, b}) = m
  BY <1>1, <1>2 DEF Min
<1> QED BY <1>3 DEF m

\* The greater of two numbers.
LEMMA MaxOfTwo == ASSUME NEW a \in Int, NEW b \in Int PROVE Max({a, b}) = IF a <= b THEN b ELSE a
<1> DEFINE m == IF a <= b THEN b ELSE a
<1>1. m \in {a, b} /\ \A y \in {a, b} : m >= y
  OBVIOUS
<1>2. \A x \in {a, b} : (\A y \in {a, b} : x >= y) => x = m
  OBVIOUS
<1> HIDE DEF m
<1>3. Max({a, b}) = m
  BY <1>1, <1>2 DEF Max
<1> QED BY <1>3 DEF m
===============================================================================
