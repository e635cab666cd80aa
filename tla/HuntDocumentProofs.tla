-------------------------- MODULE HuntDocumentProofs --------------------------
(***************************************************************************)
(* For any dumps, rosters, read caps and reads: a hunt's record is clean   *)
(* only if each of its passes searched every byte of every range it        *)
(* accepts, a document counts a missed byte once, and its queue names each *)
(* range missed, once.  In order: lists (comprehensions, joins,            *)
(* BuildCoverageReport), the sweep of UnionLength, the walk and its        *)
(* invariant, what the dump captured of a range, what a report is made of, *)
(* the byte counts, the queue.                                             *)
(***************************************************************************)
EXTENDS HuntDocument, SizesProofs, SequenceTheorems

(* Lists of anything. *)

\* s is a list of the things in it.
List(s) == s \in Seq(ToSet(s))

\* What a list is made of.
LEMMA ListParts ==
    ASSUME NEW s, List(s)
    PROVE  /\ Len(s) \in Nat /\ DOMAIN s = 1..Len(s)
           /\ s = <<>> <=> Len(s) = 0
           /\ s = <<>> <=> ToSet(s) = {}
<1>1. Len(s) \in Nat /\ DOMAIN s = 1..Len(s)
  BY DEF List
<1>2. s = <<>> <=> Len(s) = 0
  BY EmptySeq DEF List
<1>3. ToSet(s) = {} <=> Len(s) = 0
  <2>1. CASE Len(s) = 0
    <3>1. DOMAIN s = {}
      BY <1>1, <2>1
    <3> QED BY <2>1, <3>1 DEF ToSet
  <2>2. CASE Len(s) # 0
    <3>1. 1 \in DOMAIN s
      BY <1>1, <2>2
    <3> QED BY <2>2, <3>1 DEF ToSet
  <2> QED BY <2>1, <2>2
<1> QED BY <1>1, <1>2, <1>3

\* A function on 1..n is a list of n entries.
LEMMA ListIs ==
    ASSUME NEW n \in Nat, NEW f, f = [i \in 1..n |-> f[i]]
    PROVE  List(f) /\ Len(f) = n /\ DOMAIN f = 1..n /\ ToSet(f) = {f[i] : i \in 1..n}
<1>1. DOMAIN f = 1..n
  OBVIOUS
<1>2. f \in [1..n -> ToSet(f)]
  BY <1>1 DEF ToSet
<1>3. f \in Seq(ToSet(f))
  BY <1>2, SeqDef
<1>4. Len(f) \in Nat /\ DOMAIN f = 1..Len(f)
  BY <1>3, LenProperties
<1>5. Len(f) = n
  BY <1>1, <1>4
<1> QED BY <1>1, <1>3, <1>5 DEF List, ToSet

\* A list of members of a set is a list.
LEMMA TypedIsList == ASSUME NEW S, NEW s \in Seq(S) PROVE List(s)
<1>1. Len(s) \in Nat /\ s = [i \in 1..Len(s) |-> s[i]]
  OBVIOUS
<1> QED BY <1>1, ListIs

\* The empty list, and a list of one.
LEMMA ShortLists ==
    /\ List(<<>>) /\ ToSet(<<>>) = {}
    /\ \A x : List(<<x>>) /\ ToSet(<<x>>) = {x} /\ <<x>> # <<>>
<1>1. List(<<>>) /\ ToSet(<<>>) = {}
  BY DEF List, ToSet
<1>2. ASSUME NEW x PROVE List(<<x>>) /\ ToSet(<<x>>) = {x} /\ <<x>> # <<>>
  <2>1. <<x>> \in Seq({x}) /\ DOMAIN <<x>> = 1..1 /\ <<x>>[1] = x
    OBVIOUS
  <2>2. ToSet(<<x>>) = {x}
    BY <2>1 DEF ToSet
  <2> QED BY <2>1, <2>2 DEF List
<1> QED BY <1>1, <1>2

\* Two lists joined hold what both hold, in that order.
LEMMA Joined ==
    ASSUME NEW s, List(s), NEW t, List(t)
    PROVE  /\ List(s \o t) /\ Len(s \o t) = Len(s) + Len(t)
           /\ \A i \in 1..Len(s) : (s \o t)[i] = s[i]
           /\ \A i \in 1..Len(t) : (s \o t)[Len(s) + i] = t[i]
           /\ ToSet(s \o t) = ToSet(s) \union ToSet(t)
<1> DEFINE S == ToSet(s) \union ToSet(t)
           u == s \o t
<1>1. /\ Len(s) \in Nat /\ DOMAIN s = 1..Len(s)
      /\ Len(t) \in Nat /\ DOMAIN t = 1..Len(t)
  BY ListParts
<1>2. s \in Seq(S) /\ t \in Seq(S)
  <2>1. s \in [1..Len(s) -> S] /\ t \in [1..Len(t) -> S]
    BY DEF List, ToSet
  <2> QED BY <1>1, <2>1, SeqDef
<1> HIDE DEF S
<1>3. /\ u \in Seq(S) /\ Len(u) = Len(s) + Len(t)
      /\ \A i \in 1..Len(s) : u[i] = s[i]
      /\ \A i \in 1..Len(t) : u[Len(s) + i] = t[i]
  <2>1. /\ u \in Seq(S) /\ Len(u) = Len(s) + Len(t)
        /\ \A i \in 1..(Len(s) + Len(t)) : u[i] = IF i <= Len(s) THEN s[i] ELSE t[i - Len(s)]
    BY <1>2, ConcatProperties
  <2>2. \A i \in 1..Len(s) : u[i] = s[i]
    BY <1>1, <2>1
  <2>3. ASSUME NEW i \in 1..Len(t) PROVE u[Len(s) + i] = t[i]
    <3>1. Len(s) + i \in 1..(Len(s) + Len(t)) /\ ~(Len(s) + i <= Len(s)) /\ (Len(s) + i) - Len(s) = i
      BY <1>1
    <3> QED BY <2>1, <3>1
  <2> QED BY <2>1, <2>2, <2>3
<1> HIDE DEF u
<1>4. List(u)
  BY <1>3, TypedIsList
<1>5. DOMAIN u = 1..(Len(s) + Len(t))
  BY <1>3, <1>4, ListParts
<1>6. ToSet(u) = ToSet(s) \union ToSet(t)
  <2>1. ASSUME NEW x \in ToSet(u) PROVE x \in ToSet(s) \union ToSet(t)
    <3>1. PICK i \in 1..(Len(s) + Len(t)) : x = u[i]
      BY <1>5 DEF ToSet
    <3>2. CASE i <= Len(s)
      <4>1. i \in 1..Len(s) /\ x = s[i]
        BY <1>1, <1>3, <3>1, <3>2
      <4> QED BY <1>1, <4>1 DEF ToSet
    <3>3. CASE ~(i <= Len(s))
      <4>1. i - Len(s) \in 1..Len(t) /\ Len(s) + (i - Len(s)) = i
        BY <1>1, <3>3
      <4>2. x = t[i - Len(s)]
        BY <1>3, <3>1, <4>1
      <4> QED BY <1>1, <4>1, <4>2 DEF ToSet
    <3> QED BY <3>2, <3>3
  <2>2. ToSet(s) \subseteq ToSet(u)
    BY <1>1, <1>3, <1>5 DEF ToSet
  <2>3. ASSUME NEW x \in ToSet(t) PROVE x \in ToSet(u)
    <3>1. PICK i \in 1..Len(t) : x = t[i]
      BY <1>1 DEF ToSet
    <3>2. Len(s) + i \in DOMAIN u /\ u[Len(s) + i] = x
      BY <1>1, <1>3, <1>5, <3>1
    <3> QED BY <3>2 DEF ToSet
  <2> QED BY <2>1, <2>2, <2>3
<1> QED BY <1>3, <1>4, <1>6 DEF u

\* A comprehension lists the entries its condition keeps.
LEMMA PickedIs ==
    ASSUME NEW s, List(s), NEW K \in SUBSET DOMAIN s
    PROVE  /\ List(Picked(s, K)) /\ ToSet(Picked(s, K)) = {s[i] : i \in K}
           /\ IsFiniteSet(K) /\ Len(Picked(s, K)) = Cardinality(K)
           /\ Picked(s, K) = <<>> <=> K = {}
<1> DEFINE N == Len(s)
           X == Seq(ToSet(s))
           IsRun(f) == f = [n \in 0..N |-> IF n = 0 THEN <<>>
                                           ELSE IF n \in K THEN Append(f[n - 1], s[n])
                                           ELSE f[n - 1]]
           picked == CHOOSE f : IsRun(f)
           onto == [q \in X \X Nat |-> IF q[2] \in K THEN Append(q[1], s[q[2]]) ELSE q[1]]
           v == Picked(s, K)
<1>1. Picked(s, K) = picked[N]
  BY DEF Picked
<1>2. N \in Nat /\ DOMAIN s = 1..N /\ \A n \in 1..N : s[n] \in ToSet(s)
  BY ListParts DEF ToSet
<1>3. onto \in [X \X Nat -> X]
  <2>1. ASSUME NEW x \in X, NEW n \in Nat
        PROVE  (IF n \in K THEN Append(x, s[n]) ELSE x) \in X
    <3>1. CASE n \in K
      <4>1. s[n] \in ToSet(s)
        BY <1>2, <3>1
      <4>2. Append(x, s[n]) \in X
        BY <4>1
      <4> QED BY <3>1, <4>2
    <3> QED BY <3>1
  <2> HIDE DEF X
  <2> QED BY <2>1
<1>4. <<>> \in X
  OBVIOUS
<1> HIDE DEF N, X, v
<1>5. \A x \in X, n \in Nat : onto[<<x, n>>] = IF n \in K THEN Append(x, s[n]) ELSE x
  OBVIOUS
<1> HIDE DEF onto
<1>6. PICK f \in [0..N -> X] : f[0] = <<>> /\ \A n \in 1..N : f[n] = onto[<<f[n - 1], n>>]
  <2>1. \E f : Loop(f, N, X, <<>>, onto)
    BY <1>2, <1>3, <1>4, LoopExists
  <2> QED BY <2>1 DEF Loop
<1>7. \A n \in 1..N : n \in 0..N /\ n - 1 \in 0..N /\ n \in Nat /\ n # 0
  BY <1>2
<1>8. \A n \in 1..N : f[n] = IF n \in K THEN Append(f[n - 1], s[n]) ELSE f[n - 1]
  BY <1>5, <1>6, <1>7
<1>9. IsRun(f)
  <2>1. ASSUME NEW n \in 0..N
        PROVE  f[n] = IF n = 0 THEN <<>> ELSE IF n \in K THEN Append(f[n - 1], s[n]) ELSE f[n - 1]
    <3>1. n = 0 \/ n \in 1..N
      BY <1>2
    <3> QED BY <1>6, <1>8, <3>1
  <2> QED BY <1>6, <2>1
<1>10. IsRun(picked)
  <2> HIDE DEF IsRun
  <2> QED BY <1>9
<1> HIDE DEF picked
<1>11. /\ picked[0] = <<>>
       /\ \A n \in 1..N : picked[n] = IF n \in K THEN Append(picked[n - 1], s[n]) ELSE picked[n - 1]
  <2>1. 0 \in 0..N
    BY <1>2
  <2> QED BY <1>7, <1>10, <2>1
<1> DEFINE Upto(n) == {i \in K : i <= n}
           Kept(n) == /\ picked[n] \in X /\ IsFiniteSet(Upto(n))
                      /\ Len(picked[n]) = Cardinality(Upto(n))
                      /\ {picked[n][m] : m \in 1..Len(picked[n])} = {s[i] : i \in Upto(n)}
           S == {n \in Nat : n <= N => Kept(n)}
<1>12. \A i \in K : i \in Nat /\ 1 <= i /\ i <= N
  BY <1>2
<1>13. 0 \in S
  <2>1. Upto(0) = {}
    BY <1>12
  <2>2. picked[0] = <<>> /\ Len(<<>>) = 0 /\ 1..0 = {}
    BY <1>11
  <2>3. IsFiniteSet({}) /\ Cardinality({}) = 0
    BY FS_EmptySet
  <2>4. Kept(0)
    BY <1>4, <2>1, <2>2, <2>3
  <2> QED BY <2>4
<1>14. ASSUME NEW n \in Nat, n \in S PROVE n + 1 \in S
  <2> SUFFICES ASSUME n + 1 <= N PROVE Kept(n + 1)
    <3> HIDE DEF Kept
    <3> QED OBVIOUS
  <2>1. n + 1 \in 1..N /\ (n + 1) - 1 = n /\ Kept(n)
    <3> HIDE DEF Kept
    <3> QED BY <1>2, <1>14
  <2> DEFINE w == picked[n]
             u == picked[n + 1]
  <2>2. /\ w \in X /\ IsFiniteSet(Upto(n)) /\ Len(w) = Cardinality(Upto(n))
        /\ {w[m] : m \in 1..Len(w)} = {s[i] : i \in Upto(n)}
    BY <2>1
  <2>3. u = IF n + 1 \in K THEN Append(w, s[n + 1]) ELSE w
    BY <1>11, <2>1
  <2> HIDE DEF w, u
  <2>4. CASE n + 1 \in K
    <3>1. Upto(n + 1) = Upto(n) \union {n + 1} /\ n + 1 \notin Upto(n)
      BY <1>12, <2>4
    <3> HIDE DEF Upto
    <3>2. IsFiniteSet(Upto(n + 1)) /\ Cardinality(Upto(n + 1)) = Cardinality(Upto(n)) + 1
      BY <2>2, <3>1, FS_AddElement
    <3>3. s[n + 1] \in ToSet(s) /\ u = Append(w, s[n + 1])
      BY <1>2, <2>1, <2>3, <2>4
    <3>4. /\ u \in X /\ Len(w) \in Nat /\ Len(u) = Len(w) + 1
          /\ u[Len(w) + 1] = s[n + 1] /\ \A m \in 1..Len(w) : u[m] = w[m]
      BY <2>2, <3>3 DEF X
    <3>5. {u[m] : m \in 1..Len(u)} = {w[m] : m \in 1..Len(w)} \union {s[n + 1]}
      <4>1. 1..Len(u) = 1..Len(w) \union {Len(w) + 1}
        BY <3>4
      <4> QED BY <3>4, <4>1
    <3>6. {s[i] : i \in Upto(n + 1)} = {s[i] : i \in Upto(n)} \union {s[n + 1]}
      BY <3>1
    <3>7. Len(u) = Cardinality(Upto(n + 1))
      BY <2>2, <3>2, <3>4
    <3>8. {u[m] : m \in 1..Len(u)} = {s[i] : i \in Upto(n + 1)}
      BY <2>2, <3>5, <3>6
    <3> QED BY <3>2, <3>4, <3>7, <3>8 DEF u
  <2>5. CASE n + 1 \notin K
    <3>1. Upto(n + 1) = Upto(n) /\ u = w
      BY <1>12, <2>3, <2>5
    <3> HIDE DEF Upto
    <3> QED BY <2>2, <3>1 DEF u
  <2> QED BY <2>4, <2>5
<1> HIDE DEF S
<1>15. \A n \in Nat : n \in S
  BY <1>13, <1>14, SetInduction
<1>16. Kept(N)
  BY <1>2, <1>15 DEF S
<1>17. Upto(N) = K
  BY <1>12
<1>18. /\ v \in X /\ IsFiniteSet(K) /\ Len(v) = Cardinality(K)
       /\ {v[m] : m \in 1..Len(v)} = {s[i] : i \in K}
  BY <1>1, <1>16, <1>17 DEF v
<1>19. List(v) /\ ToSet(v) = {v[m] : m \in 1..Len(v)}
  <2>1. List(v)
    BY <1>18, TypedIsList DEF X
  <2> QED BY <2>1, ListParts DEF ToSet
<1>20. v = <<>> <=> K = {}
  <2>1. v = <<>> <=> ToSet(v) = {}
    BY <1>19, ListParts
  <2> QED BY <1>18, <1>19, <2>1
<1> QED BY <1>18, <1>19, <1>20 DEF v

\* A list of lists, flattened, is a list of all they hold.
LEMMA Flattened ==
    ASSUME NEW n \in Nat, NEW ss, ss = [i \in 1..n |-> ss[i]], \A i \in 1..n : List(ss[i])
    PROVE  List(FlattenSeq(ss)) /\ ToSet(FlattenSeq(ss)) = UNION {ToSet(ss[i]) : i \in 1..n}
<1> DEFINE S == UNION {ToSet(ss[i]) : i \in 1..n}
           X == Seq(S)
           Flat(g) == g = [i \in 1..n |-> IF i = 1 THEN ss[i] ELSE g[i - 1] \o ss[i]]
           flat == CHOOSE g : Flat(g)
<1>1. List(ss) /\ Len(ss) = n /\ (ss = <<>> <=> n = 0)
  BY ListIs, ListParts
<1>2. CASE n = 0
  <2>1. ss = <<>> /\ FlattenSeq(ss) = ss /\ 1..n = {}
    BY <1>1, <1>2 DEF FlattenSeq
  <2> QED BY <2>1, ShortLists
<1>3. CASE n # 0
  <2>1. FlattenSeq(ss) = flat[n]
    BY <1>1, <1>3 DEF FlattenSeq
  <2>2. \A i \in 1..n : ss[i] \in X
    <3> SUFFICES ASSUME NEW i \in 1..n PROVE ss[i] \in X
      OBVIOUS
    <3>1. Len(ss[i]) \in Nat /\ DOMAIN ss[i] = 1..Len(ss[i]) /\ List(ss[i])
      BY ListParts
    <3>2. ss[i] \in [1..Len(ss[i]) -> S]
      BY <3>1 DEF List, ToSet
    <3> HIDE DEF S
    <3> QED BY <3>1, <3>2, SeqDef
  <2>3. <<>> \in X /\ \A x \in X, y \in X : x \o y \in X
    <3> HIDE DEF S
    <3> QED BY ConcatProperties
  <2> HIDE DEF X
  <2>4. PICK r \in [Nat -> X] :
           /\ r[0] = <<>>
           /\ \A i \in Nat : r[i + 1] = IF i + 1 \in 1..n THEN r[i] \o ss[i + 1] ELSE r[i]
    <3> DEFINE g == [q \in X \X Nat |-> IF q[2] \in 1..n THEN q[1] \o ss[q[2]] ELSE q[1]]
    <3>1. g \in [X \X Nat -> X]
      BY <2>2, <2>3
    <3>2. \A x \in X, i \in Nat : g[<<x, i>>] = IF i \in 1..n THEN x \o ss[i] ELSE x
      OBVIOUS
    <3> HIDE DEF g
    <3>3. PICK r \in [Nat -> X] : r[0] = <<>> /\ \A i \in Nat : r[i + 1] = g[<<r[i], i + 1>>]
      <4>1. \E r : Recursion(r, X, <<>>, g)
        BY <2>3, <3>1, RecursionExists
      <4> QED BY <4>1 DEF Recursion
    <3>4. \A i \in Nat : r[i] \in X /\ i + 1 \in Nat
      OBVIOUS
    <3> QED BY ZenonT(30), <3>2, <3>3, <3>4
  <2>5. r[1] = ss[1]
    <3>1. 0 + 1 = 1 /\ 1 \in 1..n /\ 0 \in Nat
      BY <1>3
    <3>2. r[1] = <<>> \o ss[1]
      BY <2>4, <3>1
    <3>3. <<>> \o ss[1] = ss[1]
      BY <2>2, <3>1, ConcatEmptySeq DEF X
    <3> QED BY <3>2, <3>3
  <2>6. \A i \in 1..n : r[i] = IF i = 1 THEN ss[i] ELSE r[i - 1] \o ss[i]
    <3> SUFFICES ASSUME NEW i \in 1..n, i # 1 PROVE r[i] = r[i - 1] \o ss[i]
      BY <2>5
    <3>1. i - 1 \in Nat /\ (i - 1) + 1 = i
      OBVIOUS
    <3> QED BY <2>4, <3>1
  <2>7. Flat([i \in 1..n |-> r[i]])
    <3> DEFINE g == [i \in 1..n |-> r[i]]
    <3>1. ASSUME NEW i \in 1..n PROVE g[i] = IF i = 1 THEN ss[i] ELSE g[i - 1] \o ss[i]
      <4>1. i # 1 => i - 1 \in 1..n
        OBVIOUS
      <4> QED BY <2>6, <4>1
    <3>2. g = [i \in 1..n |-> IF i = 1 THEN ss[i] ELSE g[i - 1] \o ss[i]]
      BY <3>1
    <3> QED BY <3>2
  <2>8. Flat(flat)
    <3> HIDE DEF Flat
    <3> QED BY <2>7
  <2> HIDE DEF flat
  <2>9. \A i \in 1..n : flat[i] = IF i = 1 THEN ss[i] ELSE flat[i - 1] \o ss[i]
    BY <2>8
  <2> DEFINE Good(i) == List(flat[i]) /\ ToSet(flat[i]) = UNION {ToSet(ss[j]) : j \in 1..i}
             T == {i \in Nat : i + 1 <= n => Good(i + 1)}
  <2>10. 0 \in T
    <3>1. 1 \in 1..n /\ flat[1] = ss[1] /\ List(ss[1]) /\ 1..1 = {1}
      BY <1>3, <2>9
    <3>2. UNION {ToSet(ss[j]) : j \in {1}} = ToSet(ss[1])
      OBVIOUS
    <3>3. Good(1) /\ 0 + 1 = 1
      BY <3>1, <3>2
    <3> HIDE DEF Good
    <3> QED BY <3>3
  <2>11. ASSUME NEW i \in Nat, i \in T PROVE i + 1 \in T
    <3> SUFFICES ASSUME i + 2 <= n PROVE Good(i + 2)
      <4>1. (i + 1) + 1 = i + 2 /\ i + 1 \in Nat
        OBVIOUS
      <4> HIDE DEF Good
      <4> QED BY <4>1
    <3>1. i + 1 \in 1..n /\ i + 2 \in 1..n /\ i + 2 # 1 /\ (i + 2) - 1 = i + 1 /\ i + 1 <= n
      OBVIOUS
    <3>2. Good(i + 1)
      <4> HIDE DEF Good
      <4> QED BY <2>11, <3>1
    <3>3. flat[i + 2] = flat[i + 1] \o ss[i + 2] /\ List(ss[i + 2])
      BY <2>9, <3>1
    <3>4. List(flat[i + 2]) /\ ToSet(flat[i + 2]) = ToSet(flat[i + 1]) \union ToSet(ss[i + 2])
      BY <3>2, <3>3, Joined
    <3>5. 1..(i + 2) = (1..(i + 1)) \union {i + 2}
      OBVIOUS
    <3>6. UNION {ToSet(ss[j]) : j \in 1..(i + 2)}
            = (UNION {ToSet(ss[j]) : j \in 1..(i + 1)}) \union ToSet(ss[i + 2])
      BY <3>5
    <3> QED BY <3>2, <3>4, <3>6
  <2> HIDE DEF T
  <2>12. \A i \in Nat : i \in T
    BY <2>10, <2>11, SetInduction
  <2>13. Good(n)
    <3>1. n - 1 \in Nat /\ (n - 1) + 1 = n
      BY <1>3
    <3> HIDE DEF Good
    <3> QED BY <2>12, <3>1 DEF T
  <2> QED BY <2>1, <2>13
<1> QED BY <1>2, <1>3

(* The sweep of _union_length. *)

Spans == [base: Nat, size: Nat]
Sweeps == [bytes: Nat, count: Nat, stop: Int]
Extents(ranges) == {i \in DOMAIN ranges : ranges[i].size > 0}
WithSize(ranges) == Picked(ranges, Extents(ranges))
SweepList(ranges) == StableSort(WithSize(ranges), ByBaseEnd)

\* One range of the sweep, as UnionLength takes it.
Merge(sweep, r) ==
    IF r.base > sweep.stop
    THEN [bytes |-> sweep.bytes + r.size, count |-> sweep.count + 1, stop |-> End(r)]
    ELSE LET stop == Max({sweep.stop, End(r)})
         IN [sweep EXCEPT !.bytes = @ + (stop - sweep.stop), !.stop = stop]
NoSweep == [bytes |-> 0, count |-> 0, stop |-> -1]

\* What one range does to the three figures.
LEMMA MergeIs ==
    ASSUME NEW x \in Sweeps, NEW r \in Spans
    PROVE  LET stop == IF x.stop <= End(r) THEN End(r) ELSE x.stop
           IN  /\ Merge(x, r) \in Sweeps /\ End(r) = r.base + r.size
               /\ r.base > x.stop => /\ Merge(x, r).bytes = x.bytes + r.size
                                     /\ Merge(x, r).count = x.count + 1 /\ Merge(x, r).stop = End(r)
               /\ ~(r.base > x.stop) => /\ Merge(x, r).bytes = x.bytes + (stop - x.stop)
                                        /\ Merge(x, r).count = x.count /\ Merge(x, r).stop = stop
<1> DEFINE stop == IF x.stop <= End(r) THEN End(r) ELSE x.stop
<1>1. /\ x.bytes \in Nat /\ x.count \in Nat /\ x.stop \in Int
      /\ r.base \in Nat /\ r.size \in Nat /\ End(r) \in Nat /\ End(r) = r.base + r.size
  BY DEF Sweeps, Spans, End
<1>2. Max({x.stop, End(r)}) = stop
  BY <1>1, MaxOfTwo
<1>3. stop \in Int /\ stop - x.stop \in Nat
  BY <1>1
<1> HIDE DEF stop
<1>4. CASE r.base > x.stop
  <2>1. Merge(x, r) = [bytes |-> x.bytes + r.size, count |-> x.count + 1, stop |-> End(r)]
    BY <1>4 DEF Merge
  <2>2. Merge(x, r) \in Sweeps
    BY <1>1, <2>1 DEF Sweeps
  <2> QED BY <1>1, <1>4, <2>1, <2>2 DEF stop
<1>5. CASE ~(r.base > x.stop)
  <2>0. Merge(x, r) = [x EXCEPT !.bytes = x.bytes + (stop - x.stop), !.stop = stop]
    BY <1>2, <1>5 DEF Merge
  <2>1. Merge(x, r) = [bytes |-> x.bytes + (stop - x.stop), count |-> x.count, stop |-> stop]
    BY <2>0 DEF Sweeps
  <2>2. Merge(x, r) \in Sweeps
    <3>1. x.bytes + (stop - x.stop) \in Nat
      BY <1>1, <1>3
    <3> QED BY <1>1, <1>3, <2>1, <3>1 DEF Sweeps
  <2>3. /\ Merge(x, r).bytes = x.bytes + (stop - x.stop)
        /\ Merge(x, r).count = x.count /\ Merge(x, r).stop = stop
    BY <2>1 DEF Sweeps
  <2> QED BY <1>1, <1>5, <2>2, <2>3 DEF stop
<1> QED BY <1>4, <1>5

\* The numbers from 1 to n.
LEMMA CountedTo == ASSUME NEW n \in Nat PROVE IsFiniteSet(1..n) /\ Cardinality(1..n) = n
  BY FS_Interval

\* The ranges that have an extent.
LEMMA WithSizeIs ==
    ASSUME NEW ranges \in Seq(Spans)
    PROVE  /\ WithSize(ranges) \in Seq(Spans) /\ Len(WithSize(ranges)) <= Len(ranges)
           /\ ToSet(WithSize(ranges)) = {ranges[i] : i \in Extents(ranges)}
<1> DEFINE K == Extents(ranges)
           v == WithSize(ranges)
<1>1. List(ranges) /\ Len(ranges) \in Nat /\ DOMAIN ranges = 1..Len(ranges)
  BY TypedIsList
<1>2. K \in SUBSET DOMAIN ranges
  BY DEF Extents
<1>3. /\ List(v) /\ ToSet(v) = {ranges[i] : i \in K} /\ Len(v) = Cardinality(K)
  BY <1>1, <1>2, PickedIs DEF WithSize
<1>4. v \in Seq(Spans)
  <2>1. ToSet(v) \subseteq Spans
    BY <1>2, <1>3
  <2>2. v \in Seq(ToSet(v))
    BY <1>3 DEF List
  <2> HIDE DEF v
  <2> QED BY <2>1, <2>2
<1>5. Cardinality(K) <= Len(ranges)
  <2>1. IsFiniteSet(1..Len(ranges)) /\ Cardinality(1..Len(ranges)) = Len(ranges)
    BY <1>1, FS_Interval
  <2>2. K \in SUBSET (1..Len(ranges))
    BY <1>1, <1>2
  <2> HIDE DEF K
  <2> QED BY <2>1, <2>2, FS_Subset
<1> QED BY <1>3, <1>4, <1>5

\* A stable sort by base and end.
LEMMA EndSorted ==
    ASSUME NEW ranges \in Seq(Spans)
    PROVE  SortedBy(StableSort(ranges, ByBaseEnd), ranges, DOMAIN ranges)
<1> DEFINE K == DOMAIN ranges
           Every == {i \in DOMAIN ranges : TRUE}
           Before(i, j) == ByBaseEnd(ranges[i], ranges[j])
                           \/ (~ByBaseEnd(ranges[j], ranges[i]) /\ i < j)
           R == {q \in K \X K : Before(q[1], q[2])}
           b == [i \in K |-> ranges[i].base]
           e == [i \in K |-> End(ranges[i])]
           slot == [i \in Every |-> 1 + Cardinality({j \in Every : Before(j, i)})]
           v == StableSort(ranges, ByBaseEnd)
<1>1. \A i \in DOMAIN ranges : i \in Nat /\ ranges[i] \in Spans
  OBVIOUS
<1>2. ASSUME NEW i \in K
      PROVE  /\ i \in Int /\ b[i] \in Int /\ e[i] \in Int
             /\ b[i] = ranges[i].base /\ e[i] = End(ranges[i])
  BY <1>1 DEF Spans, End
<1>3. \A i, j \in K : <<i, j>> \in R <=>
         b[i] < b[j] \/ (b[i] = b[j] /\ (e[i] < e[j] \/ (e[i] = e[j] /\ i < j)))
  <2> SUFFICES ASSUME NEW i \in K, NEW j \in K
               PROVE  Before(i, j) <=>
                        b[i] < b[j] \/ (b[i] = b[j] /\ (e[i] < e[j] \/ (e[i] = e[j] /\ i < j)))
    OBVIOUS
  <2> HIDE DEF b, e, K
  <2> QED BY <1>2 DEF ByBaseEnd
<1>4. v = SortedList(ranges, K, R)
  <2>1. v = [n \in 1..Cardinality(Every) |-> ranges[CHOOSE i \in Every : slot[i] = n]]
    BY DEF StableSort, SortKept
  <2>2. Every = K
    OBVIOUS
  <2> HIDE DEF Every
  <2>3. slot = Placing(K, R)
    <3>1. ASSUME NEW i \in K PROVE {j \in Every : Before(j, i)} = Below(K, R, i)
      BY <2>2 DEF Below
    <3> HIDE DEF R, Before, K
    <3> QED BY <2>2, <3>1 DEF Placing
  <2> HIDE DEF slot, K, R
  <2> QED BY <2>1, <2>2, <2>3 DEF SortedList
<1>5. R \subseteq K \X K /\ K \in SUBSET DOMAIN ranges
  OBVIOUS
<1>6. Entries(ranges)
  <2>1. \A r \in Spans : r.base \in Nat /\ r.size \in Nat
    BY DEF Spans
  <2> QED BY <2>1, Zenon DEF Entries
<1> HIDE DEF b, e, K, R, v
<1>7. StrictOrder(K, R) /\ \A i, j \in K : <<i, j>> \in R => ranges[i].base <= ranges[j].base
  <2>1. StrictOrder(K, R) /\ \A i, j \in K : <<i, j>> \in R => b[i] <= b[j]
    BY <1>2, <1>3, <1>5, KeyOrder
  <2> QED BY <1>2, <2>1
<1>8. SortedBy(v, ranges, K)
  BY <1>4, <1>5, <1>6, <1>7, PlacedIsSorted
<1> QED BY <1>8 DEF K, v

\* The sweep takes the ranges that have an extent, by increasing base.
LEMMA SweepSorted ==
    ASSUME NEW ranges \in Seq(Spans)
    PROVE  LET v == SweepList(ranges)
           IN  /\ v \in Seq(Spans) /\ Len(v) \in Nat /\ Len(v) <= Len(ranges)
               /\ \A n \in 1..Len(v) : v[n] \in {ranges[i] : i \in Extents(ranges)}
               /\ \A i \in Extents(ranges) : \E n \in 1..Len(v) : v[n] = ranges[i]
               /\ \A m, n \in 1..Len(v) : m < n => v[m].base <= v[n].base
<1> DEFINE u == WithSize(ranges)
           v == SweepList(ranges)
<1>1. /\ u \in Seq(Spans) /\ Len(u) <= Len(ranges)
      /\ ToSet(u) = {ranges[i] : i \in Extents(ranges)}
  BY WithSizeIs
<1>2. SortedBy(v, u, DOMAIN u)
  <2> HIDE DEF u
  <2>1. SortedBy(StableSort(u, ByBaseEnd), u, DOMAIN u)
    BY <1>1, EndSorted
  <2> QED BY <2>1 DEF SweepList, u
<1> HIDE DEF u, v
<1>3. Len(u) \in Nat /\ DOMAIN u = 1..Len(u) /\ Len(ranges) \in Nat
  BY <1>1
<1>4. v \in Seq(Spans) /\ Len(v) \in Nat
  BY <1>1, <1>2 DEF SortedBy
<1>5. PICK at \in [1..Len(v) -> DOMAIN u] :
         /\ \A n \in 1..Len(v) : v[n] = u[at[n]]
         /\ \A i \in DOMAIN u : \E n \in 1..Len(v) : at[n] = i
         /\ \A m, n \in 1..Len(v) : m < n => at[m] # at[n] /\ v[m].base <= v[n].base
  BY <1>2 DEF SortedBy
<1>6. Len(v) <= Len(u)
  <2>1. at \in Injection(1..Len(v), 1..Len(u))
    <3>1. \A m, n \in 1..Len(v) : m # n => at[m] # at[n]
      <4> SUFFICES ASSUME NEW m \in 1..Len(v), NEW n \in 1..Len(v), m # n PROVE at[m] # at[n]
        OBVIOUS
      <4>1. m < n \/ n < m
        BY <1>4
      <4> QED BY <1>5, <4>1
    <3> QED BY <1>3, <1>5, <3>1 DEF Injection, IsInjective
  <2>2. /\ IsFiniteSet(1..Len(v)) /\ Cardinality(1..Len(v)) = Len(v)
        /\ IsFiniteSet(1..Len(u)) /\ Cardinality(1..Len(u)) = Len(u)
    <3>1. IsFiniteSet(1..Len(v)) /\ Cardinality(1..Len(v)) = Len(v)
      BY <1>4, CountedTo
    <3>2. IsFiniteSet(1..Len(u)) /\ Cardinality(1..Len(u)) = Len(u)
      BY <1>3, CountedTo
    <3> QED BY <3>1, <3>2
  <2>3. Cardinality(1..Len(v)) <= Cardinality(1..Len(u))
    <3> DEFINE A == 1..Len(v)
               B == 1..Len(u)
    <3>1. at \in Injection(A, B) /\ IsFiniteSet(A) /\ IsFiniteSet(B)
      BY <2>1, <2>2
    <3> HIDE DEF A, B
    <3>2. Cardinality(A) <= Cardinality(B)
      BY <3>1, FS_Injection, Zenon
    <3> QED BY <3>2 DEF A, B
  <2> QED BY <2>2, <2>3
<1>7. \A n \in 1..Len(v) : v[n] \in ToSet(u)
  BY <1>5 DEF ToSet
<1>8. ASSUME NEW i \in Extents(ranges) PROVE \E n \in 1..Len(v) : v[n] = ranges[i]
  <2>1. PICK j \in DOMAIN u : u[j] = ranges[i]
    BY <1>1 DEF ToSet
  <2> QED BY <1>5, <2>1
<1> QED BY <1>1, <1>3, <1>4, <1>5, <1>6, <1>7, <1>8 DEF v

\* w holds the sweep after each range.
IsSweep(w, ranges) ==
    /\ w[0] = NoSweep
    /\ \A n \in 1..Len(SweepList(ranges)) : w[n] = Merge(w[n - 1], SweepList(ranges)[n])
    /\ UnionLength(ranges) = w[Len(SweepList(ranges))]

\* The sweep is the function its definition describes.
LEMMA SweepDefined ==
    ASSUME NEW ranges \in Seq(Spans)
    PROVE  \E w : IsSweep(w, ranges)
<1> DEFINE v == SweepList(ranges)
           N == Len(v)
           IsRun(f) == f = [n \in 0..N |-> IF n = 0 THEN NoSweep ELSE Merge(f[n - 1], v[n])]
           sweep == CHOOSE f : IsRun(f)
           onto == [q \in Sweeps \X Nat |-> IF q[2] \in 1..N THEN Merge(q[1], v[q[2]]) ELSE q[1]]
<1>1. UnionLength(ranges) = sweep[N]
  BY DEF UnionLength, SweepList, WithSize, Filtered, Extents, Merge, NoSweep
<1>2. N \in Nat /\ \A n \in 1..N : v[n] \in Spans
  <2>1. v \in Seq(Spans)
    BY SweepSorted
  <2> QED BY <2>1
<1> HIDE DEF N, v
<1>3. onto \in [Sweeps \X Nat -> Sweeps]
  <2>1. ASSUME NEW q \in Sweeps \X Nat
        PROVE  (IF q[2] \in 1..N THEN Merge(q[1], v[q[2]]) ELSE q[1]) \in Sweeps
    BY <1>2, MergeIs
  <2> QED BY <2>1
<1>4. NoSweep \in Sweeps
  BY DEF NoSweep, Sweeps
<1>5. \A x \in Sweeps, n \in 1..N : onto[<<x, n>>] = Merge(x, v[n])
  BY <1>2
<1> HIDE DEF onto
<1>6. PICK f \in [0..N -> Sweeps] : f[0] = NoSweep /\ \A n \in 1..N : f[n] = onto[<<f[n - 1], n>>]
  <2>1. \E f : Loop(f, N, Sweeps, NoSweep, onto)
    BY <1>2, <1>3, <1>4, LoopExists
  <2> QED BY <2>1 DEF Loop
<1>7. \A n \in 1..N : f[n] = Merge(f[n - 1], v[n])
  <2>1. \A n \in 1..N : n - 1 \in 0..N
    BY <1>2
  <2> QED BY <1>5, <1>6, <2>1
<1>8. IsRun(f)
  <2>1. ASSUME NEW n \in 0..N PROVE f[n] = IF n = 0 THEN NoSweep ELSE Merge(f[n - 1], v[n])
    <3>1. n = 0 \/ n \in 1..N
      BY <1>2
    <3> QED BY <1>6, <1>7, <3>1
  <2> QED BY <1>6, <2>1
<1>9. IsRun(sweep)
  <2> HIDE DEF IsRun
  <2> QED BY <1>8
<1> HIDE DEF sweep
<1>10. sweep[0] = NoSweep /\ \A n \in 1..N : sweep[n] = Merge(sweep[n - 1], v[n])
  <2>1. 0 \in 0..N /\ \A n \in 1..N : n \in 0..N /\ n # 0
    BY <1>2
  <2> QED BY <1>9, <2>1
<1> QED BY <1>1, <1>10 DEF IsSweep, N, v

(* What the sweep counts. *)

Covered(v, n) == UNION {Bytes(v[i]) : i \in 1..n}
Starts(A) == {a \in A : a - 1 \notin A}

\* After n ranges the sweep has counted what they cover and where that begins; it
\* stands past the last byte of the run the latest of them belongs to.
Swept(v, n, x) ==
    LET A == Covered(v, n)
    IN  /\ x \in Sweeps /\ A \subseteq Nat /\ IsFiniteSet(A)
        /\ x.bytes = Cardinality(A) /\ x.count = Cardinality(Starts(A)) /\ x.count <= n
        /\ n = 0 => x.stop = -1
        /\ n > 0 => x.stop \in Nat /\ x.stop - 1 \in A /\ v[n].base..(x.stop - 1) \subseteq A
        /\ \A a \in A : a < x.stop

\* B is A with n members and m starts more, all of it below e.
Grown(A, B, e, n, m) ==
    /\ B \subseteq Nat /\ IsFiniteSet(B) /\ \A a \in B : a < e
    /\ Cardinality(B) = Cardinality(A) + n
    /\ Cardinality(Starts(B)) = Cardinality(Starts(A)) + m

\* Adding an interval that begins past a set.
LEMMA AddApart ==
    ASSUME NEW A, A \subseteq Nat, IsFiniteSet(A), NEW s \in Int, \A a \in A : a < s,
           NEW b \in Nat, NEW e \in Nat, s < b, b < e
    PROVE  Grown(A, A \union b..(e - 1), e, e - b, 1)
<1> DEFINE I == b..(e - 1)
           B == A \union I
<1>1. IsFiniteSet(I) /\ Cardinality(I) = e - b
  BY FS_Interval
<1>2. A \cap I = {}
  OBVIOUS
<1>3. IsFiniteSet(B) /\ Cardinality(B) = Cardinality(A) + Cardinality(I) - Cardinality(A \cap I)
  <2> HIDE DEF I
  <2> QED BY <1>1, FS_Union
<1>4. Cardinality(A) \in Nat /\ Cardinality(A \cap I) = 0
  BY <1>2, FS_CardinalityType, FS_EmptySet
<1>5. Starts(B) = Starts(A) \union {b}
  <2>1. ASSUME NEW a \in Starts(B) PROVE a \in Starts(A) \union {b}
    <3>1. a \in B /\ a - 1 \notin B
      BY DEF Starts
    <3>2. CASE a \in A
      BY <3>1, <3>2 DEF Starts
    <3>3. CASE a \in I /\ a # b
      <4>1. a - 1 \in I
        BY <3>3
      <4> QED BY <3>1, <4>1
    <3> QED BY <3>1, <3>2, <3>3
  <2>2. ASSUME NEW a \in Starts(A) PROVE a \in Starts(B)
    <3>1. a \in A /\ a - 1 \notin A /\ a \in Nat /\ a < s
      BY DEF Starts
    <3>2. a - 1 \notin I
      BY <3>1
    <3> QED BY <3>1, <3>2 DEF Starts
  <2>3. b \in Starts(B)
    <3>1. b \in I /\ b - 1 \notin I /\ b - 1 \notin A
      OBVIOUS
    <3> QED BY <3>1 DEF Starts
  <2> QED BY <2>1, <2>2, <2>3
<1>6. IsFiniteSet(Starts(A)) /\ Cardinality(Starts(A)) \in Nat
  <2>1. Starts(A) \in SUBSET A
    BY DEF Starts
  <2> QED BY <2>1, FS_Subset, FS_CardinalityType
<1>7. b \notin Starts(A)
  BY DEF Starts
<1>8. Cardinality(Starts(B)) = Cardinality(Starts(A)) + 1
  BY <1>5, <1>6, <1>7, FS_AddElement
<1>9. B \subseteq Nat /\ \A a \in B : a < e
  OBVIOUS
<1>10. Cardinality(B) = Cardinality(A) + (e - b)
  BY <1>1, <1>3, <1>4
<1> QED BY <1>3, <1>8, <1>9, <1>10 DEF Grown

\* Adding an interval that begins where a set ends.
LEMMA AddTouching ==
    ASSUME NEW A, A \subseteq Nat, IsFiniteSet(A), NEW s \in Nat, \A a \in A : a < s, s - 1 \in A,
           NEW e \in Nat, s <= e
    PROVE  Grown(A, A \union s..(e - 1), e, e - s, 0)
<1> DEFINE I == s..(e - 1)
           B == A \union I
<1>1. IsFiniteSet(I) /\ Cardinality(I) = e - s
  BY FS_Interval
<1>2. A \cap I = {}
  OBVIOUS
<1>3. IsFiniteSet(B) /\ Cardinality(B) = Cardinality(A) + Cardinality(I) - Cardinality(A \cap I)
  <2> HIDE DEF I
  <2> QED BY <1>1, FS_Union
<1>4. Cardinality(A) \in Nat /\ Cardinality(A \cap I) = 0
  BY <1>2, FS_CardinalityType, FS_EmptySet
<1>5. Starts(B) = Starts(A)
  <2>1. ASSUME NEW a \in Starts(B) PROVE a \in Starts(A)
    <3>1. a \in B /\ a - 1 \notin B
      BY DEF Starts
    <3>2. CASE a \in A
      BY <3>1, <3>2 DEF Starts
    <3>3. CASE a \in I
      <4>1. a = s \/ a - 1 \in I
        BY <3>3
      <4> QED BY <3>1, <4>1
    <3> QED BY <3>1, <3>2, <3>3
  <2>2. ASSUME NEW a \in Starts(A) PROVE a \in Starts(B)
    <3>1. a \in A /\ a - 1 \notin A /\ a \in Nat /\ a < s
      BY DEF Starts
    <3>2. a - 1 \notin I
      BY <3>1
    <3> QED BY <3>1, <3>2 DEF Starts
  <2> QED BY <2>1, <2>2
<1>9. B \subseteq Nat /\ \A a \in B : a < e
  OBVIOUS
<1>10. Cardinality(B) = Cardinality(A) + (e - s)
  BY <1>1, <1>3, <1>4
<1>11. Cardinality(Starts(A)) \in Nat
  <2>1. Starts(A) \in SUBSET A
    BY DEF Starts
  <2> QED BY <2>1, FS_Subset, FS_CardinalityType
<1>12. Cardinality(Starts(B)) = Cardinality(Starts(A)) + 0
  BY <1>5, <1>11
<1> HIDE DEF B
<1>13. Grown(A, B, e, e - s, 0)
  BY <1>3, <1>9, <1>10, <1>12 DEF Grown
<1> QED BY <1>13 DEF B

\* One range more keeps the count.
LEMMA MergeKeeps ==
    ASSUME NEW v, NEW n \in Nat, n > 0, NEW x, Swept(v, n - 1, x),
           v[n] \in Spans, v[n].size > 0, n > 1 => v[n - 1].base <= v[n].base /\ v[n - 1].base \in Nat
    PROVE  Swept(v, n, Merge(x, v[n]))
<1> DEFINE r == v[n]
           A == Covered(v, n - 1)
           y == Merge(x, r)
           B == Covered(v, n)
           e == r.base + r.size
<1>1. /\ x \in Sweeps /\ A \subseteq Nat /\ IsFiniteSet(A) /\ \A a \in A : a < x.stop
      /\ x.bytes = Cardinality(A) /\ x.count = Cardinality(Starts(A)) /\ x.count <= n - 1
      /\ n = 1 => x.stop = -1
      /\ n > 1 => x.stop \in Nat /\ x.stop - 1 \in A /\ v[n - 1].base..(x.stop - 1) \subseteq A
  BY DEF Swept
<1>2. /\ r.base \in Nat /\ r.size \in Nat /\ r.size > 0 /\ e \in Nat /\ End(r) = e
      /\ x.bytes \in Nat /\ x.count \in Nat /\ x.stop \in Int
  BY <1>1 DEF Spans, Sweeps, End
<1>3. B = A \union r.base..(e - 1)
  <2>1. 1..n = 1..(n - 1) \union {n}
    OBVIOUS
  <2>2. Bytes(r) = r.base..(e - 1)
    BY <1>2 DEF Bytes
  <2> HIDE DEF e, r
  <2>3. Bytes(v[n]) = r.base..(e - 1)
    BY <2>2 DEF r
  <2> QED BY <2>1, <2>3 DEF Covered
<1>4. y \in Sweeps
  BY <1>1, MergeIs
<1>5. CASE r.base > x.stop
  <2>1. y.bytes = x.bytes + r.size /\ y.count = x.count + 1 /\ y.stop = e
    BY <1>1, <1>2, <1>5, MergeIs
  <2>2. /\ B \subseteq Nat /\ IsFiniteSet(B) /\ \A a \in B : a < e
        /\ Cardinality(B) = Cardinality(A) + (e - r.base)
        /\ Cardinality(Starts(B)) = Cardinality(Starts(A)) + 1
    <3> DEFINE b == r.base
               s == x.stop
               C == A \union b..(e - 1)
    <3>1. b \in Nat /\ e \in Nat /\ s \in Int /\ s < b /\ b < e
      BY <1>2, <1>5
    <3>2. A \subseteq Nat /\ IsFiniteSet(A) /\ \A a \in A : a < s
      BY <1>1
    <3> HIDE DEF A, b, e, s
    <3>3. Grown(A, C, e, e - b, 1)
      BY <3>1, <3>2, AddApart
    <3>4. B = C
      BY <1>3 DEF b
    <3> HIDE DEF B, C
    <3> QED BY <3>3, <3>4 DEF b, Grown
  <2>3. e - 1 \in B /\ r.base..(e - 1) \subseteq B
    BY <1>2, <1>3
  <2> HIDE DEF A, B, y, r
  <2>4. y.bytes = Cardinality(B) /\ y.count = Cardinality(Starts(B)) /\ y.count <= n
    <3>1. e - r.base = r.size
      BY <1>2
    <3> QED BY <1>1, <1>2, <2>1, <2>2, <3>1
  <2>5. Swept(v, n, y)
    BY <1>2, <1>4, <2>1, <2>2, <2>3, <2>4 DEF Swept, B, r
  <2> QED BY <2>5 DEF y, r
<1>6. CASE ~(r.base > x.stop)
  <2> DEFINE s == x.stop
             t == IF s <= e THEN e ELSE s
  <2>1. /\ n > 1 /\ s \in Nat /\ s - 1 \in A /\ v[n - 1].base..(s - 1) \subseteq A
        /\ v[n - 1].base <= r.base /\ v[n - 1].base \in Nat
    BY <1>1, <1>2, <1>6
  <2>2. y.bytes = x.bytes + (t - s) /\ y.count = x.count /\ y.stop = t
    BY <1>1, <1>2, <1>6, MergeIs
  <2>3. t \in Nat /\ s <= t /\ e <= t
    BY <1>2, <2>1
  <2>4. B = A \union s..(t - 1)
    <3>1. ASSUME NEW a \in r.base..(e - 1) PROVE a \in A \/ a \in s..(t - 1)
      <4>1. a < s => a \in v[n - 1].base..(s - 1)
        BY <1>2, <2>1
      <4>2. ~(a < s) => a \in s..(t - 1)
        BY <1>2, <2>1, <2>3
      <4> QED BY <2>1, <4>1, <4>2
    <3>2. ASSUME NEW a \in s..(t - 1) PROVE a \in r.base..(e - 1)
      BY <1>2, <1>6, <2>1
    <3> HIDE DEF A, B
    <3> QED BY <1>3, <3>1, <3>2
  <2>5. /\ B \subseteq Nat /\ IsFiniteSet(B) /\ \A a \in B : a < t
        /\ Cardinality(B) = Cardinality(A) + (t - s)
        /\ Cardinality(Starts(B)) = Cardinality(Starts(A))
    <3> DEFINE C == A \union s..(t - 1)
    <3>1. A \subseteq Nat /\ IsFiniteSet(A) /\ \A a \in A : a < s
      BY <1>1
    <3> HIDE DEF A, t, s
    <3>2. Grown(A, C, t, t - s, 0)
      BY <2>1, <2>3, <3>1, AddTouching
    <3>3. B = C
      BY <2>4
    <3> HIDE DEF B, C
    <3>4. Cardinality(Starts(A)) \in Nat
      BY <1>1, <1>2
    <3> QED BY <3>2, <3>3, <3>4 DEF Grown
  <2>6. t - 1 \in B /\ r.base..(t - 1) \subseteq B
    <3>1. \A a \in r.base..(t - 1) : a \in v[n - 1].base..(s - 1) \/ a \in s..(t - 1)
      BY <1>2, <2>1, <2>3
    <3>2. t - 1 \in r.base..(t - 1)
      BY <1>2, <2>3
    <3> HIDE DEF A, B, t
    <3> QED BY <2>1, <2>4, <3>1, <3>2
  <2> HIDE DEF A, B, y, r, t
  <2>7. y.bytes = Cardinality(B) /\ y.count = Cardinality(Starts(B)) /\ y.count <= n
    BY <1>1, <1>2, <2>2, <2>5
  <2>8. Swept(v, n, y)
    BY <1>4, <2>1, <2>2, <2>3, <2>5, <2>6, <2>7 DEF Swept, B, r
  <2> QED BY <2>8 DEF y, r
<1> QED BY <1>5, <1>6

\* _union_length counts the addresses the ranges cover, and the runs they form.
LEMMA UnionIs ==
    ASSUME NEW ranges \in Seq(Spans)
    PROVE  LET U == UNION {Bytes(ranges[i]) : i \in DOMAIN ranges}
               m == UnionLength(ranges)
           IN  /\ m.bytes = Cardinality(U) /\ m.count = Cardinality(Starts(U))
               /\ m.bytes \in Nat /\ m.count \in Nat /\ m.count <= Len(ranges)
<1> DEFINE v == SweepList(ranges)
           N == Len(v)
           K == Extents(ranges)
           U == UNION {Bytes(ranges[i]) : i \in DOMAIN ranges}
<1>1. PICK w : IsSweep(w, ranges)
  BY SweepDefined
<1>2. /\ N \in Nat /\ N <= Len(ranges) /\ v \in Seq(Spans)
      /\ \A n \in 1..N : v[n] \in {ranges[i] : i \in K}
      /\ \A i \in K : \E n \in 1..N : v[n] = ranges[i]
      /\ \A m, n \in 1..N : m < n => v[m].base <= v[n].base
  BY SweepSorted
<1>3. \A n \in 1..N : v[n] \in Spans /\ v[n].base \in Nat /\ v[n].size > 0
  <2>1. \A n \in 1..N : v[n] \in Spans
    BY <1>2
  <2>2. \A i \in K : ranges[i].size > 0
    BY DEF Extents
  <2> HIDE DEF K, N, v
  <2> QED BY <1>2, <2>1, <2>2 DEF Spans
<1> HIDE DEF v, N
<1>6. Swept(v, N, w[N])
  <2> DEFINE S == {n \in Nat : n <= N => Swept(v, n, w[n])}
  <2>1. 0 \in S
    <3>1. Covered(v, 0) = {} /\ Starts({}) = {}
      BY DEF Covered, Starts
    <3>2. /\ w[0] \in Sweeps /\ w[0].bytes = 0 /\ w[0].count = 0 /\ w[0].stop = -1
      BY <1>1 DEF IsSweep, NoSweep, Sweeps
    <3>3. IsFiniteSet({}) /\ Cardinality({}) = 0
      BY FS_EmptySet
    <3> DEFINE x == w[0]
               A == Covered(v, 0)
    <3>4. /\ x \in Sweeps /\ A \subseteq Nat /\ IsFiniteSet(A) /\ x.bytes = Cardinality(A)
          /\ x.count = Cardinality(Starts(A)) /\ x.count <= 0 /\ x.stop = -1
          /\ ~(0 > 0) /\ \A a \in A : a < x.stop
      <4>1. A = {} /\ Starts(A) = {}
        BY <3>1
      <4>2. Cardinality(A) = 0 /\ Cardinality(Starts(A)) = 0 /\ IsFiniteSet(A)
        BY <3>3, <4>1
      <4> HIDE DEF A, x
      <4>3. x \in Sweeps /\ x.bytes = 0 /\ x.count = 0 /\ x.stop = -1
        BY <3>2 DEF x
      <4> QED BY <4>1, <4>2, <4>3
    <3> HIDE DEF x, A
    <3>5. Swept(v, 0, x)
      BY <3>4 DEF Swept, A
    <3> QED BY <3>5 DEF x
  <2>2. ASSUME NEW n \in Nat, n \in S PROVE n + 1 \in S
    <3> SUFFICES ASSUME n + 1 <= N PROVE Swept(v, n + 1, w[n + 1])
      OBVIOUS
    <3>1. /\ n + 1 \in 1..N /\ n + 1 \in Nat /\ n + 1 > 0 /\ (n + 1) - 1 = n /\ n <= N
          /\ n + 1 > 1 => n \in 1..N /\ n < n + 1
      BY <1>2
    <3>2. Swept(v, n, w[n])
      BY <2>2, <3>1
    <3>3. w[n + 1] = Merge(w[n], v[n + 1])
      BY <1>1, <3>1 DEF IsSweep, N, v
    <3>4. n + 1 > 1 => v[n].base <= v[n + 1].base /\ v[n].base \in Nat
      BY <1>2, <1>3, <3>1
    <3>5. Swept(v, n + 1, Merge(w[n], v[n + 1]))
      <4>1. v[n + 1] \in Spans /\ v[n + 1].size > 0
        BY <1>3, <3>1
      <4> QED BY <3>1, <3>2, <3>4, <4>1, MergeKeeps
    <3> QED BY <3>3, <3>5
  <2> HIDE DEF S
  <2>3. \A n \in Nat : n \in S
    BY <2>1, <2>2, SetInduction
  <2> QED BY <1>2, <2>3 DEF S
<1>7. Covered(v, N) = U
  <2>1. ASSUME NEW i \in DOMAIN ranges, i \notin K PROVE Bytes(ranges[i]) = {}
    <3>1. ranges[i].base \in Nat /\ ranges[i].size \in Nat /\ ~(ranges[i].size > 0)
      <4>1. ranges[i] \in Spans
        OBVIOUS
      <4> QED BY <2>1, <4>1 DEF Extents, Spans
    <3> QED BY <3>1 DEF Bytes, End
  <2>2. ASSUME NEW a \in U PROVE a \in Covered(v, N)
    <3>1. PICK i \in DOMAIN ranges : a \in Bytes(ranges[i])
      OBVIOUS
    <3>2. i \in K
      BY <2>1, <3>1
    <3>3. PICK n \in 1..N : v[n] = ranges[i]
      BY <1>2, <3>2
    <3> QED BY <3>1, <3>3 DEF Covered
  <2>3. ASSUME NEW a \in Covered(v, N) PROVE a \in U
    <3>1. PICK n \in 1..N : a \in Bytes(v[n])
      BY DEF Covered
    <3>2. PICK i \in K : v[n] = ranges[i]
      BY <1>2
    <3>3. i \in DOMAIN ranges
      BY DEF Extents
    <3> QED BY <3>1, <3>2, <3>3
  <2> HIDE DEF U
  <2> QED BY <2>2, <2>3
<1>8. UnionLength(ranges) = w[N]
  BY <1>1 DEF IsSweep, N, v
<1>9. Len(ranges) \in Nat
  OBVIOUS
<1> HIDE DEF U
<1>10. LET m == UnionLength(ranges)
       IN  /\ m \in Sweeps /\ m.bytes = Cardinality(U) /\ m.count = Cardinality(Starts(U))
           /\ m.count <= N
  BY <1>6, <1>7, <1>8 DEF Swept
<1> QED BY <1>2, <1>9, <1>10 DEF U, Sweeps

(* summarize_missed_bytes. *)

\* What a target and a limitation are made of.
TargetSound(t) == t.range \in Spans /\ t.captured \in Nat /\ t.examined \in {Unmeasured} \union 0..t.captured
LimitationSound(l) ==
    List(l.targets) /\ l.count \in Nat /\ \A t \in ToSet(l.targets) : TargetSound(t)

Counting(l) == MemoryGapKind(l.code) # ""
Measured(l) == Itemized(l) /\ \A t \in ToSet(l.targets) : UnexaminedBytes(t) # Unmeasured

\* The targets some limitations itemize and measure.
TargetsOf(ls) == {t \in UNION {ToSet(l.targets) : l \in {x \in ls : Itemized(x)}} :
                     UnexaminedBytes(t) # Unmeasured}
MissedBy(ls) == UNION {Bytes(UnexaminedRange(t)) : t \in TargetsOf(ls)}

\* What a target leaves unexamined is a range.
LEMMA UnexaminedIs ==
    ASSUME NEW t, TargetSound(t), UnexaminedBytes(t) # Unmeasured
    PROVE  UnexaminedRange(t) \in Spans
<1>1. /\ t.range.base \in Nat /\ t.captured \in Nat /\ t.examined \in {Unmeasured} \union 0..t.captured
  BY DEF TargetSound, Spans
<1>2. UnexaminedBytes(t) \in 0..t.captured
  BY <1>1 DEF UnexaminedBytes
<1> DEFINE n == UnexaminedBytes(t)
<1>3. t.range.base + (t.captured - n) \in Nat /\ n \in Nat
  <2> HIDE DEF n
  <2> QED BY <1>1, <1>2 DEF n
<1> HIDE DEF n
<1> QED BY <1>3 DEF UnexaminedRange, VirtualRange, Spans, n

\* A total is nothing exactly when each entry is.
LEMMA TotalZero ==
    ASSUME NEW sizes \in Seq(Nat)
    PROVE  /\ Total(sizes, Len(sizes)) \in Nat
           /\ Total(sizes, Len(sizes)) = 0 <=> \A i \in 1..Len(sizes) : sizes[i] = 0
<1> DEFINE N == Len(sizes)
           T(n) == Total(sizes, n)
<1>1. /\ N \in Nat /\ T(0) = 0 /\ \A n \in 0..N : T(n) \in Nat
      /\ \A n \in 1..N : T(n) = T(n - 1) + sizes[n] /\ sizes[n] \in Nat
  BY TotalDefined
<1>2. ASSUME NEW i \in 1..N PROVE T(i) <= T(N)
  <2>1. i \in 0..N /\ N \in 0..N /\ i <= N
    BY <1>1
  <2> QED BY <2>1, TotalGrows
<1> HIDE DEF N, T
<1>3. ASSUME T(N) = 0, NEW i \in 1..N PROVE sizes[i] = 0
  <2>1. i - 1 \in 0..N /\ i \in 0..N
    BY <1>1
  <2>2. T(i) <= 0 /\ T(i) = T(i - 1) + sizes[i] /\ T(i - 1) \in Nat /\ T(i) \in Nat /\ sizes[i] \in Nat
    BY <1>1, <1>2, <1>3, <2>1
  <2> QED BY <2>2
<1>4. ASSUME \A i \in 1..N : sizes[i] = 0 PROVE T(N) = 0
  <2> DEFINE S == {n \in Nat : n <= N => T(n) = 0}
  <2>1. 0 \in S
    BY <1>1
  <2>2. ASSUME NEW n \in Nat, n \in S PROVE n + 1 \in S
    <3> SUFFICES ASSUME n + 1 <= N PROVE T(n + 1) = 0
      OBVIOUS
    <3>1. n + 1 \in 1..N /\ (n + 1) - 1 = n /\ T(n) = 0
      BY <1>1, <2>2
    <3> QED BY <1>1, <1>4, <3>1
  <2> HIDE DEF S
  <2>3. \A n \in Nat : n \in S
    BY <2>1, <2>2, SetInduction
  <2> QED BY <1>1, <2>3 DEF S
<1>5. N \in 0..N
  BY <1>1
<1> QED BY <1>1, <1>3, <1>4, <1>5 DEF N, T

\* The pieces summarize_missed_bytes works with.
CountingOf(ls) == Filtered(ls, LAMBDA l : MemoryGapKind(l.code) # "")
ItemizedOf(ls) == Filtered(CountingOf(ls), Itemized)
PairsOf(ls, scopes) ==
    FlattenSeq([i \in DOMAIN ItemizedOf(ls) |->
        [j \in DOMAIN ItemizedOf(ls)[i].targets |->
           [pass |-> PassKey(ItemizedOf(ls)[i], scopes), target |-> ItemizedOf(ls)[i].targets[j]]]])
QuantifiedOf(ls, scopes) ==
    Filtered(PairsOf(ls, scopes), LAMBDA x : UnexaminedBytes(x.target) # Unmeasured)
RangesOf(xs) == [i \in DOMAIN xs |-> UnexaminedRange(xs[i].target)]
UncountedOf(ls) == [i \in DOMAIN CountingOf(ls) |->
                      IF Itemized(CountingOf(ls)[i]) THEN 0 ELSE GapCount(CountingOf(ls)[i])]

\* A filter lists what passes it.
LEMMA CountingIs ==
    ASSUME NEW ls, List(ls)
    PROVE  /\ List(CountingOf(ls)) /\ ToSet(CountingOf(ls)) = {l \in ToSet(ls) : Counting(l)}
           /\ List(ItemizedOf(ls)) /\ ToSet(ItemizedOf(ls)) = {l \in ToSet(ls) : Itemized(l)}
<1> DEFINE c == CountingOf(ls)
           K == {i \in DOMAIN ls : MemoryGapKind(ls[i].code) # ""}
           J == {i \in DOMAIN c : Itemized(c[i])}
<1>1. List(c) /\ ToSet(c) = {ls[i] : i \in K}
  <2>1. c = Picked(ls, K) /\ K \in SUBSET DOMAIN ls
    BY DEF CountingOf, Filtered
  <2> HIDE DEF K, c
  <2> QED BY <2>1, PickedIs
<1>2. ToSet(c) = {l \in ToSet(ls) : Counting(l)}
  <2>1. {ls[i] : i \in K} = {l \in ToSet(ls) : Counting(l)}
    BY DEF ToSet, Counting
  <2> HIDE DEF K, c
  <2> QED BY <1>1, <2>1
<1> HIDE DEF c
<1>3. List(ItemizedOf(ls)) /\ ToSet(ItemizedOf(ls)) = {c[i] : i \in J}
  <2>1. ItemizedOf(ls) = Picked(c, J) /\ J \in SUBSET DOMAIN c
    BY DEF ItemizedOf, Filtered, c
  <2>2. List(c)
    BY <1>1
  <2> HIDE DEF J, K
  <2> QED BY <2>1, <2>2, PickedIs
<1>4. {c[i] : i \in J} = {l \in ToSet(c) : Itemized(l)}
  BY DEF ToSet
<1>5. \A l : Itemized(l) => Counting(l)
  BY DEF Itemized, Counting
<1> QED BY <1>1, <1>2, <1>3, <1>4, <1>5 DEF c

\* The itemized targets, each with the pass it counts for.
LEMMA PairsAre ==
    ASSUME NEW ls, List(ls), \A l \in ToSet(ls) : LimitationSound(l), NEW scopes
    PROVE  LET ps == PairsOf(ls, scopes)
               named == UNION {ToSet(l.targets) : l \in {x \in ToSet(ls) : Itemized(x)}}
           IN  /\ List(ps) /\ {x.target : x \in ToSet(ps)} = named
               /\ \A x \in ToSet(ps) : TargetSound(x.target)
<1> DEFINE it == ItemizedOf(ls)
           n == Len(it)
           pair(i, j) == [pass |-> PassKey(it[i], scopes), target |-> it[i].targets[j]]
           row(i) == [j \in DOMAIN it[i].targets |-> pair(i, j)]
           ss == [i \in 1..n |-> row(i)]
           ps == PairsOf(ls, scopes)
           named == UNION {ToSet(l.targets) : l \in {x \in ToSet(ls) : Itemized(x)}}
<1>1. List(it) /\ ToSet(it) = {l \in ToSet(ls) : Itemized(l)}
  BY CountingIs
<1>2. n \in Nat /\ DOMAIN it = 1..n
  BY <1>1, ListParts
<1>3. ps = FlattenSeq(ss)
  BY <1>2 DEF PairsOf
<1> HIDE DEF it, n
<1>4. ASSUME NEW i \in 1..n
      PROVE  /\ List(row(i)) /\ ToSet(row(i)) = {pair(i, j) : j \in DOMAIN it[i].targets}
             /\ it[i] \in ToSet(it) /\ LimitationSound(it[i])
  <2>1. it[i] \in ToSet(it) /\ LimitationSound(it[i])
    BY <1>1, <1>2 DEF ToSet
  <2>2. Len(it[i].targets) \in Nat /\ DOMAIN it[i].targets = 1..Len(it[i].targets)
    BY <2>1, ListParts DEF LimitationSound
  <2> DEFINE m == Len(it[i].targets)
             f == row(i)
  <2>3. f = [j \in 1..m |-> f[j]] /\ {f[j] : j \in 1..m} = {pair(i, j) : j \in DOMAIN it[i].targets}
    <3>1. \A j \in 1..m : f[j] = pair(i, j)
      BY <2>2
    <3>2. f = [j \in 1..m |-> f[j]]
      BY <2>2
    <3> HIDE DEF f, pair
    <3> QED BY <2>2, <3>1, <3>2
  <2> HIDE DEF f, m
  <2>4. List(f) /\ ToSet(f) = {f[j] : j \in 1..m}
    BY <2>2, <2>3, ListIs DEF m
  <2> QED BY <2>1, <2>3, <2>4 DEF f
<1>5. ss = [i \in 1..n |-> ss[i]] /\ \A i \in 1..n : ss[i] = row(i)
  OBVIOUS
<1> HIDE DEF ss, row, ps, pair
<1>6. List(ps) /\ ToSet(ps) = UNION {ToSet(ss[i]) : i \in 1..n}
  <2>1. \A i \in 1..n : List(ss[i])
    BY <1>4, <1>5
  <2> QED BY <1>2, <1>3, <1>5, <2>1, Flattened
<1>7. ASSUME NEW x \in ToSet(ps)
      PROVE  \E i \in 1..n : \E j \in DOMAIN it[i].targets : x = pair(i, j)
  <2>1. PICK i \in 1..n : x \in ToSet(ss[i])
    BY <1>6
  <2> QED BY <1>4, <1>5, <2>1
<1>8. ASSUME NEW i \in 1..n, NEW j \in DOMAIN it[i].targets
      PROVE  /\ pair(i, j) \in ToSet(ps) /\ pair(i, j).target = it[i].targets[j]
             /\ it[i].targets[j] \in ToSet(it[i].targets) /\ TargetSound(it[i].targets[j])
  <2>1. pair(i, j) \in ToSet(ss[i])
    BY <1>4, <1>5
  <2>2. it[i].targets[j] \in ToSet(it[i].targets)
    BY DEF ToSet
  <2> QED BY <1>4, <1>6, <2>1, <2>2 DEF pair, LimitationSound
<1>9. \A x \in ToSet(ps) : TargetSound(x.target) /\ x.target \in named
  <2> SUFFICES ASSUME NEW x \in ToSet(ps) PROVE TargetSound(x.target) /\ x.target \in named
    OBVIOUS
  <2>1. PICK i \in 1..n : \E j \in DOMAIN it[i].targets : x = pair(i, j)
    BY <1>7
  <2>2. PICK j \in DOMAIN it[i].targets : x = pair(i, j)
    BY <2>1
  <2>3. it[i] \in {l \in ToSet(ls) : Itemized(l)}
    BY <1>1, <1>4
  <2> QED BY <1>8, <2>2, <2>3
<1>10. ASSUME NEW t \in named PROVE \E x \in ToSet(ps) : x.target = t
  <2>1. PICK l \in ToSet(it) : t \in ToSet(l.targets)
    BY <1>1
  <2>2. PICK i \in 1..n : l = it[i]
    BY <1>2, <2>1 DEF ToSet
  <2>3. PICK j \in DOMAIN it[i].targets : t = it[i].targets[j]
    BY <2>1, <2>2 DEF ToSet
  <2> QED BY <1>8, <2>3
<1> HIDE DEF named
<1>11. {x.target : x \in ToSet(ps)} = named
  BY <1>9, <1>10
<1> QED BY <1>6, <1>9, <1>11 DEF ps, named

UndoneBy(xs, passes) == MapThenSumSet(
    LAMBDA q : UnionLength(RangesOf(Filtered(xs, LAMBDA x : x.pass = q))).bytes, passes)

\* No pass, no work undone.
LEMMA SumOfNone == ASSUME NEW xs PROVE UndoneBy(xs, {}) = 0
<1> DEFINE op(q) == UnionLength(RangesOf(Filtered(xs, LAMBDA x : x.pass = q))).bytes
           pick(s) == CHOOSE x \in s : TRUE
           Is(f) == f = [s \in SUBSET {} |-> IF s = {} THEN 0 ELSE op(pick(s)) + f[s \ {pick(s)}]]
           sum == CHOOSE f : Is(f)
           none == [s \in SUBSET {} |-> 0]
<1>1. UndoneBy(xs, {}) = sum[{}]
  BY DEF UndoneBy, MapThenSumSet, MapThenFoldSet
<1>2. \A s \in SUBSET {} : s = {}
  OBVIOUS
<1> HIDE DEF op
<1>3. Is(none)
  BY <1>2
<1>4. Is(sum)
  <2> HIDE DEF Is
  <2> QED BY <1>3
<1> HIDE DEF sum
<1>5. sum[{}] = 0
  BY <1>4
<1> QED BY <1>1, <1>5

\* The report's figure, from the address sets of the itemized targets.
LEMMA MissedIs ==
    ASSUME NEW ls, List(ls), \A l \in ToSet(ls) : LimitationSound(l), NEW scale, NEW scopes
    PROVE  LET m == SummarizeMissedBytes(ls, scale, scopes)
               U == MissedBy(ToSet(ls))
           IN  /\ m.known = Cardinality(U) /\ m.distinct = Cardinality(Starts(U))
               /\ m.distinct <= m.quantified /\ (m.undone > 0 => m.quantified > 0)
               /\ m.unquantified = 0 <=> \A l \in ToSet(ls) : Counting(l) => Measured(l)
               /\ scale = NoScale => m.eligible = NoScale
<1> DEFINE ps == PairsOf(ls, scopes)
           qs == QuantifiedOf(ls, scopes)
           rs == RangesOf(qs)
           whole == UnionLength(rs)
           perPass == UndoneBy(qs, {x.pass : x \in ToSet(qs)})
           rest == Total(UncountedOf(ls), Len(CountingOf(ls)))
           m == SummarizeMissedBytes(ls, scale, scopes)
           U == MissedBy(ToSet(ls))
           K == {i \in DOMAIN ps : UnexaminedBytes(ps[i].target) # Unmeasured}
<1>1. m = [known |-> whole.bytes, distinct |-> whole.count, quantified |-> Len(qs),
           unquantified |-> Len(ps) - Len(qs) + rest,
           undone |-> perPass, eligible |-> IF perPass > scale THEN NoScale ELSE scale]
  BY DEF SummarizeMissedBytes, PairsOf, QuantifiedOf, RangesOf, CountingOf, ItemizedOf, UncountedOf,
         UndoneBy
<1>2. /\ List(ps) /\ \A x \in ToSet(ps) : TargetSound(x.target)
      /\ {x.target : x \in ToSet(ps)}
           = UNION {ToSet(l.targets) : l \in {x \in ToSet(ls) : Itemized(x)}}
  BY PairsAre
<1>3. qs = Picked(ps, K) /\ K \in SUBSET DOMAIN ps
  BY DEF QuantifiedOf, Filtered
<1> HIDE DEF m, ps, qs, perPass, rest, K
<1>4. /\ List(qs) /\ ToSet(qs) = {ps[i] : i \in K} /\ Len(qs) = Cardinality(K) /\ IsFiniteSet(K)
      /\ qs = <<>> <=> K = {}
  BY <1>2, <1>3, PickedIs
<1>5. ToSet(qs) = {x \in ToSet(ps) : UnexaminedBytes(x.target) # Unmeasured}
  BY <1>4 DEF K, ToSet
<1>6. /\ Len(ps) \in Nat /\ DOMAIN ps = 1..Len(ps) /\ Len(qs) \in Nat /\ DOMAIN qs = 1..Len(qs)
      /\ qs = <<>> <=> Len(qs) = 0
      /\ qs = <<>> <=> ToSet(qs) = {}
  BY <1>2, <1>4, ListParts
<1>7. rs \in Seq(Spans) /\ Len(rs) = Len(qs) /\ DOMAIN rs = DOMAIN qs
      /\ \A i \in DOMAIN qs : rs[i] = UnexaminedRange(qs[i].target)
  <2>1. ASSUME NEW i \in DOMAIN qs PROVE UnexaminedRange(qs[i].target) \in Spans
    <3>1. qs[i] \in ToSet(qs)
      BY DEF ToSet
    <3> QED BY <1>2, <1>5, <3>1, UnexaminedIs
  <2>2. rs \in [1..Len(qs) -> Spans]
    BY <1>6, <2>1 DEF RangesOf
  <2>3. rs \in Seq(Spans) /\ Len(rs) = Len(qs)
    <3> HIDE DEF rs
    <3> QED BY <1>6, <2>2, FunctionIsList
  <2> QED BY <2>3 DEF RangesOf
<1> HIDE DEF rs
<1>8. UNION {Bytes(rs[i]) : i \in DOMAIN rs} = U
  <2>1. U = UNION {Bytes(UnexaminedRange(x.target)) : x \in ToSet(qs)}
    <3>1. TargetsOf(ToSet(ls)) = {x.target : x \in ToSet(qs)}
      BY <1>2, <1>5 DEF TargetsOf
    <3> QED BY <3>1 DEF MissedBy
  <2>2. ASSUME NEW a \in U PROVE \E i \in DOMAIN rs : a \in Bytes(rs[i])
    <3>1. PICK x \in ToSet(qs) : a \in Bytes(UnexaminedRange(x.target))
      BY <2>1
    <3>2. PICK i \in DOMAIN qs : qs[i] = x
      BY DEF ToSet
    <3> QED BY <1>7, <3>1, <3>2
  <2>3. ASSUME NEW i \in DOMAIN rs, NEW a \in Bytes(rs[i]) PROVE a \in U
    <3>1. qs[i] \in ToSet(qs) /\ rs[i] = UnexaminedRange(qs[i].target)
      BY <1>7 DEF ToSet
    <3> QED BY <2>1, <2>3, <3>1
  <2> HIDE DEF U
  <2> QED BY <2>2, <2>3
<1> HIDE DEF U
<1>9. /\ whole.bytes = Cardinality(U) /\ whole.count = Cardinality(Starts(U))
      /\ whole.count \in Nat /\ whole.count <= Len(qs)
  BY <1>7, <1>8, UnionIs
<1> HIDE DEF whole
<1>10. perPass > 0 => Len(qs) > 0
  <2>1. CASE qs # <<>>
    BY <1>6, <2>1
  <2>2. CASE qs = <<>>
    <3>1. {x.pass : x \in ToSet(qs)} = {}
      BY <1>6, <2>2
    <3>2. perPass = 0
      BY <3>1, SumOfNone DEF perPass
    <3> QED BY <3>2
  <2> QED BY <2>1, <2>2
<1>11. Len(ps) - Len(qs) \in Nat /\ (Len(ps) - Len(qs) = 0 <=> K = DOMAIN ps)
  <2>1. IsFiniteSet(DOMAIN ps) /\ Cardinality(DOMAIN ps) = Len(ps)
    BY <1>6, CountedTo
  <2>2. Cardinality(K) <= Len(ps) /\ (Cardinality(K) = Len(ps) => K = DOMAIN ps)
    BY <1>3, <2>1, FS_Subset
  <2>3. K = DOMAIN ps => Cardinality(K) = Len(ps)
    BY <2>1
  <2> QED BY <1>4, <1>6, <2>2, <2>3
<1>12. K = DOMAIN ps <=> \A l \in ToSet(ls) : Itemized(l) => Measured(l)
  <2>1. K = DOMAIN ps <=> \A x \in ToSet(ps) : UnexaminedBytes(x.target) # Unmeasured
    BY DEF K, ToSet
  <2>2. (\A x \in ToSet(ps) : UnexaminedBytes(x.target) # Unmeasured)
          <=> \A t \in {x.target : x \in ToSet(ps)} : UnexaminedBytes(t) # Unmeasured
    OBVIOUS
  <2>3. (\A t \in UNION {ToSet(l.targets) : l \in {x \in ToSet(ls) : Itemized(x)}} :
            UnexaminedBytes(t) # Unmeasured)
          <=> \A l \in ToSet(ls) : Itemized(l) => \A t \in ToSet(l.targets) : UnexaminedBytes(t) # Unmeasured
    OBVIOUS
  <2> QED BY <1>2, <2>1, <2>2, <2>3 DEF Measured
<1>13. rest \in Nat /\ (rest = 0 <=> \A l \in ToSet(ls) : Counting(l) => Itemized(l))
  <2> DEFINE c == CountingOf(ls)
             f == UncountedOf(ls)
  <2>1. List(c) /\ ToSet(c) = {l \in ToSet(ls) : Counting(l)}
    BY CountingIs
  <2>2. Len(c) \in Nat /\ DOMAIN c = 1..Len(c)
    BY <2>1, ListParts
  <2>3. ASSUME NEW i \in 1..Len(c)
        PROVE  /\ f[i] = IF Itemized(c[i]) THEN 0 ELSE GapCount(c[i])
               /\ GapCount(c[i]) \in Nat \ {0} /\ c[i] \in ToSet(c)
    <3>1. c[i] \in ToSet(c)
      BY <2>2 DEF ToSet
    <3>2. c[i].count \in Nat
      BY <2>1, <3>1 DEF LimitationSound
    <3> QED BY <2>2, <3>1, <3>2 DEF UncountedOf, GapCount
  <2>4. f \in Seq(Nat) /\ Len(f) = Len(c)
    <3>1. f \in [1..Len(c) -> Nat]
      <4>1. DOMAIN f = 1..Len(c) /\ f = [i \in DOMAIN f |-> f[i]]
        BY <2>2 DEF UncountedOf
      <4> HIDE DEF f, c
      <4> QED BY <2>3, <4>1
    <3> HIDE DEF f, c
    <3> QED BY <2>2, <3>1, FunctionIsList
  <2> HIDE DEF f, c
  <2>5. rest = Total(f, Len(f))
    BY <2>4 DEF rest, f, c
  <2>6. rest \in Nat /\ (rest = 0 <=> \A i \in 1..Len(c) : f[i] = 0)
    BY <2>4, <2>5, TotalZero
  <2>7. (\A i \in 1..Len(c) : f[i] = 0) <=> \A i \in 1..Len(c) : Itemized(c[i])
    BY <2>3
  <2>8. (\A i \in 1..Len(c) : Itemized(c[i])) <=> \A l \in ToSet(c) : Itemized(l)
    BY <2>2 DEF ToSet
  <2> QED BY <2>1, <2>6, <2>7, <2>8
<1>14. m.unquantified = 0 <=> \A l \in ToSet(ls) : Counting(l) => Measured(l)
  <2>1. m.unquantified = Len(ps) - Len(qs) + rest
    BY <1>1
  <2>2. m.unquantified = 0 <=> Len(ps) - Len(qs) = 0 /\ rest = 0
    <3> DEFINE d == Len(ps) - Len(qs)
    <3>1. d \in Nat /\ m.unquantified = d + rest
      BY <1>11, <2>1
    <3> HIDE DEF d
    <3>2. m.unquantified = 0 <=> d = 0 /\ rest = 0
      BY <1>13, <3>1
    <3> QED BY <3>2 DEF d
  <2>3. \A l : (Itemized(l) => Counting(l)) /\ (Measured(l) => Itemized(l))
    BY DEF Itemized, Counting, Measured
  <2> QED BY <1>11, <1>12, <1>13, <2>2, <2>3
<1>15. m.known = whole.bytes /\ m.distinct = whole.count /\ m.quantified = Len(qs) /\ m.undone = perPass
  BY <1>1
<1>16. scale = NoScale => m.eligible = NoScale
  BY <1>1
<1> QED BY <1>9, <1>10, <1>14, <1>15, <1>16 DEF m, U

(* build_coverage_report. *)

\* A completeness check leaves a list of limitations.
LEMMA DerivedIsList == ASSUME NEW sources, NEW check PROVE List(DeriveLimitation(sources, check))
  BY ShortLists DEF DeriveLimitation

\* Every source of the group is absent.
Silent(sources, group) == \A n \in DOMAIN group.members : sources[group.members[n]] = "absent"

\* A report is not evaluated when one group of sources is all absent, and complete when
\* no group is and no check leaves a limitation.
LEMMA ReportStatus ==
    ASSUME NEW sources, NEW groups, List(groups), NEW checks, List(checks), NEW scale, NEW scopes
    PROVE  LET report == BuildCoverageReport(sources, groups, checks, scale, scopes)
           IN  /\ report.status \in {"not_evaluated", "partial", "complete"}
               /\ report.status = "not_evaluated" <=> \E g \in ToSet(groups) : Silent(sources, g)
               /\ report.status = "complete" <=>
                     /\ \A g \in ToSet(groups) : ~Silent(sources, g)
                     /\ \A c \in ToSet(checks) : DeriveLimitation(sources, c) = <<>>
<1> DEFINE K == {i \in DOMAIN groups :
                   \A n \in DOMAIN groups[i].members : sources[groups[i].members[n]] = "absent"}
           silent == Picked(groups, K)
           failing == Filtered(checks, LAMBDA c : c.requires # "" /\ sources[c.requires] = "failed")
           kept == IF silent # <<>> THEN failing ELSE checks
           absent == [i \in DOMAIN silent |-> Counted(silent[i].code, silent[i].members[1], "dump", 0)]
           derived == [i \in DOMAIN kept |-> DeriveLimitation(sources, kept[i])]
           found == absent \o FlattenSeq(derived)
           report == BuildCoverageReport(sources, groups, checks, scale, scopes)
<1>1. report.status = IF silent # <<>> THEN "not_evaluated"
                      ELSE IF found # <<>> THEN "partial" ELSE "complete"
  BY DEF BuildCoverageReport
<1>2. silent # <<>> <=> \E g \in ToSet(groups) : Silent(sources, g)
  <2>1. silent = <<>> <=> K = {}
    BY PickedIs
  <2> QED BY <2>1 DEF Silent, ToSet
<1>3. ASSUME silent = <<>> PROVE found = <<>> <=> \A c \in ToSet(checks) : DeriveLimitation(sources, c) = <<>>
  <2>1. Len(checks) \in Nat /\ DOMAIN checks = 1..Len(checks)
    BY ListParts
  <2>2. derived = [i \in 1..Len(checks) |-> DeriveLimitation(sources, checks[i])]
    BY <1>3, <2>1
  <2> HIDE DEF silent
  <2>3. absent = <<>>
    BY <1>3
  <2> HIDE DEF absent, derived
  <2>4. /\ \A i \in 1..Len(checks) : derived[i] = DeriveLimitation(sources, checks[i])
        /\ derived = [i \in 1..Len(checks) |-> derived[i]]
    BY <2>2
  <2>5. \A i \in 1..Len(checks) : List(derived[i])
    BY <2>4, DerivedIsList
  <2>6. /\ List(FlattenSeq(derived))
        /\ ToSet(FlattenSeq(derived)) = UNION {ToSet(derived[i]) : i \in 1..Len(checks)}
    BY <2>1, <2>4, <2>5, Flattened
  <2>7. ToSet(found) = ToSet(FlattenSeq(derived)) /\ List(found)
    BY <2>3, <2>6, Joined, ShortLists
  <2>8. found = <<>> <=> \A i \in 1..Len(checks) : ToSet(derived[i]) = {}
    <3>1. found = <<>> <=> ToSet(found) = {}
      BY <2>7, ListParts
    <3>2. ToSet(found) = UNION {ToSet(derived[i]) : i \in 1..Len(checks)}
      BY <2>6, <2>7
    <3>3. ASSUME NEW i \in 1..Len(checks), ToSet(found) = {} PROVE ToSet(derived[i]) = {}
      <4>1. ToSet(derived[i]) \subseteq ToSet(found)
        BY <3>2
      <4> QED BY <3>3, <4>1
    <3>4. ASSUME \A i \in 1..Len(checks) : ToSet(derived[i]) = {} PROVE ToSet(found) = {}
      BY <3>2, <3>4
    <3> QED BY <3>1, <3>3, <3>4
  <2>9. \A i \in 1..Len(checks) : ToSet(derived[i]) = {} <=> derived[i] = <<>>
    BY <2>5, ListParts
  <2> HIDE DEF found
  <2>10. found = <<>> <=> \A i \in DOMAIN checks : DeriveLimitation(sources, checks[i]) = <<>>
    BY <2>1, <2>4, <2>8, <2>9
  <2> QED BY <2>10 DEF ToSet
<1> HIDE DEF silent, found, report
<1> QED BY <1>1, <1>2, <1>3 DEF report

(* What a record's coverage report says of the walk. *)

\* The checks of a report leave no limitation.
Clean(sources, checks) == \A c \in ToSet(checks) : DeriveLimitation(sources, c) = <<>>

\* A built gap is a limitation.
LEMMA FoundIsUnclean ==
    ASSUME NEW sources, NEW gap PROVE DeriveLimitation(sources, Found(gap)) # <<>>
  BY ShortLists DEF DeriveLimitation, Found

\* A requirement is none when its source is there.
LEMMA RequirementIsClean ==
    ASSUME NEW sources, NEW source, source # "", sources[source] = "present", NEW code
    PROVE  DeriveLimitation(sources, Requires(source, code)) = <<>>
  BY DEF DeriveLimitation, Requires

\* A requirement on a source that is absent or failed is a limitation.
LEMMA RequirementIsUnclean ==
    ASSUME NEW sources, NEW source, source # "", sources[source] \in {"absent", "failed"}, NEW code
    PROVE  DeriveLimitation(sources, Requires(source, code)) # <<>>
<1>1. Requires(source, code).requires = source
  BY DEF Requires
<1>2. CASE sources[source] = "absent"
  BY <1>1, <1>2, ShortLists DEF DeriveLimitation
<1>3. CASE sources[source] = "failed"
  BY <1>1, <1>3, ShortLists DEF DeriveLimitation
<1> QED BY <1>2, <1>3

\* A check for a list of targets is clean when there are none.
LEMMA GapClean ==
    ASSUME NEW sources, NEW code, NEW source, NEW scope, NEW targets
    PROVE  LET c == GapCheck(code, source, scope, targets)
           IN List(c) /\ (Clean(sources, c) <=> targets = <<>>)
<1> DEFINE g == Found(Gap(code, source, scope, targets))
           c == GapCheck(code, source, scope, targets)
<1>1. CASE targets = <<>>
  <2>1. c = <<>>
    BY <1>1 DEF GapCheck
  <2> QED BY <1>1, <2>1, ShortLists DEF Clean
<1>2. CASE targets # <<>>
  <2>1. c = <<g>>
    BY <1>2 DEF GapCheck
  <2>2. List(<<g>>) /\ g \in ToSet(<<g>>) /\ DeriveLimitation(sources, g) # <<>>
    BY ShortLists, FoundIsUnclean
  <2> HIDE DEF g
  <2> QED BY <1>2, <2>1, <2>2 DEF Clean
<1> QED BY <1>1, <1>2

\* A check made on a condition is clean when the condition or the check is.
LEMMA WhenClean ==
    ASSUME NEW sources, NEW condition, NEW check
    PROVE  /\ List(When(condition, check))
           /\ Clean(sources, When(condition, check))
                <=> (condition => DeriveLimitation(sources, check) = <<>>)
<1>1. CASE condition
  <2>1. When(condition, check) = <<check>>
    BY <1>1 DEF When
  <2>2. List(<<check>>) /\ ToSet(<<check>>) = {check}
    BY ShortLists
  <2> QED BY <1>1, <2>1, <2>2 DEF Clean
<1>2. CASE ~condition
  <2>1. When(condition, check) = <<>>
    BY <1>2 DEF When
  <2> QED BY <1>2, <2>1, ShortLists DEF Clean
<1> QED BY <1>1, <1>2

\* Checks joined are clean when each is.
LEMMA CleanJoined ==
    ASSUME NEW sources, NEW s, List(s), NEW t, List(t)
    PROVE  List(s \o t) /\ (Clean(sources, s \o t) <=> Clean(sources, s) /\ Clean(sources, t))
<1>1. List(s \o t) /\ ToSet(s \o t) = ToSet(s) \union ToSet(t)
  BY Joined
<1> QED BY <1>1 DEF Clean

\* The pass left a gap of this code.
Leaves(pass, code) == \E i \in DOMAIN notes : notes[i].pass = pass /\ notes[i].code = code

\* The targets of a pass and code are a list, empty when it left none.
LEMMA NotedIs ==
    ASSUME List(notes), NEW pass, NEW code
    PROVE  Noted(pass, code) = <<>> <=> ~Leaves(pass, code)
<1> DEFINE K == {i \in DOMAIN notes : notes[i].pass = pass /\ notes[i].code = code}
           ns == Picked(notes, K)
<1>1. /\ List(ns) /\ (ns = <<>> <=> K = {})
  BY PickedIs
<1>2. Noted(pass, code) = [i \in DOMAIN ns |-> ns[i].target]
  BY DEF Noted
<1>3. K = {} <=> ~Leaves(pass, code)
  BY DEF Leaves
<1> HIDE DEF ns, K
<1>4. Len(ns) \in Nat /\ DOMAIN ns = 1..Len(ns) /\ (ns = <<>> <=> Len(ns) = 0)
  BY <1>1, ListParts
<1>5. Noted(pass, code) = <<>> <=> Len(ns) = 0
  <2> DEFINE f == Noted(pass, code)
  <2>1. f = [i \in 1..Len(ns) |-> f[i]]
    BY <1>2, <1>4
  <2> HIDE DEF f
  <2>2. List(f) /\ Len(f) = Len(ns)
    BY <1>4, <2>1, ListIs
  <2> QED BY <2>2, ListParts DEF f
<1> QED BY <1>1, <1>3, <1>4, <1>5

ScanCodes == {"SCAN_REGION_OVERSIZED_SKIPPED", "SCAN_REGION_READ_FAILED", "SCAN_REGION_SHORT_READ"}
BudgetCodes(pass) == CASE pass = "pipe"      -> {"pipe_name", "c2_context"}
                       [] pass = "cs-beacon" -> {"CS_BEACON_SCAN_BUDGET_EXHAUSTED"}
                       [] OTHER              -> {}

\* Every gap has a code its pass can give it.
NotesCoded ==
    List(notes) /\ \A i \in DOMAIN notes : notes[i].code \in ScanCodes \union BudgetCodes(notes[i].pass)

\* The three checks every walk makes are clean when it left no such gap.
LEMMA ScanChecksClean ==
    ASSUME List(notes), NEW sources, NEW pass, NEW source, NEW scope
    PROVE  /\ List(ScanChecks(pass, source, scope))
           /\ Clean(sources, ScanChecks(pass, source, scope)) <=> \A c \in ScanCodes : ~Leaves(pass, c)
<1> DEFINE o == "SCAN_REGION_OVERSIZED_SKIPPED"
           f == "SCAN_REGION_READ_FAILED"
           m == "SCAN_REGION_SHORT_READ"
           G(code) == GapCheck(code, source, scope, Noted(pass, code))
<1>1. ASSUME NEW code
      PROVE  List(G(code)) /\ (Clean(sources, G(code)) <=> ~Leaves(pass, code))
  <2>1. Noted(pass, code) = <<>> <=> ~Leaves(pass, code)
    BY NotedIs
  <2>2. List(G(code)) /\ (Clean(sources, G(code)) <=> Noted(pass, code) = <<>>)
    BY GapClean
  <2> QED BY <2>1, <2>2
<1>2. ScanChecks(pass, source, scope) = (G(o) \o G(f)) \o G(m)
  BY DEF ScanChecks
<1> HIDE DEF G
<1>3. /\ List(G(o) \o G(f))
      /\ Clean(sources, G(o) \o G(f)) <=> Clean(sources, G(o)) /\ Clean(sources, G(f))
  BY <1>1, CleanJoined
<1>4. /\ List((G(o) \o G(f)) \o G(m))
      /\ Clean(sources, (G(o) \o G(f)) \o G(m))
           <=> Clean(sources, G(o) \o G(f)) /\ Clean(sources, G(m))
  BY <1>1, <1>3, CleanJoined
<1> HIDE DEF o, f, m
<1>5. Clean(sources, ScanChecks(pass, source, scope))
        <=> ~Leaves(pass, o) /\ ~Leaves(pass, f) /\ ~Leaves(pass, m)
  BY <1>1, <1>2, <1>3, <1>4
<1>6. ScanCodes = {o, f, m}
  BY DEF ScanCodes, o, f, m
<1> QED BY <1>2, <1>4, <1>5, <1>6

\* The pass left no gap at all.
LEMMA NoTargetsIs ==
    ASSUME NotesCoded, NEW pass
    PROVE  /\ NoTargets({pass}) <=> \A c \in ScanCodes \union BudgetCodes(pass) : ~Leaves(pass, c)
           /\ BudgetCodes(pass) = {} => (NoTargets({pass}) <=> \A c \in ScanCodes : ~Leaves(pass, c))
<1>1. NoTargets({pass}) <=> \A i \in DOMAIN notes : notes[i].pass # pass
  BY DEF NoTargets
<1>2. ASSUME \A c \in ScanCodes \union BudgetCodes(pass) : ~Leaves(pass, c), NEW i \in DOMAIN notes
      PROVE  notes[i].pass # pass
  <2> SUFFICES ASSUME notes[i].pass = pass PROVE FALSE
    OBVIOUS
  <2>1. notes[i].code \in ScanCodes \union BudgetCodes(pass)
    BY DEF NotesCoded
  <2> QED BY <1>2, <2>1 DEF Leaves
<1>3. ASSUME \A i \in DOMAIN notes : notes[i].pass # pass, NEW c PROVE ~Leaves(pass, c)
  BY <1>3 DEF Leaves
<1>4. NoTargets({pass}) <=> \A c \in ScanCodes \union BudgetCodes(pass) : ~Leaves(pass, c)
  BY <1>1, <1>2, <1>3
<1> QED BY <1>4

\* One group of sources is silent when each of its members is absent.
LEMMA OneGroup ==
    ASSUME NEW sources, NEW a, NEW b
    PROVE  /\ List(<<>>) /\ \A g \in ToSet(<<>>) : ~Silent(sources, g)
           /\ List(<<Required(<<a>>)>>)
           /\ (\E g \in ToSet(<<Required(<<a>>)>>) : Silent(sources, g)) <=> sources[a] = "absent"
           /\ List(<<Required(<<a, b>>)>>)
           /\ (\E g \in ToSet(<<Required(<<a, b>>)>>) : Silent(sources, g))
                <=> sources[a] = "absent" /\ sources[b] = "absent"
<1>1. Silent(sources, Required(<<a>>)) <=> sources[a] = "absent"
  <2>1. Required(<<a>>).members = <<a>> /\ DOMAIN <<a>> = {1} /\ <<a>>[1] = a
    BY DEF Required
  <2> QED BY <2>1 DEF Silent
<1>2. Silent(sources, Required(<<a, b>>)) <=> sources[a] = "absent" /\ sources[b] = "absent"
  <2>1. /\ Required(<<a, b>>).members = <<a, b>> /\ DOMAIN <<a, b>> = {1, 2}
        /\ <<a, b>>[1] = a /\ <<a, b>>[2] = b
    BY DEF Required
  <2> QED BY <2>1 DEF Silent
<1>3. List(<<>>) /\ ToSet(<<>>) = {}
  BY ShortLists
<1>4. List(<<Required(<<a>>)>>) /\ ToSet(<<Required(<<a>>)>>) = {Required(<<a>>)}
  BY ShortLists
<1>5. List(<<Required(<<a, b>>)>>) /\ ToSet(<<Required(<<a, b>>)>>) = {Required(<<a, b>>)}
  BY ShortLists
<1> QED BY <1>1, <1>2, <1>3, <1>4, <1>5

\* What is known of the notes when a record is made: their codes, and that the pipe
\* hunter leaves a region to a budget only once that budget is spent.
Noting ==
    /\ NotesCoded /\ spent \subseteq Budgets(Hunter)
    /\ dump \in Dumps
    /\ Hunter = "pipe" => \A i \in DOMAIN notes :
          notes[i].pass = "pipe" /\ notes[i].code \in Budgets("pipe") => notes[i].code \in spent

\* The report of a record and the hunter's own snapshot of it agree.
Agrees(report, corroborated) ==
    /\ report.status \in {"not_evaluated", "partial", "complete"}
    /\ report.status = "not_evaluated" <=> ~Evaluated
    /\ report.status = "complete" <=> Evaluated /\ SnapshotComplete(corroborated)

\* A source is present or absent.
LEMMA PresentIs ==
    /\ \A there : Present(there) \in {"present", "absent"}
    /\ \A there \in BOOLEAN : /\ Present(there) = "present" <=> there
                              /\ Present(there) = "absent" <=> ~there
  BY DEF Present

\* pipe: its report is complete when the handles are whole, no region was left behind
\* and neither budget ran out.
LEMMA PipeAgrees ==
    ASSUME Noting, Hunter = "pipe", NEW corroborated
    PROVE  Agrees(PipeCoverage, corroborated)
<1> DEFINE sources == [memory_info |-> Present(HasRegions),
                       handle_data |-> IF dump.handles = "truncated" THEN "present" ELSE dump.handles]
           need   == Requires("handle_data", "SOURCE_ABSENT")
           cut    == Found(Counted("HANDLE_STREAM_TRUNCATED", "handle_data", "", 1))
           scan   == ScanChecks("pipe", "pipe_name_scan", "")
           c2     == BudgetCheck("c2_context")
           name   == BudgetCheck("pipe_name")
           short == dump.handles = "truncated"
           a == <<need>>
           b == When(short, cut)
           checks == (((a \o b) \o scan) \o c2) \o name
<1>1. PipeCoverage = BuildCoverageReport(sources, <<Required(<<"memory_info", "handle_data">>)>>, checks,
                                         eligible["pipe"], {})
  BY DEF PipeCoverage
<1>2. dump.handles \in {"absent", "failed", "truncated", "present"}
  BY DocumentAssumption DEF Noting
<1>3. /\ sources["memory_info"] = "absent" <=> ~HasRegions
      /\ sources["handle_data"] = "absent" <=> dump.handles = "absent"
      /\ sources["handle_data"] = "present" <=> dump.handles \in {"truncated", "present"}
      /\ sources["handle_data"] \in {"absent", "failed", "present"}
  <2>1. HasRegions \in BOOLEAN
    BY DEF HasRegions
  <2> QED BY <1>2, <2>1, PresentIs
<1> HIDE DEF sources
<1>4. List(a) /\ (Clean(sources, a) <=> dump.handles \in {"truncated", "present"})
  <2>1. List(a) /\ ToSet(a) = {need}
    BY ShortLists
  <2>2. DeriveLimitation(sources, need) = <<>> <=> sources["handle_data"] = "present"
    BY <1>3, RequirementIsClean, RequirementIsUnclean
  <2> HIDE DEF need
  <2> QED BY <1>3, <2>1, <2>2 DEF Clean
<1>5. List(b) /\ (Clean(sources, b) <=> dump.handles # "truncated")
  <2>1. DeriveLimitation(sources, cut) # <<>>
    BY FoundIsUnclean
  <2> HIDE DEF cut, short
  <2>2. List(b) /\ (Clean(sources, b) <=> (short => DeriveLimitation(sources, cut) = <<>>))
    BY WhenClean, Zenon
  <2> QED BY <2>1, <2>2 DEF short
<1>6. List(scan) /\ (Clean(sources, scan) <=> \A c \in ScanCodes : ~Leaves("pipe", c))
  BY ScanChecksClean DEF Noting, NotesCoded
<1>7. ASSUME NEW budget
      PROVE  List(BudgetCheck(budget)) /\ (Clean(sources, BudgetCheck(budget)) <=> budget \notin spent)
  <2> DEFINE check == Found(Gap("SCAN_BUDGET_EXHAUSTED", "pipe_name_scan", budget, Noted("pipe", budget)))
  <2>1. DeriveLimitation(sources, check) # <<>>
    BY FoundIsUnclean
  <2>2. BudgetCheck(budget) = When(budget \in spent, check)
    BY DEF BudgetCheck
  <2> HIDE DEF check
  <2> QED BY <2>1, <2>2, WhenClean
<1> HIDE DEF a, b, scan
<1>8. List(a \o b) /\ (Clean(sources, a \o b) <=> Clean(sources, a) /\ Clean(sources, b))
  BY <1>4, <1>5, CleanJoined
<1>9. /\ List((a \o b) \o scan)
      /\ Clean(sources, (a \o b) \o scan) <=> Clean(sources, a \o b) /\ Clean(sources, scan)
  BY <1>6, <1>8, CleanJoined
<1>10. /\ List(((a \o b) \o scan) \o c2)
       /\ Clean(sources, ((a \o b) \o scan) \o c2)
             <=> Clean(sources, (a \o b) \o scan) /\ Clean(sources, c2)
  BY <1>7, <1>9, CleanJoined
<1>11. /\ List(checks)
       /\ Clean(sources, checks) <=> Clean(sources, ((a \o b) \o scan) \o c2) /\ Clean(sources, name)
  BY <1>7, <1>10, CleanJoined
<1> HIDE DEF checks, c2, name
<1>12. Clean(sources, checks) <=> /\ dump.handles = "present"
                                  /\ \A c \in ScanCodes : ~Leaves("pipe", c)
                                  /\ "c2_context" \notin spent /\ "pipe_name" \notin spent
  BY <1>2, <1>4, <1>5, <1>6, <1>7, <1>8, <1>9, <1>10, <1>11 DEF c2, name
<1>13. spent = {} <=> "c2_context" \notin spent /\ "pipe_name" \notin spent
  BY DEF Noting, Budgets
<1>14. ASSUME spent = {}
       PROVE  NoTargets({"pipe"}) <=> \A c \in ScanCodes : ~Leaves("pipe", c)
  <2>1. \A c \in BudgetCodes("pipe") : ~Leaves("pipe", c)
    BY <1>14 DEF BudgetCodes, Budgets, Leaves, Noting
  <2> QED BY <2>1, NoTargetsIs DEF Noting
<1>15. SnapshotComplete(corroborated) <=> Clean(sources, checks)
  <2>1. SnapshotComplete(corroborated) <=> dump.handles = "present" /\ NoTargets({"pipe"}) /\ spent = {}
    BY DEF SnapshotComplete
  <2> QED BY <1>12, <1>13, <1>14, <2>1
<1>16. Evaluated <=> HasRegions \/ dump.handles # "absent"
  BY DEF Evaluated
<1> DEFINE groups == <<Required(<<"memory_info", "handle_data">>)>>
<1>17. List(groups) /\ ((\E g \in ToSet(groups) : Silent(sources, g)) <=> ~Evaluated)
  BY <1>3, <1>16, OneGroup
<1> HIDE DEF groups
<1>18. /\ PipeCoverage.status \in {"not_evaluated", "partial", "complete"}
       /\ PipeCoverage.status = "not_evaluated" <=> \E g \in ToSet(groups) : Silent(sources, g)
       /\ PipeCoverage.status = "complete" <=> /\ \A g \in ToSet(groups) : ~Silent(sources, g)
                                               /\ Clean(sources, checks)
  BY <1>1, <1>11, <1>17, ReportStatus DEF groups, Clean
<1> QED BY <1>15, <1>17, <1>18 DEF Agrees

\* cs-beacon: its report is complete when MemoryInfo is there, no segment was left
\* behind, and a candidate nobody corroborated had every thread's context to look in.
LEMMA CsAgrees ==
    ASSUME Noting, Hunter = "cs-beacon", NEW corroborated \in BOOLEAN
    PROVE  Agrees(CsCoverage(corroborated), corroborated)
<1> DEFINE sources == [memory_info |-> Present(HasRegions),
                       memory64_list |-> Present(dump.table # <<>>),
                       thread_context |-> Present(dump.threads \in {"gaps", "whole"})]
           wanting == evidence # {} /\ ~corroborated
           none    == wanting /\ dump.threads = "absent"
           some    == wanting /\ dump.threads \in {"unparsed", "gaps"}
           need    == Requires("memory_info", "SOURCE_ABSENT")
           stop    == "CS_BEACON_SCAN_BUDGET_EXHAUSTED"
           left    == Noted("cs-beacon", stop)
           absent  == Requires("thread_context", "THREAD_CONTEXT_UNAVAILABLE")
           partial == Found(Counted("THREAD_CONTEXT_PARTIAL", "thread_context", "", 1))
           a    == <<need>>
           scan == ScanChecks("cs-beacon", "segment_scan", "")
           gaps == GapCheck(stop, "segment_scan", "scan_deadline_seconds", left)
           t    == When(none, absent)
           u    == When(some, partial)
           checks == (((a \o scan) \o gaps) \o t) \o u
           groups == <<Required(<<"memory64_list">>)>>
           whole == BuildCoverageReport(sources, <<>>, checks, eligible["cs-beacon"], {})
           empty == BuildCoverageReport(sources, groups, <<>>, NoScale, {})
<1>1. CsCoverage(corroborated) = IF dump.table = <<>> THEN empty ELSE whole
  BY DEF CsCoverage
<1>2. dump.threads \in {"absent", "unparsed", "gaps", "whole"}
  BY DocumentAssumption DEF Noting
<1>3. /\ sources["memory_info"] = "present" <=> HasRegions
      /\ sources["memory64_list"] = "absent" <=> dump.table = <<>>
      /\ sources["thread_context"] = "absent" <=> dump.threads \in {"absent", "unparsed"}
      /\ \A s \in {"memory_info", "memory64_list", "thread_context"} : sources[s] \in {"absent", "present"}
  <2>1. /\ HasRegions \in BOOLEAN /\ (dump.table # <<>>) \in BOOLEAN
        /\ (dump.threads \in {"gaps", "whole"}) \in BOOLEAN
    BY DEF HasRegions
  <2>2. Present(dump.table # <<>>) = "absent" <=> dump.table = <<>>
    BY DEF Present
  <2>3. Present(dump.threads \in {"gaps", "whole"}) = "absent" <=> dump.threads \in {"absent", "unparsed"}
    BY <1>2 DEF Present
  <2>4. /\ sources["memory_info"] = Present(HasRegions)
        /\ sources["memory64_list"] = Present(dump.table # <<>>)
        /\ sources["thread_context"] = Present(dump.threads \in {"gaps", "whole"})
    OBVIOUS
  <2> HIDE DEF sources
  <2>5. sources["memory_info"] = "present" <=> HasRegions
    BY <2>1, <2>4, PresentIs
  <2>6. \A s \in {"memory_info", "memory64_list", "thread_context"} : sources[s] \in {"absent", "present"}
    BY <2>1, <2>4, PresentIs
  <2> QED BY <2>2, <2>3, <2>4, <2>5, <2>6
<1> HIDE DEF sources
<1>4. CASE dump.table = <<>>
  <2>1. List(groups) /\ \E g \in ToSet(groups) : Silent(sources, g)
    BY <1>3, <1>4, OneGroup
  <2>2. List(<<>>)
    BY ShortLists
  <2> HIDE DEF groups
  <2>3. /\ empty.status \in {"not_evaluated", "partial", "complete"}
        /\ empty.status = "not_evaluated" <=> \E g \in ToSet(groups) : Silent(sources, g)
    BY <2>1, <2>2, ReportStatus
  <2> HIDE DEF empty
  <2>4. empty.status = "not_evaluated"
    BY <2>1, <2>3
  <2>5. CsCoverage(corroborated) = empty /\ ~Evaluated
    BY <1>1, <1>4 DEF Evaluated
  <2> QED BY <2>4, <2>5 DEF Agrees
<1>5. CASE dump.table # <<>>
  <2>1. List(a) /\ (Clean(sources, a) <=> HasRegions)
    <3>1. List(a) /\ ToSet(a) = {need}
      BY ShortLists
    <3>2. DeriveLimitation(sources, need) = <<>> <=> sources["memory_info"] = "present"
      BY <1>3, RequirementIsClean, RequirementIsUnclean
    <3> HIDE DEF need
    <3> QED BY <1>3, <3>1, <3>2 DEF Clean
  <2>2. List(scan) /\ (Clean(sources, scan) <=> \A c \in ScanCodes : ~Leaves("cs-beacon", c))
    BY ScanChecksClean DEF Noting, NotesCoded
  <2>3. List(gaps) /\ (Clean(sources, gaps) <=> ~Leaves("cs-beacon", stop))
    <3>1. left = <<>> <=> ~Leaves("cs-beacon", stop)
      BY NotedIs DEF Noting, NotesCoded
    <3> HIDE DEF left, stop
    <3> QED BY <3>1, GapClean
  <2>4. List(t) /\ (Clean(sources, t) <=> ~none)
    <3>1. none => DeriveLimitation(sources, absent) # <<>>
      <4>1. none => sources["thread_context"] \in {"absent", "failed"}
        BY <1>3
      <4> HIDE DEF none
      <4> QED BY <4>1, RequirementIsUnclean
    <3> HIDE DEF none, absent
    <3>2. /\ List(When(none, absent))
          /\ Clean(sources, When(none, absent)) <=> (none => DeriveLimitation(sources, absent) = <<>>)
      BY WhenClean, Zenon
    <3> QED BY <3>1, <3>2
  <2>5. List(u) /\ (Clean(sources, u) <=> ~some)
    <3>1. DeriveLimitation(sources, partial) # <<>>
      BY FoundIsUnclean
    <3> HIDE DEF some, partial
    <3>2. /\ List(When(some, partial))
          /\ Clean(sources, When(some, partial)) <=> (some => DeriveLimitation(sources, partial) = <<>>)
      BY WhenClean, Zenon
    <3> QED BY <3>1, <3>2
  <2>6. none \/ some <=> wanting /\ dump.threads # "whole"
    BY <1>2
  <2> HIDE DEF a, scan, gaps, t, u, none, some
  <2>7. List(a \o scan) /\ (Clean(sources, a \o scan) <=> Clean(sources, a) /\ Clean(sources, scan))
    BY <2>1, <2>2, CleanJoined
  <2>8. /\ List((a \o scan) \o gaps)
        /\ Clean(sources, (a \o scan) \o gaps) <=> Clean(sources, a \o scan) /\ Clean(sources, gaps)
    BY <2>3, <2>7, CleanJoined
  <2>9. /\ List(((a \o scan) \o gaps) \o t)
        /\ Clean(sources, ((a \o scan) \o gaps) \o t)
              <=> Clean(sources, (a \o scan) \o gaps) /\ Clean(sources, t)
    BY <2>4, <2>8, CleanJoined
  <2>10. /\ List(checks)
         /\ Clean(sources, checks) <=> Clean(sources, ((a \o scan) \o gaps) \o t) /\ Clean(sources, u)
    BY <2>5, <2>9, CleanJoined
  <2> HIDE DEF checks, wanting
  <2>11. Clean(sources, checks) <=> /\ HasRegions /\ (wanting => dump.threads = "whole")
                                    /\ \A c \in ScanCodes : ~Leaves("cs-beacon", c)
                                    /\ ~Leaves("cs-beacon", stop)
    BY <2>1, <2>2, <2>3, <2>4, <2>5, <2>6, <2>7, <2>8, <2>9, <2>10
  <2>12. NoTargets({"cs-beacon"}) <=> /\ \A c \in ScanCodes : ~Leaves("cs-beacon", c)
                                      /\ ~Leaves("cs-beacon", stop)
    <3>1. BudgetCodes("cs-beacon") = {stop}
      BY DEF BudgetCodes
    <3> HIDE DEF stop
    <3> QED BY <3>1, NoTargetsIs DEF Noting
  <2>13. SnapshotComplete(corroborated) <=> Clean(sources, checks)
    <3>1. SnapshotComplete(corroborated)
            <=> /\ NoTargets({"cs-beacon"}) /\ HasRegions /\ (wanting => dump.threads = "whole")
      BY DEF SnapshotComplete, wanting
    <3> QED BY <2>11, <2>12, <3>1
  <2>14. List(<<>>) /\ \A g \in ToSet(<<>>) : ~Silent(sources, g)
    BY OneGroup
  <2>15. /\ whole.status \in {"not_evaluated", "partial", "complete"}
         /\ whole.status = "not_evaluated" <=> \E g \in ToSet(<<>>) : Silent(sources, g)
         /\ whole.status = "complete" <=> /\ \A g \in ToSet(<<>>) : ~Silent(sources, g)
                                          /\ Clean(sources, checks)
    BY <2>10, <2>14, ReportStatus DEF Clean
  <2> HIDE DEF whole
  <2>16. CsCoverage(corroborated) = whole /\ Evaluated
    BY <1>1, <1>5 DEF Evaluated
  <2> QED BY <2>13, <2>14, <2>15, <2>16 DEF Agrees
<1> QED BY <1>4, <1>5

\* The gaps of one code are clean when no layer left one.
LEMMA LayersClean ==
    ASSUME List(notes), NEW sources, NEW code
    PROVE  /\ List(ByLayer(code))
           /\ Clean(sources, ByLayer(code)) <=> \A pass \in Layers : ~Leaves(pass, code)
<1> DEFINE layers == Passes("obfuscation")
           ss == [i \in 1..3 |-> GapCheck(code, "encoding_scan", layers[i], Noted(layers[i], code))]
<1>1. ByLayer(code) = FlattenSeq(ss)
  BY DEF ByLayer
<1>2. \A pass : pass \in Layers <=> \E i \in 1..3 : layers[i] = pass
  BY DEF Layers, Passes
<1> HIDE DEF layers
<1> DEFINE G(layer) == GapCheck(code, "encoding_scan", layer, Noted(layer, code))
<1>3. ASSUME NEW layer
      PROVE  List(G(layer)) /\ (Clean(sources, G(layer)) <=> ~Leaves(layer, code))
  <2>1. Noted(layer, code) = <<>> <=> ~Leaves(layer, code)
    BY NotedIs
  <2>2. List(G(layer)) /\ (Clean(sources, G(layer)) <=> Noted(layer, code) = <<>>)
    BY GapClean
  <2> QED BY <2>1, <2>2
<1>4. ss = [i \in 1..3 |-> ss[i]] /\ \A i \in 1..3 : ss[i] = G(layers[i])
  OBVIOUS
<1> HIDE DEF ss, G
<1>5. List(FlattenSeq(ss)) /\ ToSet(FlattenSeq(ss)) = UNION {ToSet(ss[i]) : i \in 1..3}
  <2>1. \A i \in 1..3 : List(ss[i])
    BY <1>3, <1>4
  <2> QED BY <1>4, <2>1, Flattened
<1>6. Clean(sources, FlattenSeq(ss)) <=> \A i \in 1..3 : Clean(sources, ss[i])
  BY <1>5 DEF Clean
<1> QED BY <1>1, <1>2, <1>3, <1>4, <1>5, <1>6

\* obfuscation: its report is complete when some layer analysed something, no layer left
\* a region behind and the decode budget held.
LEMMA EncodingAgrees ==
    ASSUME Noting, Hunter = "obfuscation", NEW corroborated
    PROVE  Agrees(EncodingCoverage, corroborated)
<1> DEFINE sources == [memory_info |-> Present(HasRegions)]
           filtered == Found(Counted("ENCODING_ALL_REGIONS_FILTERED", "encoding_scan", "", Len(dump.regions)))
           budget   == Found(Counted("SCAN_BUDGET_EXHAUSTED", "encoding_scan", "", 0))
           a == When(FullySkipped, filtered)
           b == ByLayer("SCAN_REGION_OVERSIZED_SKIPPED")
           c == ByLayer("SCAN_REGION_READ_FAILED")
           d == ByLayer("SCAN_REGION_SHORT_READ")
           t == When(DecodeExhausted, budget)
           checks == (((a \o b) \o c) \o d) \o t
           groups == <<Required(<<"memory_info">>)>>
           size == eligible["sleep_mask"] + eligible["entropy"] + eligible["decode"]
<1>1. EncodingCoverage = BuildCoverageReport(sources, groups, checks, size, PassScopes)
  BY DEF EncodingCoverage
<1>2. sources["memory_info"] = "absent" <=> ~HasRegions
  <2>1. HasRegions \in BOOLEAN
    BY DEF HasRegions
  <2>2. sources["memory_info"] = Present(HasRegions)
    OBVIOUS
  <2> HIDE DEF sources
  <2> QED BY <2>1, <2>2, PresentIs
<1> HIDE DEF sources, size
<1>3. List(a) /\ (Clean(sources, a) <=> ~FullySkipped)
  <2>1. DeriveLimitation(sources, filtered) # <<>>
    BY FoundIsUnclean
  <2> HIDE DEF filtered
  <2>2. List(a) /\ (Clean(sources, a) <=> (FullySkipped => DeriveLimitation(sources, filtered) = <<>>))
    BY WhenClean, Zenon
  <2> QED BY <2>1, <2>2
<1>4. List(t) /\ (Clean(sources, t) <=> ~DecodeExhausted)
  <2>1. DeriveLimitation(sources, budget) # <<>>
    BY FoundIsUnclean
  <2> HIDE DEF budget
  <2>2. List(t) /\ (Clean(sources, t) <=> (DecodeExhausted => DeriveLimitation(sources, budget) = <<>>))
    BY WhenClean, Zenon
  <2> QED BY <2>1, <2>2
<1>5. /\ List(b) /\ (Clean(sources, b) <=> \A x \in Layers : ~Leaves(x, "SCAN_REGION_OVERSIZED_SKIPPED"))
      /\ List(c) /\ (Clean(sources, c) <=> \A x \in Layers : ~Leaves(x, "SCAN_REGION_READ_FAILED"))
      /\ List(d) /\ (Clean(sources, d) <=> \A x \in Layers : ~Leaves(x, "SCAN_REGION_SHORT_READ"))
  BY LayersClean DEF Noting, NotesCoded
<1> HIDE DEF a, b, c, d, t
<1>6. List(a \o b) /\ (Clean(sources, a \o b) <=> Clean(sources, a) /\ Clean(sources, b))
  BY <1>3, <1>5, CleanJoined
<1>7. /\ List((a \o b) \o c)
      /\ Clean(sources, (a \o b) \o c) <=> Clean(sources, a \o b) /\ Clean(sources, c)
  BY <1>5, <1>6, CleanJoined
<1>8. /\ List(((a \o b) \o c) \o d)
      /\ Clean(sources, ((a \o b) \o c) \o d) <=> Clean(sources, (a \o b) \o c) /\ Clean(sources, d)
  BY <1>5, <1>7, CleanJoined
<1>9. /\ List(checks)
      /\ Clean(sources, checks) <=> Clean(sources, ((a \o b) \o c) \o d) /\ Clean(sources, t)
  BY <1>4, <1>8, CleanJoined
<1> HIDE DEF checks
<1>10. NoTargets(Layers) <=> \A x \in Layers : \A code \in ScanCodes : ~Leaves(x, code)
  <2>1. NoTargets(Layers) <=> \A x \in Layers : NoTargets({x})
    BY DEF NoTargets
  <2>2. \A x \in Layers : BudgetCodes(x) = {}
    BY DEF Layers, BudgetCodes
  <2>3. \A x \in Layers : NoTargets({x}) <=> \A code \in ScanCodes : ~Leaves(x, code)
    BY <2>2, NoTargetsIs DEF Noting
  <2> QED BY <2>1, <2>3
<1>11. SnapshotComplete(corroborated) <=> Clean(sources, checks)
  <2>1. SnapshotComplete(corroborated) <=> ~FullySkipped /\ NoTargets(Layers) /\ ~DecodeExhausted
    BY DEF SnapshotComplete
  <2>2. NoTargets(Layers) <=> Clean(sources, b) /\ Clean(sources, c) /\ Clean(sources, d)
    BY <1>5, <1>10 DEF ScanCodes
  <2> QED BY <1>3, <1>4, <1>6, <1>7, <1>8, <1>9, <2>1, <2>2
<1>12. List(groups) /\ ((\E g \in ToSet(groups) : Silent(sources, g)) <=> ~Evaluated)
  BY <1>2, OneGroup DEF Evaluated
<1> HIDE DEF groups
<1>13. /\ EncodingCoverage.status \in {"not_evaluated", "partial", "complete"}
       /\ EncodingCoverage.status = "not_evaluated" <=> \E g \in ToSet(groups) : Silent(sources, g)
       /\ EncodingCoverage.status = "complete" <=> /\ \A g \in ToSet(groups) : ~Silent(sources, g)
                                                   /\ Clean(sources, checks)
  BY <1>1, <1>9, <1>12, ReportStatus DEF Clean
<1> QED BY <1>11, <1>12, <1>13 DEF Agrees

\* Every hunter's report agrees with its snapshot.
LEMMA CoverageAgrees ==
    ASSUME Noting, Hunter \in {"pipe", "cs-beacon", "obfuscation"}, NEW corroborated \in BOOLEAN
    PROVE  Agrees(CoverageOf(corroborated), corroborated)
<1>1. CASE Hunter = "pipe"
  <2>1. CoverageOf(corroborated) = PipeCoverage
    BY <1>1 DEF CoverageOf
  <2> QED BY <1>1, <2>1, PipeAgrees
<1>2. CASE Hunter = "cs-beacon"
  <2>1. CoverageOf(corroborated) = CsCoverage(corroborated)
    BY <1>2 DEF CoverageOf
  <2> QED BY <1>2, <2>1, CsAgrees
<1>3. CASE Hunter = "obfuscation"
  <2>1. CoverageOf(corroborated) = EncodingCoverage
    BY <1>3 DEF CoverageOf
  <2> QED BY <1>3, <2>1, EncodingAgrees
<1> QED BY <1>1, <1>2, <1>3

(* The inductive invariant. *)

Hunters  == {"pipe", "cs-beacon", "obfuscation"}
Verdicts == {"NOT_EVALUATED", "DETECTED", "NOT_DETECTED_IN_SCANNED_SCOPE", "INCONCLUSIVE"}

\* What Init chose: a dump, a roster, and reads that return no more than was asked.
Given ==
    /\ dump \in Dumps /\ roster \in Rosters
    /\ \A r \in Ranges(dump.regions) \union Ranges(dump.table) :
          r \in DOMAIN answer /\ answer[r] \in 0..r.size

\* A hunter is at work.
Working == pc \in {"walk", "publish"}

\* Where the run is, and a record for every hunter before this one.
Place ==
    /\ pc \in {"walk", "publish", "finish", "done"}
    /\ h \in DOMAIN roster /\ p \in DOMAIN Passes(Hunter) /\ k \in 1..(Len(Items) + 1)
    /\ spent \subseteq Budgets(Hunter)
    /\ pc = "publish" => p = Len(Passes(Hunter))
    /\ Len(records) = IF pc \in {"finish", "done"} THEN Len(roster) ELSE h - 1

\* The pass belongs to an earlier hunter, or is not after this one in its own.
Begun(pass) ==
    \E g \in 1..h : \E n \in DOMAIN Passes(roster[g]) :
        Passes(roster[g])[n] = pass /\ (g = h => n <= p)

\* A gap is of a pass that began and of a code that pass gives; a region is left to a
\* pipe budget only once that budget is spent.
Gaps ==
    /\ NotesCoded
    /\ \A x \in ToSet(notes) : Begun(x.pass)
    /\ Working /\ Hunter = "pipe" => \A i \in DOMAIN notes :
          notes[i].pass = "pipe" /\ notes[i].code \in Budgets("pipe") => notes[i].code \in spent

\* Only passes that began saw anything, and each item once.
SeenOnce ==
    /\ List(seen) /\ \A x \in ToSet(seen) : Begun(x.pass)
    /\ \A pass \in AllPasses : Cardinality(InScope(pass)) <= Len(ItemsOf(pass))
    /\ pc = "walk" => Cardinality(InScope(Pass)) <= k - 1

\* The pass searched every byte of its item j.
Searched(pass, j) ==
    \E x \in InScope(pass) : x.range = RangeOf(ItemsOf(pass)[j]) /\ x.examined = x.range.size

\* The pass owns up: it left a gap, or its budget is spent.
Excused(pass) ==
    \/ \E i \in DOMAIN notes : notes[i].pass = pass
    \/ pass \in {"sleep_mask", "decode"} /\ "decode" \in spent

Behind(pass, n) == Excused(pass) \/ \A j \in 1..n : Searched(pass, j)

\* Every pass of this hunter up to this one searched the items behind it, or owns up.
NothingDropped ==
    Working => \A n \in 1..p :
        Behind(Passes(Hunter)[n],
               IF n < p \/ pc = "publish" THEN Len(ItemsOf(Passes(Hunter)[n])) ELSE k - 1)

\* What CleanIsEarned asks of one record.
Earned(r) ==
    /\ r.hunter \in Hunters /\ r.status \in Verdicts
    /\ r.coverage.status = "complete" =>
          /\ \A pass \in PassesOf(r.hunter) : \A j \in DOMAIN ItemsOf(pass) : Searched(pass, j)
          /\ r.hunter = "pipe" => dump.handles = "present"
          /\ r.hunter # "pipe" => HasRegions
    /\ r.status = "NOT_DETECTED_IN_SCANNED_SCOPE" => r.coverage.status = "complete"
    /\ (r.status = "NOT_EVALUATED") = (r.coverage.status = "not_evaluated")
    /\ r.coverage.status = "complete" => r.status # "INCONCLUSIVE"
RecordsEarned == List(records) /\ \A i \in Published : Earned(records[i])

\* What CleanIsEarned asks of the document.
Modest ==
    pc = "done" =>
        /\ document.exit = 0 => \A i \in Published : Reports[i].status = "complete"
        /\ (document.exit = 4) = (document.overall = "NOT_EVALUATED")
        /\ document.overall = "NOT_DETECTED_IN_SCANNED_SCOPE" => document.exit = 0

IInv == /\ Given /\ Place /\ Gaps /\ SeenOnce /\ NothingDropped /\ RecordsEarned /\ Modest

(* What does not change, and what only grows. *)

\* The passes of a hunter are its own, each at one place.
LEMMA PassesAre ==
    /\ \A hunter \in Hunters :
          /\ Len(Passes(hunter)) \in Nat \ {0} /\ DOMAIN Passes(hunter) = 1..Len(Passes(hunter))
          /\ \A n \in DOMAIN Passes(hunter) : Passes(hunter)[n] \in AllPasses
          /\ PassesOf(hunter) = {Passes(hunter)[n] : n \in 1..Len(Passes(hunter))}
    /\ \A a \in Hunters, b \in Hunters : \A m \in DOMAIN Passes(a), n \in DOMAIN Passes(b) :
          Passes(a)[m] = Passes(b)[n] => a = b /\ m = n
<1>1. /\ Passes("pipe") = <<"pipe">> /\ Passes("cs-beacon") = <<"cs-beacon">>
      /\ Passes("obfuscation") = <<"sleep_mask", "entropy", "decode">>
  BY DEF Passes
<1>2. /\ Len(Passes("pipe")) = 1 /\ DOMAIN Passes("pipe") = 1..1
      /\ Len(Passes("cs-beacon")) = 1 /\ DOMAIN Passes("cs-beacon") = 1..1
      /\ Len(Passes("obfuscation")) = 3 /\ DOMAIN Passes("obfuscation") = 1..3
  BY <1>1
<1>3. /\ Passes("pipe")[1] = "pipe" /\ Passes("cs-beacon")[1] = "cs-beacon"
      /\ Passes("obfuscation")[1] = "sleep_mask" /\ Passes("obfuscation")[2] = "entropy"
      /\ Passes("obfuscation")[3] = "decode"
  BY <1>1
<1>4. ASSUME NEW hunter \in Hunters
      PROVE  /\ Len(Passes(hunter)) \in Nat \ {0} /\ DOMAIN Passes(hunter) = 1..Len(Passes(hunter))
             /\ \A n \in DOMAIN Passes(hunter) : Passes(hunter)[n] \in AllPasses
  BY <1>2, <1>3 DEF Hunters, AllPasses, Layers
<1>5. ASSUME NEW a \in Hunters, NEW b \in Hunters, NEW m \in DOMAIN Passes(a), NEW n \in DOMAIN Passes(b),
             Passes(a)[m] = Passes(b)[n]
      PROVE  a = b /\ m = n
  BY <1>2, <1>3, <1>5 DEF Hunters
<1>6. \A hunter \in Hunters : PassesOf(hunter) = {Passes(hunter)[n] : n \in 1..Len(Passes(hunter))}
  BY <1>4 DEF PassesOf, ToSet
<1> QED BY <1>4, <1>5, <1>6

\* The roster lists hunters, each once.
LEMMA RosterIs ==
    ASSUME Given
    PROVE  /\ Len(roster) \in Nat \ {0} /\ DOMAIN roster = 1..Len(roster)
           /\ \A g \in DOMAIN roster : roster[g] \in Hunters
           /\ \A f, g \in DOMAIN roster : roster[f] = roster[g] => f = g
<1>1. roster \in Seq(Hunters) /\ roster # <<>> /\ \A f, g \in DOMAIN roster : roster[f] = roster[g] => f = g
  BY DocumentAssumption DEF Given, Hunters
<1>2. Len(roster) \in Nat /\ DOMAIN roster = 1..Len(roster) /\ Len(roster) # 0
  BY <1>1, EmptySeq
<1> QED BY <1>1, <1>2

\* A pass walks a list of ranges of the dump, and a read of one returns no more than it.
LEMMA ItemsAre ==
    ASSUME Given, NEW pass
    PROVE  /\ List(ItemsOf(pass)) /\ Len(ItemsOf(pass)) \in Nat
           /\ DOMAIN ItemsOf(pass) = 1..Len(ItemsOf(pass))
           /\ \A j \in DOMAIN ItemsOf(pass) :
                 LET x == ItemsOf(pass)[j]
                 IN  x.size \in Nat /\ answer[RangeOf(x)] \in 0..x.size /\ RangeOf(x).size = x.size
<1>1. \A x : RangeOf(x).size = x.size
  BY DEF RangeOf, VirtualRange
<1> DEFINE Whole == {dump.regions[i] : i \in DOMAIN dump.regions}
                      \union {dump.table[i] : i \in DOMAIN dump.table}
<1>2. \A x \in Whole : x.size \in Nat /\ answer[RangeOf(x)] \in 0..x.size
  <2>1. /\ dump.regions \in Seq([base: Nat, size: Nat, kind: STRING])
        /\ dump.table \in Seq([base: Nat, size: Nat, offset: Nat])
    BY DocumentAssumption DEF Given
  <2>2. /\ \A i \in DOMAIN dump.regions : dump.regions[i].size \in Nat
        /\ \A i \in DOMAIN dump.table : dump.table[i].size \in Nat
    <3> DEFINE R == [base: Nat, size: Nat, kind: STRING]
               T == [base: Nat, size: Nat, offset: Nat]
    <3>1. dump.regions \in Seq(R) /\ dump.table \in Seq(T)
      BY <2>1
    <3>2. /\ \A x \in R : x.size \in Nat
          /\ \A x \in T : x.size \in Nat
      OBVIOUS
    <3> HIDE DEF R, T
    <3> QED BY <3>1, <3>2
  <2>3. \A x \in Whole : RangeOf(x) \in Ranges(dump.regions) \union Ranges(dump.table)
    BY DEF Ranges
  <2> QED BY <1>1, <2>2, <2>3 DEF Given
<1>3. List(dump.regions) /\ List(dump.table)
  BY DocumentAssumption, TypedIsList DEF Given
<1> HIDE DEF Whole
<1>4. List(ItemsOf(pass)) /\ ToSet(ItemsOf(pass)) \subseteq Whole
  <2>1. CASE pass = "cs-beacon"
    <3> DEFINE K == {i \in DOMAIN dump.table : dump.table[i].size > 0}
    <3>1. ItemsOf(pass) = Picked(dump.table, K) /\ K \in SUBSET DOMAIN dump.table
      BY <2>1 DEF ItemsOf
    <3> HIDE DEF K
    <3>2. List(Picked(dump.table, K)) /\ ToSet(Picked(dump.table, K)) = {dump.table[i] : i \in K}
      BY <1>3, <3>1, PickedIs
    <3> QED BY <3>1, <3>2 DEF Whole
  <2>2. CASE pass # "cs-beacon"
    <3> DEFINE K == {i \in DOMAIN dump.regions : Accepts(pass, dump.regions[i])}
    <3>1. ItemsOf(pass) = Picked(dump.regions, K) /\ K \in SUBSET DOMAIN dump.regions
      BY <2>2 DEF ItemsOf
    <3> HIDE DEF K
    <3>2. List(Picked(dump.regions, K)) /\ ToSet(Picked(dump.regions, K)) = {dump.regions[i] : i \in K}
      BY <1>3, <3>1, PickedIs
    <3> QED BY <3>1, <3>2 DEF Whole
  <2> QED BY <2>1, <2>2
<1>5. Len(ItemsOf(pass)) \in Nat /\ DOMAIN ItemsOf(pass) = 1..Len(ItemsOf(pass))
  BY <1>4, ListParts
<1>6. ASSUME NEW j \in DOMAIN ItemsOf(pass) PROVE ItemsOf(pass)[j] \in Whole
  BY <1>4 DEF ToSet
<1> QED BY <1>1, <1>2, <1>4, <1>5, <1>6

\* What a pass walks is fixed by the dump.
LEMMA ItemsStay == ASSUME UNCHANGED dump PROVE \A pass : ItemsOf(pass)' = ItemsOf(pass)
  BY DEF ItemsOf, Accepts

\* A list holds no more things than entries.
LEMMA FewThings == ASSUME NEW s, List(s) PROVE IsFiniteSet(ToSet(s)) /\ Cardinality(ToSet(s)) <= Len(s)
<1>1. Len(s) \in Nat /\ DOMAIN s = 1..Len(s)
  BY ListParts
<1>2. IsFiniteSet(1..Len(s)) /\ Cardinality(1..Len(s)) = Len(s)
  <2>1. 1 \in Int /\ Len(s) \in Int
    BY <1>1
  <2>2. /\ IsFiniteSet(1..Len(s))
        /\ Cardinality(1..Len(s)) = IF 1 > Len(s) THEN 0 ELSE Len(s) - 1 + 1
    BY <2>1, FS_Interval
  <2> QED BY <1>1, <2>2
<1>3. s \in Surjection(1..Len(s), ToSet(s))
  BY <1>1 DEF List, ToSet, Surjection
<1> QED BY <1>2, <1>3, FS_Surjection

\* What joined the scope of a pass is all that did.
LEMMA SeenGrows ==
    ASSUME List(seen), NEW new, List(new), seen' = seen \o new, NEW q, \A x \in ToSet(new) : x.pass = q
    PROVE  /\ List(seen') /\ ToSet(seen') = ToSet(seen) \union ToSet(new)
           /\ \A pass : IsFiniteSet(InScope(pass)) /\ Cardinality(InScope(pass)) \in Nat
           /\ \A pass : InScope(pass) \subseteq InScope(pass)'
           /\ \A pass : pass # q => InScope(pass)' = InScope(pass)
           /\ InScope(q)' = InScope(q) \union ToSet(new)
           /\ Cardinality(InScope(q)') <= Cardinality(InScope(q)) + Len(new)
<1>1. List(seen') /\ ToSet(seen') = ToSet(seen) \union ToSet(new)
  BY Joined
<1>2. \A pass : InScope(pass)' = {x \in ToSet(seen) \union ToSet(new) : x.pass = pass}
  BY <1>1 DEF InScope
<1>3. ASSUME NEW pass PROVE IsFiniteSet(InScope(pass)) /\ Cardinality(InScope(pass)) \in Nat
  <2>1. IsFiniteSet(ToSet(seen)) /\ InScope(pass) \in SUBSET ToSet(seen)
    BY FewThings DEF InScope
  <2> QED BY <2>1, FS_Subset, FS_CardinalityType
<1>4. InScope(q)' = InScope(q) \union ToSet(new)
  BY <1>2 DEF InScope
<1>5. Cardinality(InScope(q)') <= Cardinality(InScope(q)) + Len(new)
  <2>1. IsFiniteSet(ToSet(new)) /\ Cardinality(ToSet(new)) <= Len(new) /\ Len(new) \in Nat
    BY FewThings, ListParts
  <2> DEFINE A == InScope(q)
             B == ToSet(new)
  <2>2. IsFiniteSet(A) /\ Cardinality(A) \in Nat /\ IsFiniteSet(B) /\ Cardinality(B) <= Len(new)
    BY <1>3, <2>1
  <2>3. InScope(q)' = A \union B
    BY <1>4
  <2> HIDE DEF A, B
  <2>4. Cardinality(A \union B) = Cardinality(A) + Cardinality(B) - Cardinality(A \cap B)
    BY <2>2, FS_Union
  <2>5. Cardinality(A \cap B) \in Nat /\ Cardinality(B) \in Nat
    <3>1. A \cap B \in SUBSET A
      OBVIOUS
    <3> QED BY <2>2, <3>1, FS_Subset, FS_CardinalityType
  <2> HIDE DEF A
  <2> QED BY <2>1, <2>2, <2>3, <2>4, <2>5 DEF A
<1> QED BY <1>1, <1>2, <1>3, <1>4, <1>5 DEF InScope

(* One step of a pass. *)

\* Where the run is, in numbers.
LEMMA Standing ==
    ASSUME Given, Place
    PROVE  /\ Hunter \in Hunters /\ h \in 1..Len(roster) /\ Len(roster) \in Nat
           /\ p \in 1..Len(Passes(Hunter)) /\ Len(Passes(Hunter)) \in Nat
           /\ DOMAIN Passes(Hunter) = 1..Len(Passes(Hunter))
           /\ Pass \in AllPasses /\ Pass = Passes(Hunter)[p] /\ Pass \in PassesOf(Hunter)
           /\ k \in 1..(Len(Items) + 1) /\ Len(Items) \in Nat /\ DOMAIN Items = 1..Len(Items)
           /\ Items = ItemsOf(Pass) /\ Begun(Pass)
           /\ Pass = "pipe" <=> Hunter = "pipe"
           /\ Pass \in {"sleep_mask", "entropy", "decode"} => Hunter = "obfuscation"
           /\ Pass = "cs-beacon" => Hunter = "cs-beacon"
<1>1. /\ Len(roster) \in Nat /\ h \in 1..Len(roster) /\ Hunter \in Hunters
  BY RosterIs DEF Place, Hunter
<1>2. /\ Len(Passes(Hunter)) \in Nat /\ DOMAIN Passes(Hunter) = 1..Len(Passes(Hunter))
      /\ p \in 1..Len(Passes(Hunter)) /\ Pass = Passes(Hunter)[p] /\ Pass \in AllPasses
      /\ Pass \in PassesOf(Hunter)
  BY <1>1, PassesAre DEF Place, Pass
<1>3. /\ k \in 1..(Len(Items) + 1) /\ Len(Items) \in Nat /\ DOMAIN Items = 1..Len(Items)
      /\ Items = ItemsOf(Pass)
  BY ItemsAre DEF Place, Items
<1>4. Begun(Pass)
  BY <1>1, <1>2 DEF Begun, Hunter
<1>5. /\ Pass = "pipe" <=> Hunter = "pipe"
      /\ Pass \in {"sleep_mask", "entropy", "decode"} => Hunter = "obfuscation"
      /\ Pass = "cs-beacon" => Hunter = "cs-beacon"
  BY <1>1, <1>2 DEF Passes, Hunters
<1> QED BY <1>1, <1>2, <1>3, <1>4, <1>5

\* A pass that owned up still does, and what it searched stays searched.
LEMMA Grows ==
    ASSUME List(notes), NEW noted, List(noted), notes' = notes \o noted, spent \subseteq spent',
           \A pass : InScope(pass) \subseteq InScope(pass)', UNCHANGED dump
    PROVE  /\ \A pass : Excused(pass) => Excused(pass)'
           /\ \A pass, j : Searched(pass, j) => Searched(pass, j)'
           /\ \A pass, n : Behind(pass, n) => Behind(pass, n)'
<1>1. Len(notes) \in Nat /\ DOMAIN notes = 1..Len(notes) /\ Len(noted) \in Nat
  BY ListParts
<1>2. /\ List(notes') /\ Len(notes') = Len(notes) + Len(noted)
      /\ \A i \in 1..Len(notes) : notes'[i] = notes[i]
  BY Joined
<1>3. DOMAIN notes \subseteq DOMAIN notes' /\ \A i \in DOMAIN notes : notes'[i] = notes[i]
  <2>1. DOMAIN notes' = 1..Len(notes')
    BY <1>2, ListParts
  <2> QED BY <1>1, <1>2, <2>1
<1>4. \A pass : Excused(pass) => Excused(pass)'
  BY <1>3 DEF Excused
<1>5. \A pass, j : Searched(pass, j) => Searched(pass, j)'
  <2>1. \A pass : ItemsOf(pass)' = ItemsOf(pass)
    BY ItemsStay
  <2> QED BY <2>1 DEF Searched
<1>6. \A pass, n : Behind(pass, n) => Behind(pass, n)'
  BY <1>4, <1>5 DEF Behind
<1> QED BY <1>4, <1>5, <1>6

\* Records keep what they earned, and the document what it says.
LEMMA RecordsStay ==
    ASSUME RecordsEarned, Modest, UNCHANGED <<dump, records, document, pc>>,
           \A pass, j : Searched(pass, j) => Searched(pass, j)'
    PROVE  RecordsEarned' /\ Modest'
<1>1. \A pass : ItemsOf(pass)' = ItemsOf(pass)
  BY ItemsStay
<1>2. ASSUME NEW i \in Published PROVE Earned(records[i])'
  <2>1. Earned(records[i])
    BY DEF RecordsEarned
  <2> QED BY <1>1, <2>1 DEF Earned, HasRegions
<1>3. Published' = Published
  BY DEF Published
<1>4. RecordsEarned'
  BY <1>2, <1>3 DEF RecordsEarned, List
<1>5. Modest'
  BY <1>3 DEF Modest, Reports
<1> QED BY <1>4, <1>5

\* The pass takes items k up to k' into scope, leaves gaps of its own, and either has
\* searched each of them or owns up.
LEMMA Visited ==
    ASSUME IInv, AtItem, UNCHANGED <<Run, pc, h, p, Out>>,
           NEW noted, List(noted), notes' = notes \o noted,
           \A i \in DOMAIN noted : /\ noted[i].pass = Pass
                                   /\ noted[i].code \in ScanCodes \union BudgetCodes(Pass)
                                   /\ Pass = "pipe" /\ noted[i].code \in Budgets("pipe")
                                         => noted[i].code \in spent',
           NEW new, List(new), seen' = seen \o new, \A x \in ToSet(new) : x.pass = Pass,
           k' \in k..(Len(Items) + 1), Len(new) <= k' - k,
           spent \subseteq spent', spent' \subseteq Budgets(Hunter),
           \/ noted # <<>>
           \/ Pass \in {"sleep_mask", "decode"} /\ "decode" \in spent'
           \/ \A j \in k..(k' - 1) : \E x \in ToSet(new) :
                 x.range = RangeOf(Items[j]) /\ x.examined = x.range.size
    PROVE  IInv'
<1>0. Given /\ Place /\ Gaps /\ SeenOnce /\ NothingDropped /\ RecordsEarned /\ Modest
  BY DEF IInv
<1>1. /\ UNCHANGED <<dump, roster, answer, pc, h, p, records, document>>
      /\ Hunter' = Hunter /\ Pass' = Pass
  BY DEF Run, Out, Hunter, Pass
<1>2. /\ \A pass : ItemsOf(pass)' = ItemsOf(pass)
      /\ Items' = Items
  BY <1>1, ItemsStay DEF Items
<1>3. /\ Hunter \in Hunters /\ p \in 1..Len(Passes(Hunter)) /\ Len(Passes(Hunter)) \in Nat
      /\ DOMAIN Passes(Hunter) = 1..Len(Passes(Hunter)) /\ Pass \in AllPasses /\ Pass = Passes(Hunter)[p]
      /\ k \in 1..(Len(Items) + 1) /\ Len(Items) \in Nat /\ Items = ItemsOf(Pass) /\ Begun(Pass)
      /\ (Pass = "pipe" <=> Hunter = "pipe") /\ pc = "walk" /\ k <= Len(Items)
  BY <1>0, Standing DEF AtItem
<1>4. \A pass : Begun(pass)' <=> Begun(pass)
  BY <1>1 DEF Begun
<1>5. PICK q : q = Pass
  OBVIOUS
<1>50. /\ List(seen') /\ ToSet(seen') = ToSet(seen) \union ToSet(new)
       /\ \A pass : IsFiniteSet(InScope(pass)) /\ Cardinality(InScope(pass)) \in Nat
       /\ \A pass : InScope(pass) \subseteq InScope(pass)'
       /\ \A pass : pass # q => InScope(pass)' = InScope(pass)
       /\ InScope(q)' = InScope(q) \union ToSet(new)
       /\ Cardinality(InScope(q)') <= Cardinality(InScope(q)) + Len(new)
       /\ Len(new) \in Nat
  <2>1. List(seen) /\ \A x \in ToSet(new) : x.pass = q
    BY <1>0, <1>5 DEF SeenOnce
  <2> QED BY <2>1, SeenGrows, ListParts
<1>51. Cardinality(InScope(q)') \in Nat
  <2>1. IsFiniteSet(ToSet(seen')) /\ InScope(q)' \in SUBSET ToSet(seen')
    BY <1>50, FewThings DEF InScope
  <2> QED BY <2>1, FS_Subset, FS_CardinalityType
<1>6. List(notes) /\ List(notes') /\ Len(notes') = Len(notes) + Len(noted)
  BY <1>0, Joined DEF Gaps, NotesCoded
<1>7. /\ \A pass, j : Searched(pass, j) => Searched(pass, j)'
      /\ \A pass, n : Behind(pass, n) => Behind(pass, n)'
  BY <1>1, <1>50, <1>6, Grows
<1>8. \A i \in DOMAIN notes' : \/ \E j \in DOMAIN notes : notes'[i] = notes[j]
                               \/ \E j \in DOMAIN noted : notes'[i] = noted[j]
  <2>1. ToSet(notes') = ToSet(notes) \union ToSet(noted)
    BY <1>6, Joined
  <2>2. \A i \in DOMAIN notes' : notes'[i] \in ToSet(notes) \union ToSet(noted)
    BY <2>1 DEF ToSet
  <2> QED BY <2>2 DEF ToSet
<1>9. Given'
  BY <1>0, <1>1 DEF Given
<1>10. Place'
  <2>1. k' \in 1..(Len(Items') + 1)
    BY <1>2, <1>3
  <2> QED BY <1>0, <1>1, <2>1 DEF Place
<1>11. Gaps'
  <2>1. ASSUME NEW i \in DOMAIN notes'
        PROVE  /\ notes'[i].code \in ScanCodes \union BudgetCodes(notes'[i].pass)
               /\ Hunter = "pipe" /\ notes'[i].pass = "pipe" /\ notes'[i].code \in Budgets("pipe")
                     => notes'[i].code \in spent'
    <3>1. CASE \E j \in DOMAIN notes : notes'[i] = notes[j]
      BY <1>0, <1>3, <3>1 DEF Gaps, NotesCoded, Working
    <3>2. CASE \E j \in DOMAIN noted : notes'[i] = noted[j]
      BY <1>3, <3>2
    <3> QED BY <1>8, <3>1, <3>2
  <2>2. NotesCoded'
    BY <1>6, <2>1 DEF NotesCoded, List
  <2>3. \A x \in ToSet(notes') : Begun(x.pass)'
    <3>1. ToSet(notes') = ToSet(notes) \union ToSet(noted)
      BY <1>6, Joined
    <3>2. \A x \in ToSet(noted) : x.pass = Pass
      BY DEF ToSet
    <3> QED BY <1>0, <1>3, <1>4, <3>1, <3>2 DEF Gaps
  <2> QED BY <1>1, <2>1, <2>2, <2>3 DEF Gaps
<1>12. SeenOnce'
  <2>1. \A x \in ToSet(seen') : Begun(x.pass)'
    BY <1>0, <1>3, <1>4, <1>5, <1>50 DEF SeenOnce
  <2>2. Cardinality(InScope(q)') <= k' - 1
    <3>1. Cardinality(InScope(q)) <= k - 1 /\ Cardinality(InScope(q)) \in Nat
      BY <1>0, <1>3, <1>5, <1>50 DEF SeenOnce
    <3> QED BY SMTT(30), <1>3, <1>50, <1>51, <3>1
  <2>3. Cardinality(InScope(q)') <= Len(ItemsOf(q))
    BY <1>3, <1>5, <1>51, <2>2
  <2>4. \A pass \in AllPasses : Cardinality(InScope(pass)') <= Len(ItemsOf(pass)')
    BY <1>0, <1>2, <1>50, <2>3 DEF SeenOnce
  <2>5. Pass' = q /\ pc' = "walk"
    BY <1>1, <1>3, <1>5
  <2> QED BY <1>50, <2>1, <2>2, <2>4, <2>5 DEF SeenOnce, List
<1>13. NothingDropped'
  <2>1. PICK m : m = k' - 1
    OBVIOUS
  <2>2. Behind(q, k - 1)
    <3>1. p \in 1..p /\ Working
      BY <1>3 DEF Working
    <3>2. Behind(Passes(Hunter)[p],
                 IF p < p \/ pc = "publish" THEN Len(ItemsOf(Passes(Hunter)[p])) ELSE k - 1)
      BY <1>0, <3>1 DEF NothingDropped
    <3> QED BY <1>3, <1>5, <3>2
  <2>3. Behind(q, m)'
    <3>1. CASE noted # <<>>
      <4>1. Len(noted) \in Nat \ {0} /\ Len(notes) \in Nat /\ DOMAIN noted = 1..Len(noted)
        BY <1>6, <3>1, ListParts
      <4>2. notes'[Len(notes) + 1] = noted[1] /\ 1 \in DOMAIN noted
        BY <1>6, <4>1, Joined
      <4>3. Len(notes) + 1 \in DOMAIN notes'
        <5>1. DOMAIN notes' = 1..Len(notes')
          BY <1>6, ListParts
        <5> QED BY <1>6, <4>1, <5>1
      <4> QED BY <1>5, <4>2, <4>3 DEF Behind, Excused
    <3>2. CASE Pass \in {"sleep_mask", "decode"} /\ "decode" \in spent'
      BY <1>5, <3>2 DEF Behind, Excused
    <3>3. CASE \A j \in k..(k' - 1) : \E x \in ToSet(new) :
                  x.range = RangeOf(Items[j]) /\ x.examined = x.range.size
      <4>1. CASE Excused(q)
        BY <1>1, <1>50, <1>6, <4>1, Grows DEF Behind
      <4>2. CASE \A j \in 1..(k - 1) : Searched(q, j)
        <5>1. \A j \in k..m : Searched(q, j)'
          BY <1>1, <1>2, <1>3, <1>5, <1>50, <2>1, <3>3 DEF Searched
        <5>2. \A j \in 1..(k - 1) : Searched(q, j)'
          BY <1>7, <4>2
        <5>3. \A j \in 1..m : j \in 1..(k - 1) \/ j \in k..m
          <6>1. k \in Nat
            BY <1>3
          <6>2. m \in Int
            BY <1>3, <2>1
          <6> QED BY <6>1, <6>2
        <5>4. \A j \in 1..m : Searched(q, j)'
          BY <5>1, <5>2, <5>3
        <5> QED BY <5>4 DEF Behind
      <4> QED BY <2>2, <4>1, <4>2 DEF Behind
    <3> QED BY <3>1, <3>2, <3>3
  <2>4. ASSUME NEW n \in 1..p, n < p
        PROVE  Behind(Passes(Hunter)[n], Len(ItemsOf(Passes(Hunter)[n])))'
    <3>1. PICK a, e : a = Passes(Hunter)[n] /\ e = Len(ItemsOf(a))
      OBVIOUS
    <3>2. Behind(a, e)
      BY <1>0, <1>3, <2>4, <3>1 DEF NothingDropped, Working
    <3>3. Behind(a, e)'
      BY <1>7, <3>2
    <3>4. Passes(Hunter')[n] = a /\ Len(ItemsOf(a)') = e
      BY <1>1, <1>2, <3>1
    <3> QED BY <3>3, <3>4
  <2>5. Passes(Hunter')[p'] = q /\ pc' = "walk" /\ p' = p /\ p \in Nat /\ m = k' - 1
    BY <1>1, <1>3, <1>5, <2>1
  <2>6. ASSUME NEW n \in 1..p
        PROVE  Behind(Passes(Hunter)[n],
                      IF n < p \/ pc = "publish" THEN Len(ItemsOf(Passes(Hunter)[n])) ELSE k - 1)'
    <3>1. CASE n < p
      BY <2>4, <2>5, <3>1
    <3>2. CASE ~(n < p)
      <4>1. n = p
        BY <2>5, <3>2
      <4> QED BY <2>3, <2>5, <4>1
    <3> QED BY <3>1, <3>2
  <2> QED BY <2>5, <2>6 DEF NothingDropped
<1>14. RecordsEarned' /\ Modest'
  BY <1>0, <1>1, <1>7, RecordsStay
<1> QED BY <1>9, <1>10, <1>11, <1>12, <1>13, <1>14 DEF IInv

(* The actions. *)

\* Gaps an item of this pass may leave: in its codes, and in a budget's only once spent.
Fitting(noted) ==
    /\ List(noted)
    /\ \A x \in ToSet(noted) :
          /\ x.pass = Pass /\ x.code \in ScanCodes \union BudgetCodes(Pass)
          /\ Pass = "pipe" /\ x.code \in Budgets("pipe") => x.code \in spent'

\* No gap at all fits.
LEMMA FitEmpty == Fitting(<<>>)
  BY ShortLists DEF Fitting

\* So does a gap of a scan code, or of a budget that is spent.
LEMMA FitNote ==
    ASSUME NEW code, NEW examined,
           code \in ScanCodes \/ (code \in BudgetCodes(Pass) /\ (Pass = "pipe" => code \in spent'))
    PROVE  Fitting(Note(code, examined)) /\ Note(code, examined) # <<>>
<1> DEFINE e == [pass |-> Pass, code |-> code, target |-> TargetAt(Item, examined)]
<1>1. Note(code, examined) = <<e>> /\ e.pass = Pass /\ e.code = code
  BY DEF Note
<1> HIDE DEF e
<1>2. List(<<e>>) /\ ToSet(<<e>>) = {e} /\ <<e>> # <<>>
  BY ShortLists
<1>3. \A c \in ScanCodes : c \notin Budgets("pipe")
  BY DEF ScanCodes, Budgets
<1> QED BY <1>1, <1>2, <1>3 DEF Fitting

\* So do two lists that fit, joined.
LEMMA FitJoined ==
    ASSUME NEW s, NEW t, Fitting(s), Fitting(t)
    PROVE  Fitting(s \o t) /\ (s \o t = <<>> => s = <<>> /\ t = <<>>)
<1>1. List(s) /\ List(t)
  BY DEF Fitting
<1>2. List(s \o t) /\ ToSet(s \o t) = ToSet(s) \union ToSet(t)
  BY <1>1, Joined
<1>3. s \o t = <<>> => ToSet(s) = {} /\ ToSet(t) = {}
  BY <1>2, ListParts
<1> QED BY <1>1, <1>2, <1>3, ListParts DEF Fitting

\* One item is visited: every byte of it was searched, or it left a gap, or the decode
\* budget ended its search.
LEMMA VisitedOne ==
    ASSUME IInv, AtItem, UNCHANGED <<Run, pc, h, p, Out>>,
           NEW noted, Fitting(noted), NEW examined, Visit(noted, examined),
           spent \subseteq spent', spent' \subseteq Budgets(Hunter),
           \/ noted # <<>>
           \/ Pass \in {"sleep_mask", "decode"} /\ "decode" \in spent'
           \/ examined = Item.size
    PROVE  IInv'
<1> DEFINE e == [pass |-> Pass, range |-> RangeOf(Item), captured |-> Captured(Item), examined |-> examined]
<1>1. notes' = notes \o noted /\ seen' = Append(seen, e) /\ k' = k + 1
  BY DEF Visit
<1>2. e.pass = Pass /\ e.range = RangeOf(Item) /\ e.examined = examined
  OBVIOUS
<1> HIDE DEF e
<1>3. List(<<e>>) /\ ToSet(<<e>>) = {e} /\ Len(<<e>>) = 1
  BY ShortLists
<1>4. seen' = seen \o <<e>>
  <2>1. List(seen)
    BY DEF IInv, SeenOnce
  <2> DEFINE S == ToSet(seen) \union {e}
  <2>2. seen \in Seq(S)
    <3>1. Len(seen) \in Nat /\ seen \in [1..Len(seen) -> ToSet(seen)]
      BY <2>1, ListParts DEF List
    <3>2. seen \in [1..Len(seen) -> S]
      BY <3>1
    <3> QED BY <3>1, <3>2, SeqDef
  <2>3. e \in S
    OBVIOUS
  <2> HIDE DEF S
  <2> QED BY <1>1, <2>2, <2>3
<1>5. k \in 1..(Len(Items) + 1) /\ Len(Items) \in Nat /\ k <= Len(Items)
  BY Standing DEF IInv, AtItem
<1>6. Item = Items[k] /\ RangeOf(Item).size = Item.size
  BY DEF Item, RangeOf, VirtualRange
<1>7. k' \in k..(Len(Items) + 1) /\ Len(<<e>>) <= k' - k /\ k..(k' - 1) = {k}
  BY <1>1, <1>3, <1>5
<1>8. \A i \in DOMAIN noted : noted[i] \in ToSet(noted)
  BY DEF ToSet
<1>9. examined = Item.size => \A j \in k..(k' - 1) : \E x \in ToSet(<<e>>) :
                                 x.range = RangeOf(Items[j]) /\ x.examined = x.range.size
  BY <1>2, <1>3, <1>6, <1>7
<1>10. \A x \in ToSet(<<e>>) : x.pass = Pass
  BY <1>2, <1>3
<1>11. /\ List(noted)
       /\ \A i \in DOMAIN noted : /\ noted[i].pass = Pass
                                  /\ noted[i].code \in ScanCodes \union BudgetCodes(Pass)
                                  /\ Pass = "pipe" /\ noted[i].code \in Budgets("pipe")
                                        => noted[i].code \in spent'
  BY <1>8 DEF Fitting
<1> QED BY <1>1, <1>3, <1>4, <1>7, <1>9, <1>10, <1>11, Visited

\* What came back is the whole item, or the pass says it was short.
LEMMA ShortReadIs ==
    ASSUME IInv, AtItem
    PROVE  Fitting(ShortRead) /\ (ShortRead # <<>> \/ Got = Item.size)
<1>1. Got \in 0..Item.size /\ Item.size \in Nat
  <2>1. Given /\ Place
    BY DEF IInv
  <2>2. Items = ItemsOf(Pass) /\ k \in DOMAIN Items
    BY <2>1, Standing DEF AtItem
  <2> QED BY <2>1, <2>2, ItemsAre DEF Got, Item
<1>2. "SCAN_REGION_SHORT_READ" \in ScanCodes
  BY DEF ScanCodes
<1>3. CASE Got < Item.size
  <2>1. ShortRead = Note("SCAN_REGION_SHORT_READ", Got)
    BY <1>3 DEF ShortRead
  <2> QED BY <1>2, <2>1, FitNote
<1>4. CASE ~(Got < Item.size)
  <2>1. ShortRead = <<>>
    BY <1>4 DEF ShortRead
  <2> QED BY <1>1, <1>4, <2>1, FitEmpty
<1> QED BY <1>3, <1>4

\* An oversized item is a gap.
LEMMA SkipOversizeKeeps == ASSUME IInv, SkipOversize PROVE IInv'
<1> DEFINE noted == Note("SCAN_REGION_OVERSIZED_SKIPPED", 0)
<1>1. AtItem /\ Visit(noted, 0) /\ UNCHANGED <<Run, pc, h, p, spent, Out>>
  BY DEF SkipOversize
<1>2. Fitting(noted) /\ noted # <<>>
  BY FitNote DEF ScanCodes
<1>3. spent \subseteq spent' /\ spent' \subseteq Budgets(Hunter)
  BY <1>1 DEF IInv, Place
<1> HIDE DEF noted
<1> QED BY <1>1, <1>2, <1>3, VisitedOne

\* A region pipe does not read is a gap of both budgets.
LEMMA SkipUnbudgetedKeeps == ASSUME IInv, SkipUnbudgeted PROVE IInv'
<1> DEFINE a == Note("pipe_name", 0)
           b == Note("c2_context", 0)
<1>1. /\ AtItem /\ Visit(a \o b, 0) /\ UNCHANGED <<Run, pc, h, p, spent, Out>>
      /\ Pass = "pipe" /\ spent = Budgets("pipe")
  BY DEF SkipUnbudgeted
<1>2. Fitting(a) /\ a # <<>> /\ Fitting(b)
  BY <1>1, FitNote DEF BudgetCodes, Budgets
<1> HIDE DEF a, b
<1>3. Fitting(a \o b) /\ a \o b # <<>>
  BY <1>2, FitJoined
<1>4. spent \subseteq spent' /\ spent' \subseteq Budgets(Hunter)
  BY <1>1 DEF IInv, Place
<1> QED BY <1>1, <1>3, <1>4, VisitedOne

\* An item nothing of which came back is a gap.
LEMMA ReadFailsKeeps == ASSUME IInv, ReadFails PROVE IInv'
<1> DEFINE noted == Note("SCAN_REGION_READ_FAILED", 0)
<1>1. AtItem /\ Visit(noted, 0) /\ UNCHANGED <<Run, pc, h, p, spent, Out>>
  BY DEF ReadFails, Reads
<1>2. Fitting(noted) /\ noted # <<>>
  BY FitNote DEF ScanCodes
<1>3. spent \subseteq spent' /\ spent' \subseteq Budgets(Hunter)
  BY <1>1 DEF IInv, Place
<1> HIDE DEF noted
<1> QED BY <1>1, <1>2, <1>3, VisitedOne

\* What is too little to measure is all there was, or a gap.
LEMMA TooLittleKeeps == ASSUME IInv, TooLittle PROVE IInv'
<1>1. AtItem /\ Visit(ShortRead, Got) /\ UNCHANGED <<Run, pc, h, p, spent, Out>>
  BY DEF TooLittle, Reads
<1>2. Fitting(ShortRead) /\ (ShortRead # <<>> \/ Got = Item.size)
  BY <1>1, ShortReadIs
<1>3. spent \subseteq spent' /\ spent' \subseteq Budgets(Hunter)
  BY <1>1 DEF IInv, Place
<1> QED BY <1>1, <1>2, <1>3, VisitedOne

\* A segment that was searched came back whole, or is a gap.
LEMMA SearchSegmentKeeps == ASSUME IInv, SearchSegment PROVE IInv'
<1>1. AtItem /\ Visit(ShortRead, Got) /\ UNCHANGED <<Run, pc, h, p, spent, Out>>
  BY DEF SearchSegment, Reads
<1>2. Fitting(ShortRead) /\ (ShortRead # <<>> \/ Got = Item.size)
  BY <1>1, ShortReadIs
<1>3. spent \subseteq spent' /\ spent' \subseteq Budgets(Hunter)
  BY <1>1 DEF IInv, Place
<1> QED BY <1>1, <1>2, <1>3, VisitedOne

\* A layer that read its region whole searched it, unless the decode budget cut it off.
LEMMA SearchLayerKeeps == ASSUME IInv, SearchLayer PROVE IInv'
<1>1. AtItem /\ Pass \in Layers /\ UNCHANGED <<Run, pc, h, p, Out>>
  BY DEF SearchLayer, Reads
<1>2. PICK cut \in BOOLEAN :
         /\ cut => Pass # "entropy"
         /\ Visit(ShortRead, IF cut THEN 0 ELSE Got)
         /\ spent' = IF cut THEN spent \union {"decode"} ELSE spent
  BY DEF SearchLayer
<1>3. Fitting(ShortRead) /\ (ShortRead # <<>> \/ Got = Item.size)
  BY <1>1, ShortReadIs
<1>4. spent \subseteq Budgets(Hunter) /\ (cut => Hunter = "obfuscation")
  BY <1>1, Standing DEF IInv, Place, Layers
<1>5. spent \subseteq spent' /\ spent' \subseteq Budgets(Hunter)
  BY <1>2, <1>4 DEF Budgets
<1>6. CASE cut
  <2>1. Visit(ShortRead, 0) /\ Pass \in {"sleep_mask", "decode"} /\ "decode" \in spent'
    BY <1>1, <1>2, <1>6 DEF Layers
  <2> QED BY <1>1, <1>3, <1>5, <2>1, VisitedOne
<1>7. CASE ~cut
  <2>1. Visit(ShortRead, Got)
    BY <1>2, <1>7
  <2> QED BY <1>1, <1>3, <1>5, <2>1, VisitedOne
<1> QED BY <1>6, <1>7

\* A region whose names or context a pipe budget left unresolved is among its gaps.
LEMMA SearchPipeKeeps == ASSUME IInv, SearchPipe PROVE IInv'
<1>1. AtItem /\ Pass = "pipe" /\ UNCHANGED <<Run, pc, h, p, Out>>
  BY DEF SearchPipe, Reads
<1>2. PICK nameCut \in BOOLEAN, c2Cut \in BOOLEAN :
         /\ Visit(ShortRead \o PipeNotes(nameCut, c2Cut), IF nameCut \/ c2Cut THEN 0 ELSE Got)
         /\ nameCut => "pipe_name" \in spent'
         /\ c2Cut => "c2_context" \in spent'
         /\ spent \subseteq spent' /\ spent' \subseteq spent \union {"pipe_name", "c2_context"}
  <2>1. PICK cut \in BOOLEAN, leads \in BOOLEAN, c2cut \in BOOLEAN :
           LET started == "pipe_name" \notin spent
               nameCut == ~started \/ cut
               c2Cut   == leads /\ (c2cut \/ "c2_context" \in spent)
           IN /\ Visit(ShortRead \o PipeNotes(nameCut, c2Cut), IF nameCut \/ c2Cut THEN 0 ELSE Got)
              /\ spent' = spent \union (IF cut THEN {"pipe_name"} ELSE {})
                                \union (IF c2cut THEN {"c2_context"} ELSE {})
    BY DEF SearchPipe
  <2> DEFINE nameCut == "pipe_name" \in spent \/ cut
             c2Cut == leads /\ (c2cut \/ "c2_context" \in spent)
  <2>2. nameCut \in BOOLEAN /\ c2Cut \in BOOLEAN
    OBVIOUS
  <2>3. Visit(ShortRead \o PipeNotes(nameCut, c2Cut), IF nameCut \/ c2Cut THEN 0 ELSE Got)
    BY <2>1
  <2>4. /\ nameCut => "pipe_name" \in spent'
        /\ c2Cut => "c2_context" \in spent'
        /\ spent \subseteq spent' /\ spent' \subseteq spent \union {"pipe_name", "c2_context"}
    BY <2>1
  <2> HIDE DEF nameCut, c2Cut
  <2> QED BY <2>2, <2>3, <2>4
<1>3. Fitting(ShortRead) /\ (ShortRead # <<>> \/ Got = Item.size)
  BY <1>1, ShortReadIs
<1>4. spent \subseteq spent' /\ spent' \subseteq Budgets(Hunter)
  <2>1. spent \subseteq Budgets(Hunter) /\ Hunter = "pipe"
    BY <1>1, Standing DEF IInv, Place
  <2> QED BY <1>2, <2>1 DEF Budgets
<1> DEFINE a == IF nameCut THEN Note("pipe_name", Unmeasured) ELSE <<>>
           b == IF c2Cut THEN Note("c2_context", Unmeasured) ELSE <<>>
           noted == ShortRead \o (a \o b)
<1>5. Fitting(a) /\ (nameCut => a # <<>>)
  BY <1>1, <1>2, FitNote, FitEmpty DEF BudgetCodes
<1>6. Fitting(b) /\ (c2Cut => b # <<>>)
  BY <1>1, <1>2, FitNote, FitEmpty DEF BudgetCodes
<1>7. noted = ShortRead \o PipeNotes(nameCut, c2Cut)
  BY DEF PipeNotes
<1> HIDE DEF a, b
<1>8. Fitting(a \o b) /\ (a \o b = <<>> => a = <<>> /\ b = <<>>)
  BY <1>5, <1>6, FitJoined
<1>9. Fitting(noted) /\ (noted = <<>> => ShortRead = <<>> /\ a \o b = <<>>)
  BY <1>3, <1>8, FitJoined
<1> HIDE DEF noted
<1>10. CASE nameCut \/ c2Cut
  <2>1. Visit(noted, 0) /\ noted # <<>>
    BY <1>2, <1>5, <1>6, <1>7, <1>8, <1>9, <1>10
  <2> QED BY <1>1, <1>4, <1>9, <2>1, VisitedOne
<1>11. CASE ~(nameCut \/ c2Cut)
  <2>1. Visit(noted, Got) /\ (noted # <<>> \/ Got = Item.size)
    BY <1>2, <1>3, <1>7, <1>9, <1>11
  <2> QED BY <1>1, <1>4, <1>9, <2>1, VisitedOne
<1> QED BY <1>10, <1>11

\* The segments a budget leaves behind, the one it stops in included, are among the gaps.
LEMMA StopSegmentsKeeps == ASSUME IInv, StopSegments PROVE IInv'
<1> DEFINE n == Len(Items) - k + 1
           left == [i \in 1..n |-> i + k - 1]
           stop == "CS_BEACON_SCAN_BUDGET_EXHAUSTED"
<1>1. /\ AtItem /\ Pass = "cs-beacon" /\ UNCHANGED <<Run, pc, h, p, Out>> /\ k' = Len(Items) + 1
  BY DEF StopSegments
<1> DEFINE Left(short, gap, new) ==
         /\ short \in {<<>>, ShortRead}
         /\ List(gap) /\ gap # <<>> /\ \A x \in ToSet(gap) : x.pass = Pass /\ x.code = stop
         /\ List(new) /\ Len(new) = n /\ \A x \in ToSet(new) : x.pass = Pass
         /\ notes' = notes \o short \o gap /\ seen' = seen \o new
         /\ spent' = spent \union {"cs-beacon"}
<1>2. PICK short, gap, new : Left(short, gap, new)
  <2>0. n \in Nat \ {0}
    BY <1>1, Standing DEF IInv, AtItem
  <2>1. PICK started \in BOOLEAN, found \in BOOLEAN, cursor \in {Unmeasured} \union (0..Item.size) :
           LET first(j) == IF j = k /\ started THEN cursor ELSE 0
           IN /\ notes' = notes \o (IF started THEN ShortRead ELSE <<>>)
                    \o [i \in DOMAIN left |->
                          [pass |-> Pass, code |-> "CS_BEACON_SCAN_BUDGET_EXHAUSTED",
                           target |-> SegmentTarget(Items[left[i]], first(left[i]))]]
              /\ seen' = seen \o [i \in DOMAIN left |->
                    [pass |-> Pass, range |-> RangeOf(Items[left[i]]),
                     captured |-> Items[left[i]].size, examined |-> Max({0, first(left[i])})]]
              /\ spent' = spent \union {"cs-beacon"}
    BY DEF StopSegments
  <2> DEFINE first(j) == IF j = k /\ started THEN cursor ELSE 0
             short == IF started THEN ShortRead ELSE <<>>
             gap == [i \in DOMAIN left |->
                       [pass |-> Pass, code |-> "CS_BEACON_SCAN_BUDGET_EXHAUSTED",
                        target |-> SegmentTarget(Items[left[i]], first(left[i]))]]
             new == [i \in DOMAIN left |->
                       [pass |-> Pass, range |-> RangeOf(Items[left[i]]),
                        captured |-> Items[left[i]].size, examined |-> Max({0, first(left[i])})]]
  <2>2. DOMAIN left = 1..n
    OBVIOUS
  <2>3. /\ notes' = notes \o short \o gap /\ seen' = seen \o new
        /\ spent' = spent \union {"cs-beacon"}
    BY <2>1
  <2> HIDE DEF n, left, first
  <2>4. gap = [i \in 1..n |-> gap[i]] /\ \A i \in 1..n : gap[i].pass = Pass /\ gap[i].code = stop
    BY <2>2
  <2>5. new = [i \in 1..n |-> new[i]] /\ \A i \in 1..n : new[i].pass = Pass
    BY <2>2
  <2>6. short \in {<<>>, ShortRead}
    OBVIOUS
  <2> HIDE DEF gap, new, short, stop
  <2>7. List(gap) /\ gap # <<>> /\ \A x \in ToSet(gap) : x.pass = Pass /\ x.code = stop
    <3>1. List(gap) /\ Len(gap) = n /\ ToSet(gap) = {gap[i] : i \in 1..n}
      BY <2>0, <2>4, ListIs
    <3>2. gap # <<>>
      BY <2>0, <3>1, ListParts
    <3> QED BY <2>4, <3>1, <3>2
  <2>8. List(new) /\ Len(new) = n /\ \A x \in ToSet(new) : x.pass = Pass
    <3>1. List(new) /\ Len(new) = n /\ ToSet(new) = {new[i] : i \in 1..n}
      BY <2>0, <2>5, ListIs
    <3> QED BY <2>5, <3>1
  <2>9. Left(short, gap, new)
    BY <2>3, <2>6, <2>7, <2>8
  <2> HIDE DEF Left
  <2> QED BY <2>9
<1>3. Fitting(short)
  BY <1>1, <1>2, ShortReadIs, FitEmpty
<1>4. n \in Nat \ {0} /\ k \in Nat /\ Len(Items) \in Nat
  BY <1>1, Standing DEF IInv, AtItem
<1> HIDE DEF n
<1>5. Fitting(gap) /\ gap # <<>>
  <2>1. stop \in BudgetCodes("cs-beacon")
    BY DEF BudgetCodes
  <2> QED BY <1>1, <1>2, <2>1 DEF Fitting
<1>6. Fitting(short \o gap) /\ short \o gap # <<>>
  BY <1>3, <1>5, FitJoined
<1>7. notes' = notes \o (short \o gap)
  <2>1. List(notes) /\ List(short) /\ List(gap)
    BY <1>3, <1>5 DEF Fitting, IInv, Gaps, NotesCoded
  <2> DEFINE S == ToSet(notes) \union ToSet(short) \union ToSet(gap)
  <2>2. notes \in Seq(S) /\ short \in Seq(S) /\ gap \in Seq(S)
    <3>1. ASSUME NEW s, List(s), ToSet(s) \subseteq S PROVE s \in Seq(S)
      <4>1. Len(s) \in Nat /\ s \in [1..Len(s) -> ToSet(s)]
        BY <3>1, ListParts DEF List
      <4> HIDE DEF S
      <4>2. s \in [1..Len(s) -> S]
        BY <3>1, <4>1
      <4> QED BY <4>1, <4>2, SeqDef
    <3> QED BY <2>1, <3>1
  <2> HIDE DEF S
  <2>3. (notes \o short) \o gap = notes \o (short \o gap)
    BY <2>2, ConcatAssociative
  <2> QED BY <1>2, <2>3
<1>10. k' \in k..(Len(Items) + 1) /\ Len(new) <= k' - k
  BY <1>1, <1>2, <1>4 DEF n
<1>11. spent \subseteq spent' /\ spent' \subseteq Budgets(Hunter)
  <2>1. spent \subseteq Budgets(Hunter) /\ Hunter = "cs-beacon"
    BY <1>1, Standing DEF IInv, Place
  <2> QED BY <1>2, <2>1 DEF Budgets
<1> DEFINE noted == short \o gap
<1>12. \A i \in DOMAIN noted : noted[i] \in ToSet(noted)
  BY DEF ToSet
<1>13. /\ List(noted) /\ noted # <<>> /\ notes' = notes \o noted
       /\ \A i \in DOMAIN noted : /\ noted[i].pass = Pass
                                  /\ noted[i].code \in ScanCodes \union BudgetCodes(Pass)
                                  /\ Pass = "pipe" /\ noted[i].code \in Budgets("pipe")
                                        => noted[i].code \in spent'
  <2> HIDE DEF noted
  <2> QED BY <1>6, <1>7, <1>12 DEF Fitting, noted
<1> HIDE DEF noted
<1> QED BY <1>1, <1>2, <1>10, <1>11, <1>13, Visited

\* A pass that saw nothing new searched what it had.
LEMMA Unseen ==
    ASSUME UNCHANGED <<dump, seen>>
    PROVE  /\ \A pass : ItemsOf(pass)' = ItemsOf(pass) /\ InScope(pass)' = InScope(pass)
           /\ \A pass, j : Searched(pass, j) => Searched(pass, j)'
<1>1. \A pass : ItemsOf(pass)' = ItemsOf(pass)
  BY ItemsStay
<1>2. \A pass : InScope(pass)' = InScope(pass)
  BY DEF InScope
<1> QED BY <1>1, <1>2 DEF Searched

\* The invariant stands while a budget runs out and nothing else moves.
LEMMA Resting ==
    ASSUME IInv, UNCHANGED <<dump, roster, answer, pc, h, p, k, notes, seen, records, document>>,
           spent \subseteq spent', spent' \subseteq Budgets(Hunter)
    PROVE  IInv'
<1>0. Given /\ Place /\ Gaps /\ SeenOnce /\ NothingDropped /\ RecordsEarned /\ Modest
  BY DEF IInv
<1>1. /\ UNCHANGED <<dump, roster, answer, pc, h, p, k, notes, seen, records, document>>
      /\ spent \subseteq spent' /\ spent' \subseteq Budgets(Hunter)
  OBVIOUS
<1>2. /\ Hunter' = Hunter /\ Pass' = Pass /\ Items' = Items
      /\ \A pass : Begun(pass)' <=> Begun(pass)
  BY <1>1, ItemsStay DEF Hunter, Pass, Items, Begun
<1>3. /\ \A pass : ItemsOf(pass)' = ItemsOf(pass) /\ InScope(pass)' = InScope(pass)
      /\ \A pass, j : Searched(pass, j) => Searched(pass, j)'
  BY <1>1, Unseen
<1>4. \A pass, n : Behind(pass, n) => Behind(pass, n)'
  <2>1. \A pass : Excused(pass) => Excused(pass)'
    BY <1>1 DEF Excused
  <2> QED BY <1>3, <2>1 DEF Behind
<1>5. Given'
  BY <1>0, <1>1 DEF Given
<1>6. Place'
  BY <1>0, <1>1, <1>2 DEF Place
<1>7. Gaps'
  BY <1>0, <1>1, <1>2 DEF Gaps, NotesCoded, List, Working
<1>8. SeenOnce'
  <2>1. PICK q : q = Pass
    OBVIOUS
  <2> QED BY <1>0, <1>1, <1>2, <1>3, <2>1 DEF SeenOnce, List
<1>9. NothingDropped'
  <2>1. ASSUME NEW n \in 1..p, Working
        PROVE  Behind(Passes(Hunter)[n],
                      IF n < p \/ pc = "publish" THEN Len(ItemsOf(Passes(Hunter)[n])) ELSE k - 1)'
    <3>1. PICK a, e : /\ a = Passes(Hunter)[n]
                      /\ e = IF n < p \/ pc = "publish" THEN Len(ItemsOf(Passes(Hunter)[n])) ELSE k - 1
      OBVIOUS
    <3>2. Behind(a, e)'
      BY <1>0, <1>4, <2>1, <3>1 DEF NothingDropped
    <3>3. /\ a = Passes(Hunter')[n]
          /\ e = IF n < p' \/ pc' = "publish" THEN Len(ItemsOf(Passes(Hunter)[n])') ELSE k' - 1
      BY <1>1, <1>2, <1>3, <3>1
    <3> QED BY <3>2, <3>3
  <2> QED BY <1>1, <2>1 DEF NothingDropped, Working
<1>10. RecordsEarned' /\ Modest'
  BY <1>0, <1>1, <1>3, RecordsStay
<1> QED BY <1>5, <1>6, <1>7, <1>8, <1>9, <1>10 DEF IInv

\* A budget runs out.
LEMMA SpendKeeps == ASSUME IInv, Spend PROVE IInv'
<1>1. /\ UNCHANGED <<dump, roster, answer, pc, h, p, k, notes, seen, records, document>>
      /\ spent \subseteq spent' /\ spent' \subseteq Budgets(Hunter)
  BY DEF IInv, Spend, Run, Out, Place
<1> QED BY <1>1, Resting

\* A pass that did not begin saw nothing.
LEMMA NotBegun ==
    ASSUME SeenOnce, NEW q, ~Begun(q)
    PROVE  InScope(q) = {} /\ Cardinality(InScope(q)) = 0
<1>1. InScope(q) = {}
  BY DEF SeenOnce, InScope
<1> QED BY <1>1, FS_EmptySet

\* A pass ends with nothing left to search, or with its budget spent.
LEMMA EndPassKeeps == ASSUME IInv, EndPass PROVE IInv'
<1>0. Given /\ Place /\ Gaps /\ SeenOnce /\ NothingDropped /\ RecordsEarned /\ Modest
  BY DEF IInv
<1>1. /\ UNCHANGED <<dump, roster, answer, h, spent, notes, seen, records, document>>
      /\ pc = "walk" /\ (k > Len(Items) \/ Stopped) /\ Hunter' = Hunter
      /\ \/ p < Len(Passes(Hunter)) /\ p' = p + 1 /\ k' = 1 /\ pc' = pc
         \/ ~(p < Len(Passes(Hunter))) /\ pc' = "publish" /\ p' = p /\ k' = k
  BY DEF EndPass, Run, Out, Hunter
<1>2. /\ \A pass : ItemsOf(pass)' = ItemsOf(pass) /\ InScope(pass)' = InScope(pass)
      /\ \A pass, j : Searched(pass, j) => Searched(pass, j)'
  BY <1>1, Unseen
<1>3. /\ Hunter \in Hunters /\ h \in 1..Len(roster) /\ Len(roster) \in Nat
      /\ p \in 1..Len(Passes(Hunter)) /\ Len(Passes(Hunter)) \in Nat
      /\ DOMAIN Passes(Hunter) = 1..Len(Passes(Hunter))
      /\ Pass = Passes(Hunter)[p] /\ Items = ItemsOf(Pass)
      /\ k \in 1..(Len(Items) + 1) /\ Len(Items) \in Nat
  BY <1>0, Standing
<1>4. \A pass : Excused(pass)' <=> Excused(pass)
  BY <1>1 DEF Excused
<1>5. \A pass, n : Behind(pass, n) => Behind(pass, n)'
  BY <1>2, <1>4 DEF Behind
<1>6. p' \in 1..Len(Passes(Hunter)) /\ p <= p'
  BY <1>1, <1>3
<1>7. ASSUME NEW pass, Begun(pass) PROVE Begun(pass)'
  <2>1. PICK g \in 1..h : \E n \in DOMAIN Passes(roster[g]) :
                             Passes(roster[g])[n] = pass /\ (g = h => n <= p)
    BY <1>7 DEF Begun
  <2>2. PICK n \in DOMAIN Passes(roster[g]) : Passes(roster[g])[n] = pass /\ (g = h => n <= p)
    BY <2>1
  <2>3. g = h => n <= p'
    <3> SUFFICES ASSUME g = h PROVE n <= p'
      OBVIOUS
    <3>1. n \in 1..Len(Passes(Hunter)) /\ n <= p
      BY <1>3, <2>2 DEF Hunter
    <3> QED BY <1>3, <1>6, <3>1
  <2> QED BY <1>1, <2>2, <2>3 DEF Begun
<1>8. PICK q : q = Passes(Hunter)[p']
  OBVIOUS
<1>9. /\ Pass' = q /\ Items' = ItemsOf(q) /\ ItemsOf(q)' = ItemsOf(q)
      /\ Len(ItemsOf(q)) \in Nat /\ Hunter' = Hunter
  <2>1. Pass' = q
    BY <1>1, <1>8 DEF Pass
  <2>2. Len(ItemsOf(q)) \in Nat
    BY <1>0, ItemsAre
  <2> QED BY <1>1, <1>2, <2>1, <2>2 DEF Items
<1>10. Given'
  BY <1>0, <1>1 DEF Given
<1>11. Place'
  <2>1. k' \in 1..(Len(Items') + 1)
    BY <1>1, <1>3, <1>8, <1>9
  <2>2. pc' \in {"walk", "publish"} /\ (pc' = "publish" => p' = Len(Passes(Hunter)))
    BY <1>1, <1>3
  <2> QED BY <1>0, <1>1, <1>3, <1>6, <2>1, <2>2 DEF Place
<1>12. Gaps'
  <2>1. NotesCoded'
    BY <1>0, <1>1 DEF Gaps, NotesCoded, List
  <2>2. \A x \in ToSet(notes') : Begun(x.pass)'
    BY <1>0, <1>1, <1>7 DEF Gaps
  <2> QED BY <1>0, <1>1, <2>1, <2>2 DEF Gaps, Working
<1>13. SeenOnce'
  <2>1. pc' = "walk" => Cardinality(InScope(q)) <= k' - 1
    <3> SUFFICES ASSUME pc' = "walk" PROVE Cardinality(InScope(q)) <= k' - 1
      OBVIOUS
    <3>1. p' = p + 1 /\ k' = 1
      BY <1>1
    <3>2. ~Begun(q)
      <4> SUFFICES ASSUME Begun(q) PROVE FALSE
        OBVIOUS
      <4>1. PICK g \in 1..h : \E n \in DOMAIN Passes(roster[g]) :
                                 Passes(roster[g])[n] = q /\ (g = h => n <= p)
        BY DEF Begun
      <4>2. PICK n \in DOMAIN Passes(roster[g]) : Passes(roster[g])[n] = q /\ (g = h => n <= p)
        BY <4>1
      <4>3. g \in DOMAIN roster /\ h \in DOMAIN roster /\ roster[g] \in Hunters /\ roster[h] = Hunter
        BY <1>0, <1>3, RosterIs DEF Hunter
      <4>4. roster[g] = Hunter /\ n = p'
        BY <1>3, <1>6, <1>8, <4>2, <4>3, PassesAre
      <4>5. g = h
        BY <1>0, <4>3, <4>4, RosterIs
      <4> QED BY <1>3, <3>1, <4>2, <4>4, <4>5
    <3>3. Cardinality(InScope(q)) = 0
      BY <1>0, <3>2, NotBegun
    <3> QED BY <3>1, <3>3
  <2>2. \A x \in ToSet(seen') : Begun(x.pass)'
    BY <1>0, <1>1, <1>7 DEF SeenOnce
  <2>3. List(seen')
    BY <1>0, <1>1 DEF SeenOnce
  <2> QED BY <1>0, <1>2, <1>9, <2>1, <2>2, <2>3 DEF SeenOnce, List
<1>14. NothingDropped'
  <2>1. \A n \in 1..p : Behind(Passes(Hunter)[n], Len(ItemsOf(Passes(Hunter)[n])))
    <3>1. ASSUME NEW n \in 1..p, n < p PROVE Behind(Passes(Hunter)[n], Len(ItemsOf(Passes(Hunter)[n])))
      BY <1>0, <1>1, <3>1 DEF NothingDropped, Working
    <3>2. Behind(Pass, k - 1)
      <4>1. p \in 1..p /\ Working /\ pc # "publish"
        BY <1>1, <1>3 DEF Working
      <4> QED BY <1>0, <1>3, <4>1 DEF NothingDropped
    <3>3. Behind(Pass, Len(Items))
      <4>1. CASE k > Len(Items)
        <5>1. k - 1 = Len(Items)
          BY <1>3, <4>1
        <5> QED BY <3>2, <5>1
      <4>2. CASE Stopped
        BY <4>2 DEF Stopped, Behind, Excused
      <4> QED BY <1>1, <4>1, <4>2
    <3>4. ASSUME NEW n \in 1..p, ~(n < p) PROVE n = p
      BY <1>3, <3>4
    <3> QED BY <1>3, <3>1, <3>3, <3>4
  <2>2. ASSUME NEW n \in 1..p'
        PROVE  Behind(Passes(Hunter)[n],
                      IF n < p \/ pc = "publish" THEN Len(ItemsOf(Passes(Hunter)[n])) ELSE k - 1)'
    <3>1. PICK a, e : a = Passes(Hunter)[n] /\ e = Len(ItemsOf(a))
      OBVIOUS
    <3>2. CASE n \in 1..p /\ (n < p' \/ pc' = "publish")
      <4>1. Behind(a, e)'
        BY <1>5, <2>1, <3>1, <3>2
      <4>2. a = Passes(Hunter')[n] /\ e = Len(ItemsOf(a)')
        BY <1>1, <1>2, <3>1
      <4> QED BY <3>2, <4>1, <4>2
    <3>3. CASE ~(n \in 1..p /\ (n < p' \/ pc' = "publish"))
      <4>1. ~(n < p' \/ pc' = "publish") /\ k' - 1 = 0
        BY <1>1, <1>3, <3>3
      <4>2. Behind(a, 0)'
        <5>1. 1..0 = {}
          OBVIOUS
        <5> QED BY <5>1 DEF Behind
      <4>3. a = Passes(Hunter')[n]
        BY <1>1, <3>1
      <4> QED BY <4>1, <4>2, <4>3
    <3> QED BY <3>2, <3>3
  <2> QED BY <2>2 DEF NothingDropped
<1>15. RecordsEarned' /\ Modest'
  <2>1. \A i : i \in Published' <=> i \in Published
    BY <1>1 DEF Published
  <2>2. ASSUME NEW i \in Published PROVE Earned(records[i])'
    <3>1. Earned(records[i])
      BY <1>0 DEF RecordsEarned
    <3> QED BY <1>1, <1>2, <3>1 DEF Earned, HasRegions
  <2>3. Modest'
    BY <1>1 DEF Modest
  <2> QED BY <1>0, <1>1, <2>1, <2>2, <2>3 DEF RecordsEarned, List
<1> QED BY <1>10, <1>11, <1>12, <1>13, <1>14, <1>15 DEF IInv

\* A hunter whose snapshot is complete searched every item of each of its passes.
LEMMA CompleteIsSearched ==
    ASSUME IInv, pc = "publish", NEW corroborated, SnapshotComplete(corroborated)
    PROVE  \A pass \in PassesOf(Hunter) : \A j \in DOMAIN ItemsOf(pass) : Searched(pass, j)
<1> SUFFICES ASSUME NEW pass \in PassesOf(Hunter), NEW j \in DOMAIN ItemsOf(pass)
             PROVE  Searched(pass, j)
  OBVIOUS
<1>0. Given /\ Place /\ NothingDropped
  BY DEF IInv
<1>1. Hunter \in Hunters /\ p = Len(Passes(Hunter)) /\ p \in Nat
  BY <1>0, Standing DEF Place
<1>2. PICK n \in 1..p : pass = Passes(Hunter)[n]
  BY <1>1, PassesAre
<1>3. Len(ItemsOf(pass)) \in Nat /\ DOMAIN ItemsOf(pass) = 1..Len(ItemsOf(pass))
  BY <1>0, ItemsAre
<1>4. Behind(pass, Len(ItemsOf(pass)))
  BY <1>0, <1>2 DEF NothingDropped, Working
<1>5. ~Excused(pass)
  <2>1. CASE Hunter = "pipe"
    <3>1. pass = "pipe"
      BY <1>1, <1>2, <2>1 DEF Passes
    <3> QED BY <2>1, <3>1 DEF SnapshotComplete, NoTargets, Excused
  <2>2. CASE Hunter = "cs-beacon"
    <3>1. pass = "cs-beacon"
      BY <1>1, <1>2, <2>2 DEF Passes
    <3> QED BY <2>2, <3>1 DEF SnapshotComplete, NoTargets, Excused
  <2>3. CASE Hunter = "obfuscation"
    <3>1. pass \in Layers
      BY <1>1, <1>2, <2>3 DEF Passes, Layers
    <3>2. NoTargets(Layers) /\ "decode" \notin spent
      BY <2>3 DEF SnapshotComplete, DecodeExhausted
    <3> QED BY <3>1, <3>2 DEF NoTargets, Excused
  <2> QED BY <1>1, <2>1, <2>2, <2>3 DEF Hunters
<1> QED BY <1>3, <1>4, <1>5 DEF Behind

\* The record a hunter publishes has earned what it claims.
LEMMA RecordIsEarned ==
    ASSUME IInv, pc = "publish", NEW detected \in BOOLEAN, NEW corroborated \in BOOLEAN, NEW r,
           r.hunter = Hunter, r.coverage = CoverageOf(corroborated),
           r.status = DeriveStatus(Evaluated, detected, SnapshotComplete(corroborated))
    PROVE  Earned(r)
<1>0. Given /\ Place /\ Gaps
  BY DEF IInv
<1>1. Hunter \in Hunters
  BY <1>0, Standing
<1>2. Noting
  BY <1>0 DEF Given, Place, Gaps, Noting, Working
<1> DEFINE whole == SnapshotComplete(corroborated)
<1>3. /\ r.coverage.status = "not_evaluated" <=> ~Evaluated
      /\ r.coverage.status = "complete" <=> Evaluated /\ whole
  BY <1>1, <1>2, CoverageAgrees DEF Agrees, Hunters
<1>4. whole => \A pass \in PassesOf(Hunter) : \A j \in DOMAIN ItemsOf(pass) : Searched(pass, j)
  BY CompleteIsSearched
<1>5. Evaluated /\ whole => /\ Hunter = "pipe" => dump.handles = "present"
                            /\ Hunter # "pipe" => HasRegions
  BY <1>1 DEF SnapshotComplete, Evaluated, Hunters
<1> HIDE DEF whole
<1>6. /\ r.status \in Verdicts
      /\ r.status = "NOT_DETECTED_IN_SCANNED_SCOPE" => Evaluated /\ whole
      /\ r.status = "NOT_EVALUATED" <=> ~Evaluated
      /\ Evaluated /\ whole => r.status # "INCONCLUSIVE"
  <2>1. CASE ~Evaluated
    <3>1. r.status = "NOT_EVALUATED"
      BY <2>1 DEF DeriveStatus
    <3> QED BY <2>1, <3>1 DEF Verdicts
  <2>2. CASE Evaluated /\ detected
    <3>1. r.status = "DETECTED"
      BY <2>2 DEF DeriveStatus
    <3> QED BY <2>2, <3>1 DEF Verdicts
  <2>3. CASE Evaluated /\ ~detected /\ whole
    <3>1. r.status = "NOT_DETECTED_IN_SCANNED_SCOPE"
      BY <2>3 DEF DeriveStatus, whole
    <3> QED BY <2>3, <3>1 DEF Verdicts
  <2>4. CASE Evaluated /\ ~detected /\ ~whole
    <3>1. r.status = "INCONCLUSIVE"
      BY <2>4 DEF DeriveStatus, whole
    <3> QED BY <2>4, <3>1 DEF Verdicts
  <2> QED BY <2>1, <2>2, <2>3, <2>4
<1> QED BY <1>1, <1>3, <1>4, <1>5, <1>6 DEF Earned

\* A record is made, and the next hunter starts with nothing behind it.
LEMMA PublishKeeps == ASSUME IInv, Publish PROVE IInv'
<1>0. Given /\ Place /\ Gaps /\ SeenOnce /\ NothingDropped /\ RecordsEarned /\ Modest
  BY DEF IInv
<1>1. /\ UNCHANGED <<dump, roster, answer, notes, seen, document>> /\ pc = "publish" /\ spent' = {}
      /\ \/ h < Len(roster) /\ h' = h + 1 /\ p' = 1 /\ k' = 1 /\ pc' = "walk"
         \/ ~(h < Len(roster)) /\ pc' = "finish" /\ h' = h /\ p' = p /\ k' = k
  BY DEF Publish, Run, FreshSpending
<1>2. PICK r : records' = Append(records, r) /\ Earned(r)
  <2>1. PICK detected \in BOOLEAN, corroborated \in BOOLEAN :
           records' = Append(records,
              [hunter |-> Hunter, evidence |-> evidence,
               status |-> DeriveStatus(Evaluated, detected, SnapshotComplete(corroborated)),
               coverage |-> CoverageOf(corroborated)])
    BY DEF Publish
  <2> DEFINE r == [hunter |-> Hunter, evidence |-> evidence,
                   status |-> DeriveStatus(Evaluated, detected, SnapshotComplete(corroborated)),
                   coverage |-> CoverageOf(corroborated)]
  <2>2. /\ r.hunter = Hunter /\ r.coverage = CoverageOf(corroborated)
        /\ r.status = DeriveStatus(Evaluated, detected, SnapshotComplete(corroborated))
    OBVIOUS
  <2>3. records' = Append(records, r)
    BY <2>1
  <2> HIDE DEF r
  <2>4. Earned(r)
    BY <1>1, <2>2, RecordIsEarned
  <2> QED BY <2>3, <2>4
<1>3. /\ \A pass : ItemsOf(pass)' = ItemsOf(pass) /\ InScope(pass)' = InScope(pass)
      /\ \A pass, j : Searched(pass, j) => Searched(pass, j)'
  BY <1>1, Unseen
<1>4. /\ Hunter \in Hunters /\ h \in 1..Len(roster) /\ Len(roster) \in Nat
      /\ p \in 1..Len(Passes(Hunter)) /\ Len(Passes(Hunter)) \in Nat
      /\ DOMAIN Passes(Hunter) = 1..Len(Passes(Hunter)) /\ DOMAIN roster = 1..Len(roster)
      /\ Pass = Passes(Hunter)[p] /\ Items = ItemsOf(Pass)
      /\ k \in 1..(Len(Items) + 1) /\ Len(Items) \in Nat
  BY <1>0, Standing, RosterIs
<1>5. /\ List(records') /\ Len(records') = h /\ Len(records) = h - 1
      /\ \A i \in 1..(h - 1) : records'[i] = records[i]
      /\ records'[h] = r
  <2>1. Len(records) = h - 1 /\ List(records)
    BY <1>0, <1>1 DEF Place, RecordsEarned
  <2> DEFINE S == ToSet(records) \union {r}
  <2>2. records \in Seq(S) /\ r \in S
    <3>1. Len(records) \in Nat /\ records \in [1..Len(records) -> ToSet(records)]
      BY <2>1, ListParts DEF List
    <3>2. records \in [1..Len(records) -> S]
      BY <3>1
    <3> QED BY <3>1, <3>2, SeqDef
  <2> HIDE DEF S
  <2>3. /\ Append(records, r) \in Seq(S) /\ Len(Append(records, r)) = Len(records) + 1
        /\ \A i \in 1..Len(records) : Append(records, r)[i] = records[i]
        /\ Append(records, r)[Len(records) + 1] = r
    BY <2>2, AppendProperties
  <2>4. Len(records) + 1 = h
    BY <1>4, <2>1
  <2>5. List(records')
    BY <1>2, <2>3, TypedIsList
  <2> QED BY <1>2, <2>1, <2>3, <2>4, <2>5
<1>6. ASSUME NEW pass, Begun(pass) PROVE Begun(pass)'
  <2>1. PICK g \in 1..h : \E n \in DOMAIN Passes(roster[g]) :
                             Passes(roster[g])[n] = pass /\ (g = h => n <= p)
    BY <1>6 DEF Begun
  <2>2. PICK n \in DOMAIN Passes(roster[g]) : Passes(roster[g])[n] = pass /\ (g = h => n <= p)
    BY <2>1
  <2>3. g \in 1..h' /\ (g = h' => n <= p')
    BY <1>1, <1>4, <2>2
  <2> QED BY <1>1, <2>2, <2>3 DEF Begun
<1>7. Given'
  BY <1>0, <1>1 DEF Given
<1>8. RecordsEarned' /\ Modest'
  <2>1. ASSUME NEW i \in 1..(h - 1) PROVE Earned(records[i])'
    <3>1. Earned(records[i])
      BY <1>0, <1>5 DEF RecordsEarned, Published
    <3> QED BY <1>1, <1>3, <1>5, <3>1 DEF Earned, HasRegions
  <2>2. Earned(r)'
    BY <1>1, <1>2, <1>3 DEF Earned, HasRegions
  <2>3. ASSUME NEW i \in 1..h PROVE Earned(records[i])'
    <3>1. CASE i = h
      BY <1>5, <2>2, <3>1 DEF Earned
    <3>2. CASE i # h
      BY <1>4, <2>1, <3>2
    <3> QED BY <3>1, <3>2
  <2>4. Published' = 1..h
    BY <1>5 DEF Published
  <2>5. RecordsEarned'
    BY <1>5, <2>3, <2>4 DEF RecordsEarned, List
  <2>6. Modest'
    BY <1>1 DEF Modest
  <2> QED BY <2>5, <2>6
<1>9. CASE h < Len(roster)
  <2>1. h' = h + 1 /\ p' = 1 /\ k' = 1 /\ pc' = "walk" /\ h + 1 \in DOMAIN roster /\ h' - 1 = h
    BY <1>1, <1>4, <1>9
  <2>2. PICK next, q : next = roster[h + 1] /\ q = Passes(next)[1]
    OBVIOUS
  <2>3. next \in Hunters /\ Hunter' = next /\ Pass' = q
    BY <1>0, <1>1, <2>1, <2>2, RosterIs DEF Hunter, Pass
  <2>4. /\ Items' = ItemsOf(q) /\ Len(ItemsOf(q)) \in Nat
        /\ 1 \in DOMAIN Passes(next) /\ DOMAIN Passes(next) = 1..Len(Passes(next))
    <3>1. Items' = ItemsOf(q)
      BY <1>3, <2>3 DEF Items
    <3> QED BY <1>0, <2>3, <3>1, ItemsAre, PassesAre
  <2>5. ASSUME NEW n \in DOMAIN Passes(next) PROVE ~Begun(Passes(next)[n])
    <3> SUFFICES ASSUME Begun(Passes(next)[n]) PROVE FALSE
      OBVIOUS
    <3>1. PICK g \in 1..h : \E m \in DOMAIN Passes(roster[g]) : Passes(roster[g])[m] = Passes(next)[n]
      BY DEF Begun
    <3>2. g \in DOMAIN roster /\ h + 1 \in DOMAIN roster /\ roster[g] \in Hunters
      BY <1>0, <1>4, <2>1, RosterIs
    <3>3. roster[g] = next
      BY <2>3, <3>1, <3>2, PassesAre
    <3>4. g = h + 1
      BY <1>0, <2>2, <3>2, <3>3, RosterIs
    <3> QED BY <1>4, <3>4
  <2>6. Place'
    BY <1>1, <1>5, <2>1, <2>3, <2>4 DEF Place
  <2>7. Gaps'
    <3>1. NotesCoded'
      BY <1>0, <1>1 DEF Gaps, NotesCoded, List
    <3>2. \A x \in ToSet(notes') : Begun(x.pass)'
      BY <1>0, <1>1, <1>6 DEF Gaps
    <3>3. next = "pipe" => \A i \in DOMAIN notes : notes[i].pass # "pipe"
      <4> SUFFICES ASSUME next = "pipe", NEW i \in DOMAIN notes, notes[i].pass = "pipe" PROVE FALSE
        OBVIOUS
      <4>1. notes[i] \in ToSet(notes) /\ Begun(notes[i].pass)
        BY <1>0 DEF Gaps, ToSet
      <4>2. Passes(next)[1] = "pipe"
        BY DEF Passes
      <4> QED BY <2>4, <2>5, <4>1, <4>2
    <3> QED BY <1>1, <2>3, <3>1, <3>2, <3>3 DEF Gaps
  <2>8. SeenOnce'
    <3>1. Cardinality(InScope(q)) = 0
      BY <1>0, <2>2, <2>4, <2>5, NotBegun
    <3>2. \A x \in ToSet(seen') : Begun(x.pass)'
      BY <1>0, <1>1, <1>6 DEF SeenOnce
    <3>3. List(seen')
      BY <1>0, <1>1 DEF SeenOnce
    <3> QED BY <1>0, <1>3, <2>1, <2>3, <3>1, <3>2, <3>3 DEF SeenOnce, List
  <2>9. NothingDropped'
    <3>1. PICK e : e = k' - 1
      OBVIOUS
    <3>2. Behind(q, e)'
      <4>1. 1..e = {}
        BY <2>1, <3>1
      <4> QED BY <4>1 DEF Behind
    <3>3. ASSUME NEW n \in 1..p'
          PROVE  Behind(Passes(Hunter)[n],
                        IF n < p \/ pc = "publish" THEN Len(ItemsOf(Passes(Hunter)[n])) ELSE k - 1)'
      <4>1. n = 1 /\ ~(n < p') /\ pc' # "publish"
        BY <2>1
      <4>2. Passes(Hunter')[n] = q
        BY <2>2, <2>3, <4>1
      <4> QED BY <3>1, <3>2, <4>1, <4>2
    <3> QED BY <3>3 DEF NothingDropped
  <2> QED BY <1>7, <1>8, <2>6, <2>7, <2>8, <2>9 DEF IInv
<1>10. CASE ~(h < Len(roster))
  <2>1. h' = h /\ p' = p /\ k' = k /\ pc' = "finish" /\ h = Len(roster)
    <3>1. h = Len(roster)
      <4>1. h \in Nat /\ Len(roster) \in Nat /\ h <= Len(roster)
        BY <1>4
      <4> QED BY <1>10, <4>1
    <3> QED BY <1>1, <1>10, <3>1
  <2>2. Hunter' = Hunter /\ Items' = Items
    BY <1>1, <1>3, <2>1 DEF Hunter, Items, Pass
  <2>3. Place'
    BY <1>0, <1>1, <1>5, <2>1, <2>2 DEF Place
  <2>4. Gaps'
    <3>1. NotesCoded'
      BY <1>0, <1>1 DEF Gaps, NotesCoded, List
    <3>2. \A x \in ToSet(notes') : Begun(x.pass)'
      BY <1>0, <1>1, <1>6 DEF Gaps
    <3> QED BY <2>1, <3>1, <3>2 DEF Gaps, Working
  <2>5. SeenOnce'
    <3>1. \A x \in ToSet(seen') : Begun(x.pass)'
      BY <1>0, <1>1, <1>6 DEF SeenOnce
    <3>2. List(seen')
      BY <1>0, <1>1 DEF SeenOnce
    <3> QED BY <1>0, <1>3, <2>1, <3>1, <3>2 DEF SeenOnce
  <2>6. NothingDropped'
    BY <2>1 DEF NothingDropped, Working
  <2> QED BY <1>7, <1>8, <2>3, <2>4, <2>5, <2>6 DEF IInv
<1> QED BY <1>9, <1>10

\* The document claims no more than its records.
LEMMA FinishKeeps == ASSUME IInv, Finish PROVE IInv'
<1>0. Given /\ Place /\ Gaps /\ SeenOnce /\ NothingDropped /\ RecordsEarned /\ Modest
  BY DEF IInv
<1>1. /\ UNCHANGED <<dump, roster, answer, h, p, k, spent, notes, seen, records>>
      /\ pc = "finish" /\ pc' = "done"
      /\ document'.overall = OverallStatus /\ document'.exit = ExitCode(DocumentStatus)
  BY DEF Finish, Run
<1>2. /\ \A pass : ItemsOf(pass)' = ItemsOf(pass) /\ InScope(pass)' = InScope(pass)
      /\ \A pass, j : Searched(pass, j) => Searched(pass, j)'
  BY <1>1, Unseen
<1>3. /\ Hunter' = Hunter /\ Items' = Items /\ \A pass : Begun(pass)' <=> Begun(pass)
  BY <1>1, <1>2 DEF Hunter, Items, Pass, Begun
<1>4. Given'
  BY <1>0, <1>1 DEF Given
<1>5. Place'
  BY <1>0, <1>1, <1>3 DEF Place
<1>6. Gaps'
  <2>1. NotesCoded'
    BY <1>0, <1>1 DEF Gaps, NotesCoded, List
  <2> QED BY <1>0, <1>1, <1>3, <2>1 DEF Gaps, Working
<1>7. SeenOnce'
  BY <1>0, <1>1, <1>2, <1>3 DEF SeenOnce, List
<1>8. NothingDropped'
  BY <1>1 DEF NothingDropped, Working
<1>9. Published' = Published /\ RecordsEarned'
  <2>1. Published' = Published
    BY <1>1 DEF Published
  <2>2. ASSUME NEW i \in Published PROVE Earned(records[i])'
    <3>1. Earned(records[i])
      BY <1>0 DEF RecordsEarned
    <3> QED BY <1>1, <1>2, <3>1 DEF Earned, HasRegions
  <2> QED BY <1>0, <1>1, <2>1, <2>2 DEF RecordsEarned, List
<1>10. Modest'
  <2>1. /\ document'.exit = 0 <=> DocumentStatus = "complete"
        /\ document'.exit = 4 <=> DocumentStatus = "not_evaluated"
    <3>1. DocumentStatus \in {"complete", "partial", "not_evaluated"}
      BY DEF DocumentStatus
    <3> QED BY <1>1, <3>1 DEF ExitCode
  <2>2. /\ DocumentStatus = "complete" => \A i \in DOMAIN records : Reports[i].status = "complete"
        /\ DocumentStatus = "not_evaluated" <=> OverallStatus = "NOT_EVALUATED"
    BY DEF DocumentStatus
  <2>3. DOMAIN records = Published
    BY <1>0, ListParts DEF RecordsEarned, Published
  <2>4. ASSUME OverallStatus = "NOT_DETECTED_IN_SCANNED_SCOPE" PROVE DocumentStatus = "complete"
    <3>1. ASSUME NEW i \in DOMAIN records PROVE Reports[i].status = "complete"
      <4>1. records[i].status \in Statuses
        BY DEF Statuses
      <4>2. records[i].status \notin {"DETECTED", "INCONCLUSIVE", "NOT_EVALUATED"}
        BY <2>4, <4>1 DEF OverallStatus
      <4>3. Earned(records[i])
        BY <1>0, <2>3 DEF RecordsEarned
      <4>4. records[i].coverage.status = "complete"
        BY <4>2, <4>3 DEF Earned, Verdicts
      <4> QED BY <4>4 DEF Reports
    <3> QED BY <2>4, <3>1 DEF DocumentStatus
  <2>5. Reports' = Reports
    BY <1>1 DEF Reports
  <2> QED BY <1>1, <1>9, <2>1, <2>2, <2>3, <2>4, <2>5 DEF Modest
<1> QED BY <1>4, <1>5, <1>6, <1>7, <1>8, <1>9, <1>10 DEF IInv

\* Nothing is claimed at the start.
LEMMA InitHolds == ASSUME Init PROVE IInv
<1>1. /\ dump \in Dumps /\ roster \in Rosters /\ pc = "walk" /\ h = 1 /\ p = 1 /\ k = 1
      /\ spent = {} /\ notes = <<>> /\ seen = <<>> /\ records = <<>>
  BY DEF Init
<1>2. Given
  <2> DEFINE reads == Ranges(dump.regions) \union Ranges(dump.table)
  <2>1. /\ DOMAIN answer = reads
        /\ \A r \in DOMAIN answer : answer[r] \in {0, r.size - 1, r.size}
    <3>1. DOMAIN answer = reads
      BY DEF Init
    <3>2. \A r \in DOMAIN answer : answer[r] \in IF Readable(dump, r) THEN {0, r.size - 1, r.size} ELSE {0}
      BY DEF Init
    <3> QED BY <3>1, <3>2
  <2>2. \A r \in reads : r.size \in Nat \ {0}
    <3> DEFINE R == [base: Nat, size: Nat, kind: STRING]
               T == [base: Nat, size: Nat, offset: Nat]
    <3>1. dump.regions \in Seq(R) /\ dump.table \in Seq(T)
      BY <1>1, DocumentAssumption
    <3>2. /\ \A x \in R : x.size \in Nat
          /\ \A x \in T : x.size \in Nat
      OBVIOUS
    <3> HIDE DEF R, T
    <3>3. \A i \in DOMAIN dump.regions : dump.regions[i].size \in Nat \ {0}
      <4>1. \A i \in DOMAIN dump.regions : dump.regions[i].size > 0
        BY <1>1, DocumentAssumption
      <4> QED BY <3>1, <3>2, <4>1
    <3>4. \A i \in DOMAIN dump.table : dump.table[i].size \in Nat \ {0}
      <4>1. \A i \in DOMAIN dump.table : dump.table[i].size > 0
        BY <1>1, DocumentAssumption DEF Representable
      <4> QED BY <3>1, <3>2, <4>1
    <3> QED BY <3>3, <3>4 DEF Ranges, RangeOf, VirtualRange
  <2> HIDE DEF reads
  <2>3. \A r \in reads : answer[r] \in 0..r.size
    BY <2>1, <2>2
  <2> QED BY <1>1, <2>1, <2>3 DEF Given, reads
<1>3. /\ 1 \in DOMAIN roster /\ Hunter \in Hunters /\ 1 \in DOMAIN Passes(Hunter) /\ Len(Items) \in Nat
  BY <1>1, <1>2, RosterIs, PassesAre, ItemsAre DEF Hunter, Items
<1>4. List(<<>>) /\ ToSet(<<>>) = {} /\ Len(<<>>) = 0 /\ DOMAIN <<>> = {}
  BY ShortLists, ListParts
<1>5. Place
  BY <1>1, <1>3, <1>4 DEF Place
<1>6. Gaps
  BY <1>1, <1>4 DEF Gaps, NotesCoded
<1>7. SeenOnce
  <2>1. \A pass : Cardinality(InScope(pass)) = 0
    <3>1. \A pass : InScope(pass) = {}
      BY <1>1, <1>4 DEF InScope
    <3> QED BY <3>1, FS_EmptySet
  <2>2. \A pass : Len(ItemsOf(pass)) \in Nat
    BY <1>2, ItemsAre
  <2> QED BY <1>1, <1>4, <2>1, <2>2 DEF SeenOnce
<1>8. NothingDropped
  <2>1. \A pass : Behind(pass, 0)
    BY DEF Behind
  <2> QED BY <1>1, <2>1 DEF NothingDropped
<1>9. RecordsEarned /\ Modest
  BY <1>1, <1>4 DEF RecordsEarned, Published, Modest
<1> QED BY <1>2, <1>5, <1>6, <1>7, <1>8, <1>9 DEF IInv

\* Every step keeps the invariant.
LEMMA StepKeeps == ASSUME IInv, [Next]_vars PROVE IInv'
<1>1. CASE Next
  BY <1>1, SkipOversizeKeeps, SkipUnbudgetedKeeps, ReadFailsKeeps, TooLittleKeeps, SearchLayerKeeps,
     SearchPipeKeeps, SearchSegmentKeeps, StopSegmentsKeeps, EndPassKeeps, PublishKeeps, FinishKeeps,
     SpendKeeps DEF Next
<1>2. CASE UNCHANGED vars
  <2>1. /\ UNCHANGED <<dump, roster, answer, pc, h, p, k, notes, seen, records, document>>
        /\ spent' = spent /\ spent \subseteq Budgets(Hunter)
    BY <1>2 DEF vars, IInv, Place
  <2> QED BY <2>1, Resting
<1> QED BY <1>1, <1>2

\* The invariant always holds.
LEMMA Invariance == Spec => []IInv
<1>1. Init => IInv
  BY InitHolds
<1>2. IInv /\ [Next]_vars => IInv'
  BY StepKeeps
<1> QED BY <1>1, <1>2, PTL DEF Spec

\* Only the budgets of the hunter at work are spent, a pass takes no region into scope
\* twice, and there is one record for each hunter before this one (collect_hunt).
THEOREM TypeCorrect == Spec => []TypeOK
<1>1. IInv => TypeOK
  BY DEF IInv, Place, SeenOnce, TypeOK
<1> QED BY <1>1, Invariance, PTL

\* Whatever budgets run out and whatever reads fail: a record is complete only if each
\* pass of its hunter searched every byte of every range it accepts, its verdict says
\* the same as its report (derive_status, build_coverage_report), and the document's
\* status and exit code claim no more than the records (_hunt_coverage_report).
THEOREM CleanIsAlwaysEarned == Spec => []CleanIsEarned
<1>1. ASSUME IInv PROVE CleanIsEarned
  <2>1. RecordsEarned /\ Modest
    BY <1>1 DEF IInv
  <2>2. ASSUME NEW i \in Published PROVE Earned(records[i]) /\ Reports[i] = records[i].coverage
    <3>1. i \in DOMAIN records
      BY <2>1, ListParts DEF RecordsEarned, Published
    <3> QED BY <2>1, <3>1 DEF RecordsEarned, Reports
  <2>3. ASSUME NEW i \in Published
        PROVE  LET c == Reports[i]
                   hunter == records[i].hunter
               IN /\ c.status = "complete" =>
                       /\ \A pass \in PassesOf(hunter) : \A j \in DOMAIN ItemsOf(pass) :
                             \E x \in InScope(pass) : /\ x.range = RangeOf(ItemsOf(pass)[j])
                                                      /\ x.examined = x.range.size
                       /\ hunter = "pipe" => dump.handles = "present"
                       /\ hunter # "pipe" => HasRegions
                  /\ records[i].status = "NOT_DETECTED_IN_SCANNED_SCOPE" => c.status = "complete"
                  /\ (records[i].status = "NOT_EVALUATED") = (c.status = "not_evaluated")
                  /\ c.status = "complete" => records[i].status # "INCONCLUSIVE"
    BY <2>2 DEF Earned, Searched
  <2> QED BY <2>1, <2>3 DEF CleanIsEarned, Modest
<1> QED BY <1>1, Invariance, PTL

(* How much of a region the dump captured. *)

Segments == [base: Nat, size: Nat, offset: Nat]
Pieces == [base: Int, size: Int, offset: Int]

\* Some segment holds an address.
Backed(views, address) == \E i \in DOMAIN views : ContainsAddress(views[i], address)

\* What the walk of slice_captured keeps: it never falls behind where it started, and
\* starts only in a segment.
RunsFrom(views, q) ==
    {run \in [cursor: Int, tiles: Seq(Pieces), open: BOOLEAN] :
        q.base <= run.cursor /\ (q.base < run.cursor => Backed(views, q.base))}

\* One segment of the walk, as Walk takes it.
Advance(run, seg, q) ==
    IF ~run.open \/ End(seg) <= run.cursor THEN run
    ELSE IF seg.base > run.cursor THEN [run EXCEPT !.open = FALSE]
    ELSE LET stop == Min({End(seg), End(q)})
         IN [cursor |-> stop, open |-> stop < End(q),
             tiles |-> Append(run.tiles, ClipSegment(seg, run.cursor, stop))]
Outset(q) == [cursor |-> q.base, tiles |-> <<>>, open |-> TRUE]

\* One segment moves the cursor on, or leaves it.
LEMMA AdvanceStays ==
    ASSUME NEW q \in Spans, NEW views, NEW run \in RunsFrom(views, q),
           NEW i \in DOMAIN views, NEW seg \in Segments, seg = views[i]
    PROVE  Advance(run, seg, q) \in RunsFrom(views, q)
<1> DEFINE stop == Min({End(seg), End(q)})
           tile == ClipSegment(seg, run.cursor, stop)
           next == [cursor |-> stop, open |-> stop < End(q), tiles |-> Append(run.tiles, tile)]
<1>1. /\ run \in [cursor: Int, tiles: Seq(Pieces), open: BOOLEAN] /\ q.base <= run.cursor
      /\ run.cursor \in Int /\ run.tiles \in Seq(Pieces)
      /\ q.base < run.cursor => Backed(views, q.base)
  BY DEF RunsFrom
<1>2. /\ seg.base \in Nat /\ seg.offset \in Nat /\ End(seg) \in Int
      /\ q.base \in Nat /\ End(q) \in Int /\ q.base <= End(q)
  BY DEF Segments, Spans, End
<1>3. stop \in Int /\ stop \in {End(seg), End(q)}
  BY <1>2, MinOfTwo
<1> HIDE DEF stop
<1>4. tile \in Pieces
  BY <1>1, <1>2, <1>3 DEF ClipSegment, Pieces
<1>5. Append(run.tiles, tile) \in Seq(Pieces)
  <2> HIDE DEF tile
  <2> QED BY <1>1, <1>4
<1>6. (stop < End(q)) \in BOOLEAN
  OBVIOUS
<1>7. next \in [cursor: Int, tiles: Seq(Pieces), open: BOOLEAN] /\ next.cursor = stop
  <2> HIDE DEF tile
  <2> QED BY <1>3, <1>5, <1>6
<1>8. CASE ~run.open \/ End(seg) <= run.cursor
  BY <1>8 DEF Advance
<1>9. CASE ~(~run.open \/ End(seg) <= run.cursor) /\ seg.base > run.cursor
  <2>1. Advance(run, seg, q) = [run EXCEPT !.open = FALSE]
    BY <1>9 DEF Advance
  <2>2. [run EXCEPT !.open = FALSE] \in [cursor: Int, tiles: Seq(Pieces), open: BOOLEAN]
        /\ [run EXCEPT !.open = FALSE].cursor = run.cursor
    BY <1>1
  <2> QED BY <1>1, <2>1, <2>2 DEF RunsFrom
<1>10. CASE ~(~run.open \/ End(seg) <= run.cursor) /\ ~(seg.base > run.cursor)
  <2>1. Advance(run, seg, q) = next
    BY <1>10 DEF Advance, stop
  <2>2. q.base <= stop
    BY <1>1, <1>2, <1>3, <1>10
  <2>3. Backed(views, q.base)
    <3>1. q.base = run.cursor => ContainsAddress(seg, q.base)
      BY <1>1, <1>2, <1>10 DEF ContainsAddress
    <3>2. q.base = run.cursor => Backed(views, q.base)
      BY <3>1 DEF Backed
    <3> QED BY <1>1, <1>2, <3>2
  <2> HIDE DEF next
  <2> QED BY <1>7, <2>1, <2>2, <2>3 DEF RunsFrom
<1> QED BY <1>8, <1>9, <1>10

\* The walk ends no earlier than it starts, and later only if it starts in a segment.
LEMMA WalkEnds ==
    ASSUME NEW views \in Seq(Segments), NEW q \in Spans
    PROVE  LET n == Walk(views, q).cursor - q.base IN n \in Nat /\ (n > 0 => Backed(views, q.base))
<1> DEFINE N == Len(views)
           X == RunsFrom(views, q)
           IsRun(f) == f = [n \in 0..N |-> IF n = 0 THEN Outset(q) ELSE Advance(f[n - 1], views[n], q)]
           walk == CHOOSE f : IsRun(f)
           onto == [x \in X \X Nat |-> IF x[2] \in 1..N THEN Advance(x[1], views[x[2]], q) ELSE x[1]]
<1>1. Walk(views, q) = walk[N]
  BY DEF Walk, Advance, Outset
<1>2. N \in Nat /\ \A n \in 1..N : views[n] \in Segments
  OBVIOUS
<1> HIDE DEF N
<1>3. onto \in [X \X Nat -> X]
  <2>1. ASSUME NEW x \in X \X Nat
        PROVE  (IF x[2] \in 1..N THEN Advance(x[1], views[x[2]], q) ELSE x[1]) \in X
    <3>1. x[1] \in X
      OBVIOUS
    <3>2. \A n \in 1..N : n \in DOMAIN views
      BY DEF N
    <3> HIDE DEF X
    <3> QED BY <1>2, <3>1, <3>2, AdvanceStays DEF X
  <2> HIDE DEF X
  <2> QED BY <2>1
<1>4. Outset(q) \in X
  BY DEF Outset, RunsFrom, Spans
<1> HIDE DEF X
<1>5. \A x \in X, n \in 1..N : onto[<<x, n>>] = Advance(x, views[n], q)
  BY <1>2
<1> HIDE DEF onto
<1>6. PICK f \in [0..N -> X] : f[0] = Outset(q) /\ \A n \in 1..N : f[n] = onto[<<f[n - 1], n>>]
  <2>1. \E f : Loop(f, N, X, Outset(q), onto)
    BY <1>2, <1>3, <1>4, LoopExists
  <2> QED BY <2>1 DEF Loop
<1>7. \A n \in 1..N : f[n] = Advance(f[n - 1], views[n], q)
  <2>1. \A n \in 1..N : n - 1 \in 0..N
    BY <1>2
  <2> QED BY <1>5, <1>6, <2>1
<1>8. IsRun(f)
  <2>1. ASSUME NEW n \in 0..N
        PROVE  f[n] = IF n = 0 THEN Outset(q) ELSE Advance(f[n - 1], views[n], q)
    <3>1. n = 0 \/ n \in 1..N
      BY <1>2
    <3> QED BY <1>6, <1>7, <3>1
  <2> QED BY <1>6, <2>1
<1>9. IsRun(walk)
  <2> HIDE DEF IsRun
  <2> QED BY <1>8
<1> HIDE DEF walk
<1>10. \A n \in 0..N : walk[n] \in X
  <2> DEFINE S == {n \in Nat : n <= N => walk[n] \in X}
  <2>1. 0 \in S
    BY <1>2, <1>4, <1>9
  <2>2. ASSUME NEW n \in Nat, n \in S PROVE n + 1 \in S
    <3> SUFFICES ASSUME n + 1 <= N PROVE walk[n + 1] \in X
      OBVIOUS
    <3>1. n + 1 \in 0..N /\ n + 1 \in 1..N /\ n + 1 # 0 /\ (n + 1) - 1 = n /\ walk[n] \in X
      BY <1>2, <2>2
    <3>2. walk[n + 1] = Advance(walk[n], views[n + 1], q)
      BY <1>9, <3>1
    <3>3. n + 1 \in DOMAIN views
      BY <3>1 DEF N
    <3> QED BY <1>2, <3>1, <3>2, <3>3, AdvanceStays DEF X
  <2> HIDE DEF S
  <2>3. \A n \in Nat : n \in S
    BY <2>1, <2>2, SetInduction
  <2> QED BY <1>2, <2>3 DEF S
<1>11. walk[N] \in X
  BY <1>2, <1>10
<1>12. /\ q.base \in Nat /\ walk[N].cursor \in Int /\ q.base <= walk[N].cursor
       /\ q.base < walk[N].cursor => Backed(views, q.base)
  BY <1>11 DEF X, RunsFrom, Spans
<1> QED BY <1>1, <1>12

\* Sorting a table by base gives a table.
LEMMA TableSorted ==
    ASSUME NEW table \in Seq(Segments)
    PROVE  LET v == StableSort(table, ByBase)
           IN  /\ v \in Seq(Segments)
               /\ \A n \in DOMAIN v : \E i \in DOMAIN table : v[n] = table[i]
<1> DEFINE K == DOMAIN table
           Every == {i \in DOMAIN table : TRUE}
           Before(i, j) == ByBase(table[i], table[j]) \/ (~ByBase(table[j], table[i]) /\ i < j)
           R == {x \in K \X K : Before(x[1], x[2])}
           b == [i \in K |-> table[i].base]
           e == [i \in K |-> 0]
           slot == [i \in Every |-> 1 + Cardinality({j \in Every : Before(j, i)})]
           v == StableSort(table, ByBase)
<1>1. \A i \in DOMAIN table : i \in Nat /\ table[i] \in Segments
  OBVIOUS
<1>2. ASSUME NEW i \in K
      PROVE  i \in Int /\ b[i] \in Int /\ e[i] \in Int /\ b[i] = table[i].base /\ e[i] = 0
  BY <1>1 DEF Segments
<1>3. \A i, j \in K : <<i, j>> \in R <=>
         b[i] < b[j] \/ (b[i] = b[j] /\ (e[i] < e[j] \/ (e[i] = e[j] /\ i < j)))
  <2> SUFFICES ASSUME NEW i \in K, NEW j \in K
               PROVE  Before(i, j) <=>
                        b[i] < b[j] \/ (b[i] = b[j] /\ (e[i] < e[j] \/ (e[i] = e[j] /\ i < j)))
    OBVIOUS
  <2> HIDE DEF b, e, K
  <2> QED BY <1>2 DEF ByBase
<1>4. v = SortedList(table, K, R)
  <2>1. v = [n \in 1..Cardinality(Every) |-> table[CHOOSE i \in Every : slot[i] = n]]
    BY DEF StableSort, SortKept
  <2>2. Every = K
    OBVIOUS
  <2> HIDE DEF Every
  <2>3. slot = Placing(K, R)
    <3>1. ASSUME NEW i \in K PROVE {j \in Every : Before(j, i)} = Below(K, R, i)
      BY <2>2 DEF Below
    <3> HIDE DEF R, Before, K
    <3> QED BY <2>2, <3>1 DEF Placing
  <2> HIDE DEF slot, K, R
  <2> QED BY <2>1, <2>2, <2>3 DEF SortedList
<1>5. R \subseteq K \X K /\ K \in SUBSET DOMAIN table
  OBVIOUS
<1>6. Entries(table)
  <2>1. \A r \in Segments : r.base \in Nat /\ r.size \in Nat
    BY DEF Segments
  <2> QED BY <2>1, Zenon DEF Entries
<1> HIDE DEF b, e, K, R, v
<1>7. StrictOrder(K, R) /\ \A i, j \in K : <<i, j>> \in R => table[i].base <= table[j].base
  <2>1. StrictOrder(K, R) /\ \A i, j \in K : <<i, j>> \in R => b[i] <= b[j]
    BY <1>2, <1>3, <1>5, KeyOrder
  <2> QED BY <1>2, <2>1
<1>8. SortedBy(v, table, K)
  BY <1>4, <1>5, <1>6, <1>7, PlacedIsSorted
<1>9. \A n \in DOMAIN v : \E i \in DOMAIN table : v[n] = table[i]
  BY <1>5, <1>8 DEF SortedBy
<1> QED BY <1>8, <1>9 DEF SortedBy, v

\* captured_range_length is a count, of a range that begins in a segment.
LEMMA CapturedIsCount ==
    ASSUME NEW table \in Seq(Segments), NEW va \in Nat, NEW size \in Nat
    PROVE  LET n == CapturedRangeLength(table, va, size)
           IN  n \in Nat /\ (n > 0 => size > 0 /\ Backed(table, va))
<1> DEFINE ord == StableSort(table, ByBase)
           B == {i \in DOMAIN ord : Max({End(ord[j]) : j \in 1..i}) <= va}
           before == Cardinality(B)
           rest == SubSeq(ord, before + 1, Len(ord))
           q == VirtualRange(va, size)
<1>1. CapturedRangeLength(table, va, size)
        = IF size <= 0 \/ va = 0 THEN 0 ELSE Walk(rest, q).cursor - va
  BY DEF CapturedRangeLength
<1>2. ord \in Seq(Segments) /\ \A n \in DOMAIN ord : \E i \in DOMAIN table : ord[n] = table[i]
  BY TableSorted
<1> HIDE DEF ord
<1>3. before \in Nat
  <2>1. IsFiniteSet(DOMAIN ord)
    <3>1. Len(ord) \in Nat /\ DOMAIN ord = 1..Len(ord)
      BY <1>2
    <3> QED BY <3>1, FS_Interval
  <2>2. B \in SUBSET DOMAIN ord
    OBVIOUS
  <2> HIDE DEF B
  <2> QED BY <2>1, <2>2, FS_Subset, FS_CardinalityType
<1> HIDE DEF before
<1>4. rest \in Seq(Segments) /\ \A n \in DOMAIN rest : before + n \in DOMAIN ord /\ rest[n] = ord[before + n]
  <2>1. \A i \in (before + 1)..Len(ord) : ord[i] \in Segments
    BY <1>2, <1>3
  <2>2. before + 1 \in Int /\ Len(ord) \in Nat /\ DOMAIN ord = 1..Len(ord)
    BY <1>2, <1>3
  <2>3. rest \in Seq(Segments)
    BY <2>1, <2>2, SubSeqProperties
  <2>4. rest = [i \in 1..(1 + Len(ord) - (before + 1)) |-> ord[i + (before + 1) - 1]]
    BY <2>1, <2>2
  <2> HIDE DEF rest
  <2>5. DOMAIN rest = 1..(1 + Len(ord) - (before + 1))
    BY <2>4
  <2>6. ASSUME NEW n \in DOMAIN rest PROVE before + n \in DOMAIN ord /\ rest[n] = ord[before + n]
    <3>1. n + (before + 1) - 1 = before + n /\ before + n \in 1..Len(ord)
      BY <1>3, <2>2, <2>5
    <3> QED BY <2>2, <2>4, <2>5, <3>1
  <2> QED BY <2>3, <2>6
<1>5. q \in Spans /\ q.base = va
  BY DEF VirtualRange, Spans
<1> HIDE DEF rest, q
<1>6. /\ Walk(rest, q).cursor - va \in Nat
      /\ Walk(rest, q).cursor - va > 0 => Backed(rest, va)
  BY <1>4, <1>5, WalkEnds
<1>7. Backed(rest, va) => Backed(table, va)
  BY <1>2, <1>4 DEF Backed
<1> QED BY <1>1, <1>6, <1>7

(* A report's limitations are made of the walk's gaps. *)

\* A limitation whose targets T has under its source and scope; where it has any, its
\* code gives the queue a cause.
MadeOf(l, T) ==
    /\ List(l.targets) /\ l.count \in Nat
    /\ l.targets # <<>> => Cause(l.code) # ""
    /\ \A t \in ToSet(l.targets) : <<l.source, l.scope, t>> \in T

\* A list of limitations, and of completeness checks that leave such.
Made(limitations, T) == List(limitations) /\ \A l \in ToSet(limitations) : MadeOf(l, T)
Making(checks, T) == List(checks) /\ \A c \in ToSet(checks) : c.requires = "" => MadeOf(c.gap, T)

\* The gaps of a pass are in T under a source and a scope.
Filed(T, pass, source, scope) ==
    \A x \in ToSet(notes) : x.pass = pass => <<source, scope, x.target>> \in T

\* A counted limitation, and one over targets.
LEMMA LimitationIs ==
    ASSUME NEW T, NEW code, NEW source, NEW scope
    PROVE  /\ \A n \in Nat : MadeOf(Counted(code, source, scope, n), T)
           /\ \A targets : List(targets) /\ (\A t \in ToSet(targets) : <<source, scope, t>> \in T)
                             /\ Cause(code) # "" => MadeOf(Gap(code, source, scope, targets), T)
<1>1. ASSUME NEW n \in Nat PROVE MadeOf(Counted(code, source, scope, n), T)
  <2>1. /\ Counted(code, source, scope, n).targets = <<>>
        /\ Counted(code, source, scope, n).count = n
    BY DEF Counted
  <2> QED BY <2>1, ShortLists DEF MadeOf
<1>2. ASSUME NEW targets, List(targets), Cause(code) # "",
             \A t \in ToSet(targets) : <<source, scope, t>> \in T
      PROVE  MadeOf(Gap(code, source, scope, targets), T)
  <2> DEFINE l == Gap(code, source, scope, targets)
  <2>1. /\ l.targets = targets /\ l.count = Len(targets)
        /\ l.code = code /\ l.source = source /\ l.scope = scope
    BY DEF Gap
  <2>2. Len(targets) \in Nat
    BY <1>2, ListParts
  <2> HIDE DEF l
  <2>3. MadeOf(l, T)
    BY <1>2, <2>1, <2>2 DEF MadeOf
  <2> QED BY <2>3 DEF l
<1> QED BY <1>1, <1>2

\* No check, one check that is a requirement, one that is a gap.
LEMMA MakingIs ==
    ASSUME NEW T
    PROVE  /\ Making(<<>>, T)
           /\ \A source, code : source # "" => Making(<<Requires(source, code)>>, T)
           /\ \A gap : MadeOf(gap, T) => Making(<<Found(gap)>>, T)
<1>1. Making(<<>>, T)
  BY ShortLists DEF Making
<1>2. ASSUME NEW source, NEW code, source # "" PROVE Making(<<Requires(source, code)>>, T)
  <2> DEFINE c == Requires(source, code)
  <2>1. c.requires # ""
    BY <1>2 DEF Requires
  <2> HIDE DEF c
  <2>2. List(<<c>>) /\ ToSet(<<c>>) = {c}
    BY ShortLists
  <2>3. Making(<<c>>, T)
    BY <2>1, <2>2 DEF Making
  <2> QED BY <2>3 DEF c
<1>3. ASSUME NEW gap, MadeOf(gap, T) PROVE Making(<<Found(gap)>>, T)
  <2> DEFINE c == Found(gap)
  <2>1. c.gap = gap
    BY DEF Found
  <2> HIDE DEF c
  <2>2. List(<<c>>) /\ ToSet(<<c>>) = {c}
    BY ShortLists
  <2>3. Making(<<c>>, T)
    BY <1>3, <2>1, <2>2 DEF Making
  <2> QED BY <2>3 DEF c
<1> QED BY <1>1, <1>2, <1>3

\* Checks joined.
LEMMA MakingJoined == ASSUME NEW T, NEW s, Making(s, T), NEW t, Making(t, T) PROVE Making(s \o t, T)
<1>1. List(s) /\ List(t)
  BY DEF Making
<1>2. List(s \o t) /\ ToSet(s \o t) = ToSet(s) \union ToSet(t)
  BY <1>1, Joined
<1> QED BY <1>2 DEF Making

\* A check made on a condition.
LEMMA WhenMaking ==
    ASSUME NEW T, NEW condition, NEW check, Making(<<check>>, T) PROVE Making(When(condition, check), T)
<1>1. CASE condition
  BY <1>1 DEF When
<1>2. CASE ~condition
  BY <1>2, MakingIs DEF When
<1> QED BY <1>1, <1>2

\* The targets of a pass and code are those of its gaps.
LEMMA NotedMade ==
    ASSUME List(notes), NEW T, NEW pass, NEW source, NEW scope, Filed(T, pass, source, scope), NEW code
    PROVE  List(Noted(pass, code)) /\ \A t \in ToSet(Noted(pass, code)) : <<source, scope, t>> \in T
<1> DEFINE K == {i \in DOMAIN notes : notes[i].pass = pass /\ notes[i].code = code}
           ns == Picked(notes, K)
           f == Noted(pass, code)
<1>1. List(ns) /\ ToSet(ns) = {notes[i] : i \in K}
  BY PickedIs
<1>2. f = [i \in DOMAIN ns |-> ns[i].target]
  BY DEF Noted
<1>3. \A x \in ToSet(ns) : x \in ToSet(notes) /\ x.pass = pass
  BY <1>1 DEF ToSet
<1> HIDE DEF ns, K, f
<1>4. Len(ns) \in Nat /\ DOMAIN ns = 1..Len(ns)
  BY <1>1, ListParts
<1>5. f = [i \in 1..Len(ns) |-> f[i]] /\ \A i \in 1..Len(ns) : f[i] = ns[i].target
  BY <1>2, <1>4
<1>6. List(f) /\ ToSet(f) = {f[i] : i \in 1..Len(ns)}
  BY <1>4, <1>5, ListIs
<1>7. \A i \in 1..Len(ns) : <<source, scope, ns[i].target>> \in T
  <2>1. \A i \in 1..Len(ns) : ns[i] \in ToSet(ns)
    BY <1>4 DEF ToSet
  <2> QED BY <1>3, <2>1 DEF Filed
<1> QED BY <1>5, <1>6, <1>7 DEF f

\* A check over the targets of a pass.
LEMMA GapMaking ==
    ASSUME List(notes), NEW T, NEW pass, NEW source, NEW scope, Filed(T, pass, source, scope),
           NEW code, NEW as, Cause(as) # ""
    PROVE  /\ Making(<<Found(Gap(as, source, scope, Noted(pass, code)))>>, T)
           /\ Making(GapCheck(as, source, scope, Noted(pass, code)), T)
<1> DEFINE targets == Noted(pass, code)
           gap == Gap(as, source, scope, targets)
<1>1. MadeOf(gap, T)
  <2>1. List(targets) /\ \A t \in ToSet(targets) : <<source, scope, t>> \in T
    BY NotedMade
  <2> HIDE DEF targets
  <2> QED BY <2>1, LimitationIs
<1> HIDE DEF gap
<1>2. Making(<<Found(gap)>>, T)
  BY <1>1, MakingIs
<1>3. Making(GapCheck(as, source, scope, targets), T)
  BY <1>2, MakingIs DEF GapCheck, gap
<1> QED BY <1>2, <1>3 DEF gap

\* The three checks of every walk, the gaps of the layers, and a budget's.
LEMMA ChecksMaking ==
    ASSUME List(notes), NEW T
    PROVE  /\ \A pass, source, scope :
                 Filed(T, pass, source, scope) => Making(ScanChecks(pass, source, scope), T)
           /\ \A code : (\A layer \in Layers : Filed(T, layer, "encoding_scan", layer))
                            /\ Cause(code) # "" => Making(ByLayer(code), T)
           /\ \A budget :
                 Filed(T, "pipe", "pipe_name_scan", budget) => Making(BudgetCheck(budget), T)
<1>1. ASSUME NEW pass, NEW source, NEW scope, Filed(T, pass, source, scope)
      PROVE  Making(ScanChecks(pass, source, scope), T)
  <2> DEFINE G(code) == GapCheck(code, source, scope, Noted(pass, code))
  <2>1. ScanChecks(pass, source, scope)
          = (G("SCAN_REGION_OVERSIZED_SKIPPED") \o G("SCAN_REGION_READ_FAILED"))
              \o G("SCAN_REGION_SHORT_READ")
    BY DEF ScanChecks
  <2>2. \A code : Cause(code) # "" => Making(G(code), T)
    BY <1>1, GapMaking
  <2>3. /\ Making(G("SCAN_REGION_OVERSIZED_SKIPPED"), T) /\ Making(G("SCAN_REGION_READ_FAILED"), T)
        /\ Making(G("SCAN_REGION_SHORT_READ"), T)
    <3> HIDE DEF G
    <3> QED BY <2>2 DEF Cause
  <2> HIDE DEF G
  <2>4. Making(G("SCAN_REGION_OVERSIZED_SKIPPED") \o G("SCAN_REGION_READ_FAILED"), T)
    BY <2>3, MakingJoined
  <2> QED BY <2>1, <2>3, <2>4, MakingJoined
<1>2. ASSUME NEW code, Cause(code) # "", \A layer \in Layers : Filed(T, layer, "encoding_scan", layer)
      PROVE  Making(ByLayer(code), T)
  <2> DEFINE layers == Passes("obfuscation")
             ss == [i \in 1..3 |-> GapCheck(code, "encoding_scan", layers[i], Noted(layers[i], code))]
  <2>1. ByLayer(code) = FlattenSeq(ss)
    BY DEF ByLayer
  <2>2. ss = [i \in 1..3 |-> ss[i]] /\ \A i \in 1..3 : Making(ss[i], T)
    <3>1. \A i \in 1..3 : layers[i] \in Layers
      BY DEF Passes, Layers
    <3>2. \A i \in 1..3 : Making(GapCheck(code, "encoding_scan", layers[i], Noted(layers[i], code)), T)
      <4> HIDE DEF layers
      <4> QED BY <1>2, <3>1, GapMaking
    <3> QED BY <3>2
  <2> HIDE DEF ss
  <2>3. List(FlattenSeq(ss)) /\ ToSet(FlattenSeq(ss)) = UNION {ToSet(ss[i]) : i \in 1..3}
    BY <2>2, Flattened DEF Making
  <2> QED BY <2>1, <2>2, <2>3 DEF Making
<1>3. ASSUME NEW budget, Filed(T, "pipe", "pipe_name_scan", budget) PROVE Making(BudgetCheck(budget), T)
  <2> DEFINE check == Found(Gap("SCAN_BUDGET_EXHAUSTED", "pipe_name_scan", budget, Noted("pipe", budget)))
  <2>1. BudgetCheck(budget) = When(budget \in spent, check)
    BY DEF BudgetCheck
  <2>2. Cause("SCAN_BUDGET_EXHAUSTED") # ""
    BY DEF Cause
  <2>3. Making(<<check>>, T)
    BY <1>3, <2>2, GapMaking
  <2> HIDE DEF check
  <2> QED BY <2>1, <2>3, WhenMaking
<1> QED BY <1>1, <1>2, <1>3

\* One check derives such limitations.
LEMMA DerivedMade ==
    ASSUME NEW T, NEW sources, NEW check, check.requires = "" => MadeOf(check.gap, T)
    PROVE  Made(DeriveLimitation(sources, check), T)
<1>1. ASSUME NEW l, MadeOf(l, T) PROVE Made(<<l>>, T)
  BY <1>1, ShortLists DEF Made
<1>2. Made(<<>>, T)
  BY ShortLists DEF Made
<1>3. \A code, source : MadeOf(Counted(code, source, "dump", 0), T)
  BY LimitationIs
<1>4. \A code, source : Made(<<Counted(code, source, "dump", 0)>>, T)
  BY <1>1, <1>3
<1>5. CASE check.requires = ""
  BY <1>1, <1>5 DEF DeriveLimitation
<1>6. CASE check.requires # ""
  BY <1>2, <1>4, <1>6 DEF DeriveLimitation
<1> QED BY <1>5, <1>6

\* A report of such checks has such limitations.
LEMMA ReportMade ==
    ASSUME NEW T, NEW sources, NEW groups, List(groups), NEW checks, Making(checks, T), NEW scale, NEW scopes
    PROVE  Made(BuildCoverageReport(sources, groups, checks, scale, scopes).limitations, T)
<1> DEFINE K == {i \in DOMAIN groups :
                   \A n \in DOMAIN groups[i].members : sources[groups[i].members[n]] = "absent"}
           silent == Picked(groups, K)
           J == {i \in DOMAIN checks : checks[i].requires # "" /\ sources[checks[i].requires] = "failed"}
           failing == Picked(checks, J)
           kept == IF silent # <<>> THEN failing ELSE checks
           absent == [i \in DOMAIN silent |-> Counted(silent[i].code, silent[i].members[1], "dump", 0)]
           derived == [i \in DOMAIN kept |-> DeriveLimitation(sources, kept[i])]
<1>1. BuildCoverageReport(sources, groups, checks, scale, scopes).limitations = absent \o FlattenSeq(derived)
  BY DEF BuildCoverageReport, Filtered
<1>2. List(silent)
  <2>1. K \in SUBSET DOMAIN groups
    OBVIOUS
  <2> HIDE DEF K
  <2> QED BY <2>1, PickedIs
<1>3. Making(failing, T)
  <2>1. J \in SUBSET DOMAIN checks /\ List(checks)
    BY DEF Making
  <2> HIDE DEF J
  <2>2. List(failing) /\ ToSet(failing) = {checks[i] : i \in J}
    BY <2>1, PickedIs
  <2>3. ToSet(failing) \subseteq ToSet(checks)
    BY <2>1, <2>2 DEF ToSet
  <2> HIDE DEF failing
  <2> QED BY <2>2, <2>3 DEF Making
<1> HIDE DEF silent, failing
<1>4. Making(kept, T)
  BY <1>3
<1> HIDE DEF kept
<1>5. Made(absent, T)
  <2> DEFINE n == Len(silent)
  <2>1. n \in Nat /\ DOMAIN silent = 1..n
    BY <1>2, ListParts
  <2>2. absent = [i \in 1..n |-> absent[i]] /\ \A i \in 1..n : MadeOf(absent[i], T)
    <3>1. \A i \in 1..n : MadeOf(Counted(silent[i].code, silent[i].members[1], "dump", 0), T)
      BY LimitationIs
    <3> QED BY <2>1, <3>1
  <2> HIDE DEF absent, n
  <2>3. List(absent) /\ ToSet(absent) = {absent[i] : i \in 1..n}
    BY <2>1, <2>2, ListIs
  <2> QED BY <2>2, <2>3 DEF Made
<1>6. Made(FlattenSeq(derived), T)
  <2> DEFINE n == Len(kept)
  <2>1. n \in Nat /\ DOMAIN kept = 1..n /\ List(kept)
    BY <1>4, ListParts DEF Making
  <2>2. \A i \in 1..n : Made(DeriveLimitation(sources, kept[i]), T)
    <3>1. \A i \in 1..n : kept[i] \in ToSet(kept)
      BY <2>1 DEF ToSet
    <3> QED BY <1>4, <3>1, DerivedMade DEF Making
  <2>3. derived = [i \in 1..n |-> derived[i]] /\ \A i \in 1..n : Made(derived[i], T)
    BY <2>1, <2>2
  <2> HIDE DEF derived, n
  <2>4. List(FlattenSeq(derived)) /\ ToSet(FlattenSeq(derived)) = UNION {ToSet(derived[i]) : i \in 1..n}
    BY <2>1, <2>3, Flattened DEF Made
  <2> QED BY <2>3, <2>4 DEF Made
<1> HIDE DEF absent, derived
<1>7. List(absent \o FlattenSeq(derived))
      /\ ToSet(absent \o FlattenSeq(derived)) = ToSet(absent) \union ToSet(FlattenSeq(derived))
  BY <1>5, <1>6, Joined DEF Made
<1> QED BY <1>1, <1>5, <1>6, <1>7 DEF Made

\* What each hunter names its gaps by.
PipeScopes == {"", "c2_context", "pipe_name"}
CsScopes == {"", "scan_deadline_seconds"}
NotedOf(pass) == {x \in ToSet(notes) : x.pass = pass}
PipeNamed == {<<"pipe_name_scan", scope, x.target>> : scope \in PipeScopes, x \in NotedOf("pipe")}
CsNamed == {<<"segment_scan", scope, x.target>> : scope \in CsScopes, x \in NotedOf("cs-beacon")}
LayersNamed == UNION {{<<"encoding_scan", layer, x.target>> : x \in NotedOf(layer)} : layer \in Layers}

\* pipe.report_facts.project_coverage_report
LEMMA PipeMade == ASSUME List(notes) PROVE Made(PipeCoverage.limitations, PipeNamed)
<1> DEFINE T == PipeNamed
           sources == [memory_info |-> Present(HasRegions),
                       handle_data |-> IF dump.handles = "truncated" THEN "present" ELSE dump.handles]
           a == <<Requires("handle_data", "SOURCE_ABSENT")>>
           partial == Found(Counted("HANDLE_STREAM_TRUNCATED", "handle_data", "", 1))
           b == When(dump.handles = "truncated", partial)
           c == ScanChecks("pipe", "pipe_name_scan", "")
           d == BudgetCheck("c2_context")
           e == BudgetCheck("pipe_name")
           checks == (((a \o b) \o c) \o d) \o e
           groups == <<Required(<<"memory_info", "handle_data">>)>>
<1>1. PipeCoverage = BuildCoverageReport(sources, groups, checks, eligible["pipe"], {})
  BY DEF PipeCoverage
<1>2. Making(a, T)
  BY MakingIs
<1>3. Making(b, T)
  <2>1. MadeOf(Counted("HANDLE_STREAM_TRUNCATED", "handle_data", "", 1), T)
    BY LimitationIs
  <2>2. Making(<<partial>>, T)
    BY <2>1, MakingIs
  <2> HIDE DEF partial
  <2> QED BY <2>2, WhenMaking
<1>4. Making(c, T) /\ Making(d, T) /\ Making(e, T)
  <2>1. \A scope \in PipeScopes : Filed(T, "pipe", "pipe_name_scan", scope)
    BY DEF Filed, PipeNamed, NotedOf
  <2> HIDE DEF T
  <2> QED BY <2>1, ChecksMaking DEF PipeScopes
<1>5. List(groups)
  BY ShortLists
<1> HIDE DEF a, b, c, d, e, sources, groups
<1>6. Making(a \o b, T)
  BY <1>2, <1>3, MakingJoined
<1>7. Making((a \o b) \o c, T)
  BY <1>4, <1>6, MakingJoined
<1>8. Making(((a \o b) \o c) \o d, T)
  BY <1>4, <1>7, MakingJoined
<1>9. Making(checks, T)
  BY <1>4, <1>8, MakingJoined
<1> HIDE DEF checks
<1> QED BY <1>1, <1>5, <1>9, ReportMade

\* cs_beacon.report_facts.project_coverage_report
LEMMA CsMade ==
    ASSUME List(notes), NEW corroborated PROVE Made(CsCoverage(corroborated).limitations, CsNamed)
<1> DEFINE T == CsNamed
           sources == [memory_info |-> Present(HasRegions),
                       memory64_list |-> Present(dump.table # <<>>),
                       thread_context |-> Present(dump.threads \in {"gaps", "whole"})]
           wanting == evidence # {} /\ ~corroborated
           none    == wanting /\ dump.threads = "absent"
           some    == wanting /\ dump.threads \in {"unparsed", "gaps"}
           stop    == "CS_BEACON_SCAN_BUDGET_EXHAUSTED"
           absent  == Requires("thread_context", "THREAD_CONTEXT_UNAVAILABLE")
           partial == Found(Counted("THREAD_CONTEXT_PARTIAL", "thread_context", "", 1))
           a    == <<Requires("memory_info", "SOURCE_ABSENT")>>
           scan == ScanChecks("cs-beacon", "segment_scan", "")
           gaps == GapCheck(stop, "segment_scan", "scan_deadline_seconds", Noted("cs-beacon", stop))
           t    == When(none, absent)
           u    == When(some, partial)
           checks == (((a \o scan) \o gaps) \o t) \o u
           groups == <<Required(<<"memory64_list">>)>>
           whole == BuildCoverageReport(sources, <<>>, checks, eligible["cs-beacon"], {})
           empty == BuildCoverageReport(sources, groups, <<>>, NoScale, {})
<1>1. CsCoverage(corroborated) = IF dump.table = <<>> THEN empty ELSE whole
  BY DEF CsCoverage
<1>2. Making(a, T) /\ Making(<<absent>>, T)
  BY MakingIs
<1>3. Making(<<partial>>, T)
  <2>1. MadeOf(Counted("THREAD_CONTEXT_PARTIAL", "thread_context", "", 1), T)
    BY LimitationIs
  <2> QED BY <2>1, MakingIs
<1>4. Making(t, T) /\ Making(u, T)
  <2> HIDE DEF none, some, absent, partial
  <2> QED BY <1>2, <1>3, WhenMaking
<1>5. Making(scan, T) /\ Making(gaps, T)
  <2>1. \A scope \in CsScopes : Filed(T, "cs-beacon", "segment_scan", scope)
    BY DEF Filed, CsNamed, NotedOf
  <2>2. Cause("CS_BEACON_SCAN_BUDGET_EXHAUSTED") # ""
    BY DEF Cause
  <2> HIDE DEF T
  <2> QED BY <2>1, <2>2, ChecksMaking, GapMaking DEF CsScopes
<1>6. List(groups) /\ List(<<>>) /\ Making(<<>>, T)
  BY ShortLists, MakingIs
<1> HIDE DEF a, scan, gaps, t, u, sources, groups
<1>7. Making(a \o scan, T)
  BY <1>2, <1>5, MakingJoined
<1>8. Making((a \o scan) \o gaps, T)
  BY <1>5, <1>7, MakingJoined
<1>9. Making(((a \o scan) \o gaps) \o t, T)
  BY <1>4, <1>8, MakingJoined
<1>10. Making(checks, T)
  BY <1>4, <1>9, MakingJoined
<1> HIDE DEF checks
<1>11. Made(whole.limitations, T) /\ Made(empty.limitations, T)
  BY <1>6, <1>10, ReportMade
<1> HIDE DEF whole, empty
<1> QED BY <1>1, <1>11

\* encoding.report_facts.project_coverage_report
LEMMA EncodingMade ==
    ASSUME List(notes), List(dump.regions) PROVE Made(EncodingCoverage.limitations, LayersNamed)
<1> DEFINE T == LayersNamed
           sources == [memory_info |-> Present(HasRegions)]
           filtered == Found(Counted("ENCODING_ALL_REGIONS_FILTERED", "encoding_scan", "", Len(dump.regions)))
           budget   == Found(Counted("SCAN_BUDGET_EXHAUSTED", "encoding_scan", "", 0))
           a == When(FullySkipped, filtered)
           b == ByLayer("SCAN_REGION_OVERSIZED_SKIPPED")
           c == ByLayer("SCAN_REGION_READ_FAILED")
           d == ByLayer("SCAN_REGION_SHORT_READ")
           t == When(DecodeExhausted, budget)
           checks == (((a \o b) \o c) \o d) \o t
           groups == <<Required(<<"memory_info">>)>>
           size == eligible["sleep_mask"] + eligible["entropy"] + eligible["decode"]
<1>1. EncodingCoverage = BuildCoverageReport(sources, groups, checks, size, PassScopes)
  BY DEF EncodingCoverage
<1>2. Making(a, T) /\ Making(t, T)
  <2>1. Len(dump.regions) \in Nat
    BY ListParts
  <2>2. /\ MadeOf(Counted("ENCODING_ALL_REGIONS_FILTERED", "encoding_scan", "", Len(dump.regions)), T)
        /\ MadeOf(Counted("SCAN_BUDGET_EXHAUSTED", "encoding_scan", "", 0), T)
    BY <2>1, LimitationIs
  <2>3. Making(<<filtered>>, T) /\ Making(<<budget>>, T)
    BY <2>2, MakingIs
  <2> HIDE DEF filtered, budget
  <2> QED BY <2>3, WhenMaking
<1>3. Making(b, T) /\ Making(c, T) /\ Making(d, T)
  <2>1. \A layer \in Layers : Filed(T, layer, "encoding_scan", layer)
    BY DEF Filed, LayersNamed, NotedOf
  <2> HIDE DEF T
  <2> QED BY <2>1, ChecksMaking DEF Cause
<1>4. List(groups)
  BY ShortLists
<1> HIDE DEF a, b, c, d, t, sources, groups, size
<1>5. Making(a \o b, T)
  BY <1>2, <1>3, MakingJoined
<1>6. Making((a \o b) \o c, T)
  BY <1>3, <1>5, MakingJoined
<1>7. Making(((a \o b) \o c) \o d, T)
  BY <1>3, <1>6, MakingJoined
<1>8. Making(checks, T)
  BY <1>2, <1>7, MakingJoined
<1> HIDE DEF checks
<1> QED BY <1>1, <1>4, <1>8, ReportMade

\* Every hunter's report has limitations made of the gaps of its passes.
Named == CASE Hunter = "pipe" -> PipeNamed [] Hunter = "cs-beacon" -> CsNamed [] OTHER -> LayersNamed

LEMMA CoverageMade ==
    ASSUME List(notes), List(dump.regions), NEW corroborated
    PROVE  Made(CoverageOf(corroborated).limitations, Named)
<1>1. CASE Hunter = "pipe"
  <2>1. CoverageOf(corroborated) = PipeCoverage /\ Named = PipeNamed
    BY <1>1 DEF CoverageOf, Named
  <2> QED BY <2>1, PipeMade
<1>2. CASE Hunter = "cs-beacon"
  <2>1. CoverageOf(corroborated) = CsCoverage(corroborated) /\ Named = CsNamed
    BY <1>2 DEF CoverageOf, Named
  <2> QED BY <2>1, CsMade
<1>3. CASE Hunter \notin {"pipe", "cs-beacon"}
  <2>1. CoverageOf(corroborated) = EncodingCoverage /\ Named = LayersNamed
    BY <1>3 DEF CoverageOf, Named
  <2> QED BY <2>1, EncodingMade
<1> QED BY <1>1, <1>2, <1>3

(* What a report, and a document, says is missed. *)

\* A list of limitations that can be counted.
Sound(limitations) == List(limitations) /\ \A l \in ToSet(limitations) : LimitationSound(l)

\* The figure of a list of limitations measures the bytes they name, and is exact when
\* each limitation that counts bytes measured them.
LEMMA SummaryMeasures ==
    ASSUME NEW ls, Sound(ls), NEW scale, NEW scopes
    PROVE  LET m == SummarizeMissedBytes(ls, scale, scopes)
           IN  /\ Measures(m, MissedBy(ToSet(ls)))
               /\ MissedState(m) = "exact" <=> \A l \in ToSet(ls) : Counting(l) => Measured(l)
               /\ scale = NoScale => m.eligible = NoScale
<1> DEFINE m == SummarizeMissedBytes(ls, scale, scopes)
           U == MissedBy(ToSet(ls))
<1>1. /\ m.known = Cardinality(U) /\ m.distinct = Cardinality(Starts(U))
      /\ m.distinct <= m.quantified /\ (m.undone > 0 => m.quantified > 0)
      /\ m.unquantified = 0 <=> \A l \in ToSet(ls) : Counting(l) => Measured(l)
      /\ scale = NoScale => m.eligible = NoScale
  BY MissedIs DEF Sound
<1> HIDE DEF m, U
<1>2. Measures(m, U)
  BY <1>1 DEF Measures, Starts
<1>3. MissedState(m) = "exact" <=> m.unquantified = 0
  BY DEF MissedState
<1> QED BY <1>1, <1>2, <1>3 DEF m, U

\* The limitations of some reports name the bytes each of them names.
LEMMA NamedIs ==
    ASSUME NEW reports
    PROVE  NamedBy(reports) = MissedBy(UNION {ToSet(c.limitations) : c \in reports})
<1> DEFINE L == UNION {ToSet(c.limitations) : c \in reports}
           A == UNION {UNION {ToSet(l.targets) : l \in {x \in ToSet(c.limitations) : Itemized(x)}} :
                         c \in reports}
           B == UNION {ToSet(l.targets) : l \in {x \in L : Itemized(x)}}
<1>1. NamedBy(reports) = UNION {Bytes(UnexaminedRange(t)) : t \in {t \in A : UnexaminedBytes(t) # Unmeasured}}
  BY DEF NamedBy
<1>2. MissedBy(L) = UNION {Bytes(UnexaminedRange(t)) : t \in {t \in B : UnexaminedBytes(t) # Unmeasured}}
  BY DEF MissedBy, TargetsOf
<1>3. A = B
  <2>1. ASSUME NEW t \in A PROVE t \in B
    <3>1. PICK c \in reports : t \in UNION {ToSet(l.targets) : l \in {x \in ToSet(c.limitations) : Itemized(x)}}
      OBVIOUS
    <3>2. PICK l \in ToSet(c.limitations) : Itemized(l) /\ t \in ToSet(l.targets)
      BY <3>1
    <3>3. l \in L
      BY <3>2
    <3> HIDE DEF L
    <3> QED BY <3>2, <3>3
  <2>2. ASSUME NEW t \in B PROVE t \in A
    <3>1. PICK l \in L : Itemized(l) /\ t \in ToSet(l.targets)
      OBVIOUS
    <3>2. PICK c \in reports : l \in ToSet(c.limitations)
      OBVIOUS
    <3>3. t \in UNION {ToSet(x.targets) : x \in {x \in ToSet(c.limitations) : Itemized(x)}}
      BY <3>1, <3>2
    <3> QED BY <3>3
  <2> HIDE DEF A, B
  <2> QED BY <2>1, <2>2
<1> HIDE DEF A, B
<1> QED BY <1>1, <1>2, <1>3

\* A record says of its bytes what its own limitations say.
LEMMA ReportMeasures ==
    ASSUME NEW c, Sound(c.limitations)
    PROVE  /\ Measures(MissedBytesOf(c), NamedBy({c}))
           /\ MissedState(MissedBytesOf(c)) = "exact"
                <=> \A l \in ToSet(c.limitations) : Counting(l) => Measured(l)
<1>1. NamedBy({c}) = MissedBy(ToSet(c.limitations))
  <2>1. UNION {ToSet(x.limitations) : x \in {c}} = ToSet(c.limitations)
    OBVIOUS
  <2> QED BY <2>1, NamedIs
<1>2. CASE c.status = "not_evaluated"
  <2>1. MissedBytesOf(c) = SummarizeMissedBytes(c.limitations, NoScale, {})
    BY <1>2 DEF MissedBytesOf
  <2> QED BY <1>1, <2>1, SummaryMeasures
<1>3. CASE c.status # "not_evaluated"
  <2>1. MissedBytesOf(c) = SummarizeMissedBytes(c.limitations, c.eligible, c.passScopes)
    BY <1>3 DEF MissedBytesOf
  <2> QED BY <1>1, <2>1, SummaryMeasures
<1> QED BY <1>2, <1>3

\* A document says of its records' bytes what all their limitations say.
LEMMA DocumentMeasures ==
    ASSUME NEW n \in Nat, NEW cs, cs = [i \in 1..n |-> cs[i]],
           \A i \in 1..n : Sound(cs[i].limitations)
    PROVE  LET m == CombineMissedBytes(cs)
           IN  /\ Measures(m, NamedBy(ToSet(cs))) /\ m.eligible = NoScale
               /\ MissedState(m) = "exact"
                    <=> \A i \in 1..n : MissedState(MissedBytesOf(cs[i])) = "exact"
<1> DEFINE ss == [i \in DOMAIN cs |-> cs[i].limitations]
           ls == FlattenSeq(ss)
           m == CombineMissedBytes(cs)
<1>1. m = SummarizeMissedBytes(ls, NoScale, {})
  BY DEF CombineMissedBytes
<1>2. DOMAIN cs = 1..n /\ ToSet(cs) = {cs[i] : i \in 1..n}
  BY ListIs
<1>3. ss = [i \in 1..n |-> ss[i]] /\ \A i \in 1..n : ss[i] = cs[i].limitations
  BY <1>2
<1> HIDE DEF ss, m
<1>4. List(ls) /\ ToSet(ls) = UNION {ToSet(ss[i]) : i \in 1..n}
  BY <1>3, Flattened DEF Sound
<1> HIDE DEF ls
<1>5. Sound(ls)
  <2>1. \A l \in ToSet(ls) : LimitationSound(l)
    BY <1>3, <1>4 DEF Sound
  <2> QED BY <1>4, <2>1 DEF Sound
<1>6. ToSet(ls) = UNION {ToSet(c.limitations) : c \in ToSet(cs)}
  <2>1. ASSUME NEW l \in ToSet(ls) PROVE \E c \in ToSet(cs) : l \in ToSet(c.limitations)
    <3>1. PICK i \in 1..n : l \in ToSet(ss[i])
      BY <1>4
    <3>2. cs[i] \in ToSet(cs) /\ l \in ToSet(cs[i].limitations)
      BY <1>2, <1>3, <3>1
    <3> QED BY <3>2
  <2>2. ASSUME NEW c \in ToSet(cs), NEW l \in ToSet(c.limitations) PROVE l \in ToSet(ls)
    <3>1. PICK i \in 1..n : c = cs[i]
      BY <1>2
    <3>2. l \in ToSet(ss[i])
      BY <1>3, <2>2, <3>1
    <3> QED BY <1>4, <3>2
  <2> QED BY <2>1, <2>2
<1>7. NamedBy(ToSet(cs)) = MissedBy(ToSet(ls))
  BY <1>6, NamedIs
<1>8. /\ Measures(m, MissedBy(ToSet(ls))) /\ m.eligible = NoScale
      /\ MissedState(m) = "exact" <=> \A l \in ToSet(ls) : Counting(l) => Measured(l)
  BY <1>1, <1>5, SummaryMeasures
<1>9. (\A l \in ToSet(ls) : Counting(l) => Measured(l))
        <=> \A i \in 1..n : \A l \in ToSet(cs[i].limitations) : Counting(l) => Measured(l)
  BY <1>3, <1>4
<1>10. \A i \in 1..n : MissedState(MissedBytesOf(cs[i])) = "exact"
                         <=> \A l \in ToSet(cs[i].limitations) : Counting(l) => Measured(l)
  BY ReportMeasures
<1>11. MissedState(m) = "exact" <=> \A i \in 1..n : MissedState(MissedBytesOf(cs[i])) = "exact"
  BY <1>8, <1>9, <1>10
<1> QED BY <1>7, <1>8, <1>11 DEF m

(* The byte counts: an invariant on top of IInv. *)

\* A target is a record with a range; one that claims captured bytes is of a range some
\* segment holds a byte of.
Held(t) ==
    /\ {"range", "captured"} \subseteq DOMAIN t
    /\ t.captured > 0 => \E a \in Bytes(t.range) : Containing(dump.table, a) # 0

\* Gaps with such targets, and limitations a queue can be built from.
Countable(gaps) ==
    List(gaps) /\ \A x \in ToSet(gaps) : TargetSound(x.target) /\ Held(x.target)
Queueable(limitations) ==
    \A l \in ToSet(limitations) : /\ l.targets # <<>> => Cause(l.code) # ""
                                 /\ \A t \in ToSet(l.targets) : Held(t)

\* The targets of the notes can be counted, every record's limitations were, and the
\* document counted those of all records and queued their targets.
Tallied ==
    /\ Countable(notes)
    /\ \A i \in Published : /\ Sound(records[i].coverage.limitations)
                            /\ Queueable(records[i].coverage.limitations)
    /\ pc = "done" => /\ document.missed = CombineMissedBytes(Reports)
                      /\ Len(roster) > 1 =>
                            document.queue = BuildInvestigationQueue(records, dump.regions)

\* What a pass walks are ranges.
LEMMA ItemsAreSpans ==
    ASSUME Given, NEW pass, NEW j \in DOMAIN ItemsOf(pass)
    PROVE  /\ ItemsOf(pass)[j].base \in Nat /\ ItemsOf(pass)[j].size \in Nat
           /\ dump.table \in Seq(Segments) /\ List(dump.regions)
<1> DEFINE R == [base: Nat, size: Nat, kind: STRING]
           Is(x) == x.base \in Nat /\ x.size \in Nat
<1>1. dump.regions \in Seq(R) /\ dump.table \in Seq(Segments)
  BY DocumentAssumption DEF Given, Segments
<1>2. /\ \A x \in R : Is(x)
      /\ \A x \in Segments : Is(x)
  BY DEF Segments
<1> HIDE DEF R
<1>3. /\ \A i \in DOMAIN dump.regions : Is(dump.regions[i])
      /\ \A i \in DOMAIN dump.table : Is(dump.table[i])
  BY <1>1, <1>2
<1>4. List(dump.regions) /\ List(dump.table)
  BY <1>1, TypedIsList
<1> HIDE DEF Is
<1>5. \A x \in ToSet(ItemsOf(pass)) : Is(x)
  <2>1. CASE pass = "cs-beacon"
    <3> DEFINE K == {i \in DOMAIN dump.table : dump.table[i].size > 0}
    <3>1. ItemsOf(pass) = Picked(dump.table, K) /\ K \in SUBSET DOMAIN dump.table
      BY <2>1 DEF ItemsOf
    <3> HIDE DEF K
    <3>2. ToSet(Picked(dump.table, K)) = {dump.table[i] : i \in K}
      BY <1>4, <3>1, PickedIs
    <3> QED BY <1>3, <3>1, <3>2
  <2>2. CASE pass # "cs-beacon"
    <3> DEFINE K == {i \in DOMAIN dump.regions : Accepts(pass, dump.regions[i])}
    <3>1. ItemsOf(pass) = Picked(dump.regions, K) /\ K \in SUBSET DOMAIN dump.regions
      BY <2>2 DEF ItemsOf
    <3> HIDE DEF K
    <3>2. ToSet(Picked(dump.regions, K)) = {dump.regions[i] : i \in K}
      BY <1>4, <3>1, PickedIs
    <3> QED BY <1>3, <3>1, <3>2
  <2> QED BY <2>1, <2>2
<1>6. ItemsOf(pass)[j] \in ToSet(ItemsOf(pass))
  BY DEF ToSet
<1> QED BY <1>1, <1>4, <1>5, <1>6 DEF Is

\* What a pass over the segments walks is one of them.
LEMMA SegmentsAreBacked ==
    ASSUME Given, NEW j \in DOMAIN ItemsOf("cs-beacon")
    PROVE  ItemsOf("cs-beacon")[j].size > 0 => Backed(dump.table, ItemsOf("cs-beacon")[j].base)
<1> DEFINE K == {i \in DOMAIN dump.table : dump.table[i].size > 0}
           x == ItemsOf("cs-beacon")[j]
<1>1. dump.table \in Seq(Segments) /\ List(dump.table)
  BY DocumentAssumption, TypedIsList DEF Given, Segments
<1>2. ItemsOf("cs-beacon") = Picked(dump.table, K) /\ K \in SUBSET DOMAIN dump.table
  BY DEF ItemsOf
<1>3. x \in ToSet(ItemsOf("cs-beacon"))
  BY DEF ToSet
<1> HIDE DEF K, x
<1>4. PICK i \in K : x = dump.table[i]
  BY <1>1, <1>2, <1>3, PickedIs
<1>5. x.base \in Nat /\ x.size \in Nat /\ i \in DOMAIN dump.table
  <2>1. i \in DOMAIN dump.table
    BY <1>2, <1>4
  <2>2. dump.table[i] \in Segments
    BY <1>1, <2>1
  <2> QED BY <1>4, <2>1, <2>2 DEF Segments
<1>6. x.size > 0 => ContainsAddress(x, x.base)
  BY <1>5 DEF ContainsAddress, End
<1> QED BY <1>4, <1>5, <1>6 DEF Backed, x

\* An address of a segment has one that contains it.
LEMMA BackedIsHeld ==
    ASSUME dump.table \in Seq(Segments), NEW t, NEW base \in Nat, NEW size \in Nat,
           t.range = VirtualRange(base, size),
           t.captured > 0 => size > 0 /\ Backed(dump.table, base), {"range", "captured"} \subseteq DOMAIN t
    PROVE  Held(t)
<1> SUFFICES ASSUME t.captured > 0 PROVE base \in Bytes(t.range) /\ Containing(dump.table, base) # 0
  BY DEF Held
<1> DEFINE I == {i \in 1..Len(dump.table) : ContainsAddress(dump.table[i], base)}
<1>1. base \in Bytes(t.range)
  BY DEF VirtualRange, Bytes, End
<1>2. I # {} /\ I \subseteq Nat /\ 0 \notin I
  BY DEF Backed
<1>3. Containing(dump.table, base) = Min(I)
  BY <1>2 DEF Containing, SelectInSeq
<1> HIDE DEF I
<1>4. PICK i \in I : \A j \in I : i <= j
  BY <1>2, LeastNatural
<1>5. Min(I) \in I
  BY <1>2, <1>4 DEF Min
<1> QED BY <1>1, <1>2, <1>3, <1>5

\* A target of a segment, and one of a region.
LEMMA SegmentTargetSound ==
    ASSUME NEW x, x.base \in Nat, x.size \in Nat, NEW examined \in {Unmeasured} \union 0..x.size,
           dump.table \in Seq(Segments), x.size > 0 => Backed(dump.table, x.base)
    PROVE  TargetSound(SegmentTarget(x, examined)) /\ Held(SegmentTarget(x, examined))
<1> DEFINE t == SegmentTarget(x, examined)
<1>1. /\ t.range = VirtualRange(x.base, x.size) /\ t.captured = x.size /\ t.examined = examined
      /\ {"range", "captured"} \subseteq DOMAIN t
  BY DEF SegmentTarget
<1> HIDE DEF t
<1>2. t.range \in Spans
  BY <1>1 DEF VirtualRange, Spans
<1>3. Held(t)
  BY <1>1, BackedIsHeld
<1> QED BY <1>1, <1>2, <1>3 DEF TargetSound, t

LEMMA RegionTargetSound ==
    ASSUME dump.table \in Seq(Segments), NEW x, x.base \in Nat, x.size \in Nat,
           NEW examined \in {Unmeasured} \union Nat
    PROVE  TargetSound(RegionTarget(dump.table, x, examined)) /\ Held(RegionTarget(dump.table, x, examined))
<1> DEFINE table == dump.table
           t == RegionTarget(table, x, examined)
           n == CapturedRangeLength(table, x.base, x.size)
<1>1. /\ t.range = VirtualRange(x.base, x.size) /\ t.captured = n
      /\ t.examined = IF examined = Unmeasured THEN Unmeasured ELSE Min({examined, n})
      /\ {"range", "captured"} \subseteq DOMAIN t
  BY DEF RegionTarget
<1>2. n \in Nat /\ (n > 0 => x.size > 0 /\ Backed(table, x.base))
  BY CapturedIsCount
<1> HIDE DEF t, n
<1>3. t.range \in Spans
  BY <1>1 DEF VirtualRange, Spans
<1>4. t.examined \in {Unmeasured} \union 0..n
  <2>1. CASE examined = Unmeasured
    BY <1>1, <2>1
  <2>2. CASE examined # Unmeasured
    <3>1. examined \in Nat /\ t.examined = Min({examined, n})
      BY <1>1, <2>2
    <3>2. Min({examined, n}) = IF examined <= n THEN examined ELSE n
      BY <1>2, <3>1, MinOfTwo
    <3> QED BY <1>2, <3>1, <3>2
  <2> QED BY <2>1, <2>2
<1>5. Held(t)
  BY <1>1, <1>2, BackedIsHeld
<1> QED BY <1>1, <1>2, <1>3, <1>4, <1>5 DEF TargetSound, t

\* The item at hand.
LEMMA ItemIs ==
    ASSUME IInv, AtItem
    PROVE  /\ Item.base \in Nat /\ Item.size \in Nat /\ Item = Items[k] /\ k \in DOMAIN Items
           /\ Items = ItemsOf(Pass) /\ Got \in 0..Item.size
           /\ dump.table \in Seq(Segments)
<1>1. Given /\ Place
  BY DEF IInv
<1>2. Items = ItemsOf(Pass) /\ k \in DOMAIN Items
  BY <1>1, Standing DEF AtItem
<1> QED BY <1>1, <1>2, ItemsAre, ItemsAreSpans DEF Got, Item

\* No gap, a gap of the item, and gaps joined.
LEMMA NoneCountable == Countable(<<>>)
  BY ShortLists DEF Countable

LEMMA NoteCountable ==
    ASSUME IInv, AtItem, NEW code, NEW examined \in {Unmeasured} \union 0..Item.size
    PROVE  Countable(Note(code, examined))
<1> DEFINE t == TargetAt(Item, examined)
           e == [pass |-> Pass, code |-> code, target |-> t]
<1>1. Item.base \in Nat /\ Item.size \in Nat /\ dump.table \in Seq(Segments)
  BY ItemIs
<1>2. TargetSound(t) /\ Held(t)
  <2>1. CASE Pass = "cs-beacon"
    <3>1. Item.size > 0 => Backed(dump.table, Item.base)
      BY <2>1, ItemIs, SegmentsAreBacked DEF IInv
    <3> QED BY <1>1, <2>1, <3>1, SegmentTargetSound DEF TargetAt
  <2>2. CASE Pass # "cs-beacon"
    <3>1. examined \in {Unmeasured} \union Nat
      BY <1>1
    <3> QED BY <1>1, <2>2, <3>1, RegionTargetSound DEF TargetAt
  <2> QED BY <2>1, <2>2
<1>3. Note(code, examined) = <<e>> /\ e.target = t
  BY DEF Note
<1> HIDE DEF e, t
<1>4. List(<<e>>) /\ ToSet(<<e>>) = {e}
  BY ShortLists
<1> QED BY <1>2, <1>3, <1>4 DEF Countable

LEMMA CountableJoined ==
    ASSUME NEW s, Countable(s), NEW t, Countable(t) PROVE Countable(s \o t)
<1>1. List(s) /\ List(t)
  BY DEF Countable
<1>2. List(s \o t) /\ ToSet(s \o t) = ToSet(s) \union ToSet(t)
  BY <1>1, Joined
<1> QED BY <1>2 DEF Countable

LEMMA ShortReadCountable == ASSUME IInv, AtItem PROVE Countable(ShortRead)
<1>1. Got \in {Unmeasured} \union 0..Item.size
  BY ItemIs
<1>2. Countable(Note("SCAN_REGION_SHORT_READ", Got))
  BY <1>1, NoteCountable
<1> QED BY <1>2, NoneCountable DEF ShortRead

\* A step that adds such gaps and publishes nothing keeps the tally.
LEMMA TallyGrows ==
    ASSUME Tallied, NEW gaps, Countable(gaps), notes' = notes \o gaps, UNCHANGED <<Run, pc, Out>>
    PROVE  Tallied'
<1>1. Countable(notes)'
  <2>1. Countable(notes)
    BY DEF Tallied
  <2>2. Countable(notes \o gaps)
    BY <2>1, CountableJoined
  <2>3. dump' = dump
    BY DEF Run
  <2> QED BY <2>2, <2>3 DEF Countable, Held, List
<1>2. records' = records /\ document' = document /\ pc' = pc /\ dump' = dump /\ roster' = roster
  BY DEF Out, Run
<1>3. Published' = Published /\ Reports' = Reports
  BY <1>2 DEF Published, Reports
<1> QED BY <1>1, <1>2, <1>3 DEF Tallied, Queueable, Held

\* So does one that leaves the notes and the records alone.
LEMMA TallyStays ==
    ASSUME Tallied, UNCHANGED <<Run, notes, records, document>>, pc' = "done" => pc = "done"
    PROVE  Tallied'
<1>1. dump' = dump /\ roster' = roster
  BY DEF Run
<1>2. Countable(notes)'
  BY <1>1 DEF Tallied, Countable, Held, List
<1>3. Published' = Published /\ Reports' = Reports
  BY DEF Published, Reports
<1> QED BY <1>1, <1>2, <1>3 DEF Tallied, Queueable, Held

\* Every visit of an item leaves gaps that can be counted.
LEMMA VisitsTally ==
    ASSUME IInv, Tallied,
           \/ SkipOversize \/ SkipUnbudgeted \/ ReadFails \/ TooLittle
           \/ SearchLayer \/ SearchPipe \/ SearchSegment
    PROVE  Tallied'
<1>1. ASSUME NEW gaps, NEW examined, Visit(gaps, examined), Countable(gaps), UNCHANGED <<Run, pc, Out>>
      PROVE  Tallied'
  <2>1. notes' = notes \o gaps
    BY <1>1 DEF Visit
  <2> QED BY <1>1, <2>1, TallyGrows
<1>2. ASSUME AtItem
      PROVE  /\ \A code : Countable(Note(code, 0)) /\ Countable(Note(code, Unmeasured))
             /\ Countable(ShortRead)
  <2>1. 0 \in {Unmeasured} \union 0..Item.size /\ Unmeasured \in {Unmeasured} \union 0..Item.size
    BY <1>2, ItemIs
  <2> QED BY <1>2, <2>1, NoteCountable, ShortReadCountable
<1>3. CASE SkipOversize
  <2>1. AtItem /\ Visit(Note("SCAN_REGION_OVERSIZED_SKIPPED", 0), 0) /\ UNCHANGED <<Run, pc, Out>>
    BY <1>3 DEF SkipOversize
  <2> QED BY <1>1, <1>2, <2>1
<1>4. CASE SkipUnbudgeted
  <2>1. /\ AtItem /\ Visit(Note("pipe_name", 0) \o Note("c2_context", 0), 0) /\ UNCHANGED <<Run, pc, Out>>
    BY <1>4 DEF SkipUnbudgeted
  <2>2. Countable(Note("pipe_name", 0) \o Note("c2_context", 0))
    BY <1>2, <2>1, CountableJoined
  <2> QED BY <1>1, <2>1, <2>2
<1>5. CASE ReadFails
  <2>1. AtItem /\ Visit(Note("SCAN_REGION_READ_FAILED", 0), 0) /\ UNCHANGED <<Run, pc, Out>>
    BY <1>5 DEF ReadFails, Reads
  <2> QED BY <1>1, <1>2, <2>1
<1>6. CASE TooLittle
  <2>1. AtItem /\ Visit(ShortRead, Got) /\ UNCHANGED <<Run, pc, Out>>
    BY <1>6 DEF TooLittle, Reads
  <2> QED BY <1>1, <1>2, <2>1
<1>7. CASE SearchLayer
  <2>1. PICK cut \in BOOLEAN : AtItem /\ Visit(ShortRead, IF cut THEN 0 ELSE Got) /\ UNCHANGED <<Run, pc, Out>>
    BY <1>7 DEF SearchLayer, Reads
  <2> QED BY <1>1, <1>2, <2>1
<1>8. CASE SearchPipe
  <2>1. PICK nameCut \in BOOLEAN, c2Cut \in BOOLEAN :
           /\ AtItem /\ UNCHANGED <<Run, pc, Out>>
           /\ Visit(ShortRead \o PipeNotes(nameCut, c2Cut), IF nameCut \/ c2Cut THEN 0 ELSE Got)
    <3>1. PICK cut \in BOOLEAN, leads \in BOOLEAN, c2cut \in BOOLEAN :
             LET started == "pipe_name" \notin spent
                 nameCut == ~started \/ cut
                 c2Cut   == leads /\ (c2cut \/ "c2_context" \in spent)
             IN Visit(ShortRead \o PipeNotes(nameCut, c2Cut), IF nameCut \/ c2Cut THEN 0 ELSE Got)
      BY <1>8 DEF SearchPipe
    <3> DEFINE nameCut == ~("pipe_name" \notin spent) \/ cut
               c2Cut == leads /\ (c2cut \/ "c2_context" \in spent)
    <3>2. nameCut \in BOOLEAN /\ c2Cut \in BOOLEAN
      OBVIOUS
    <3>3. Visit(ShortRead \o PipeNotes(nameCut, c2Cut), IF nameCut \/ c2Cut THEN 0 ELSE Got)
      BY <3>1
    <3>4. AtItem /\ UNCHANGED <<Run, pc, Out>>
      BY <1>8 DEF SearchPipe, Reads
    <3> HIDE DEF nameCut, c2Cut
    <3> QED BY <3>2, <3>3, <3>4
  <2>2. Countable(IF nameCut THEN Note("pipe_name", Unmeasured) ELSE <<>>)
        /\ Countable(IF c2Cut THEN Note("c2_context", Unmeasured) ELSE <<>>)
    BY <1>2, <2>1, NoneCountable
  <2>3. Countable(PipeNotes(nameCut, c2Cut))
    BY <2>2, CountableJoined DEF PipeNotes
  <2>4. Countable(ShortRead \o PipeNotes(nameCut, c2Cut))
    BY <1>2, <2>1, <2>3, CountableJoined
  <2> QED BY <1>1, <2>1, <2>4
<1>9. CASE SearchSegment
  <2>1. AtItem /\ Visit(ShortRead, Got) /\ UNCHANGED <<Run, pc, Out>>
    BY <1>9 DEF SearchSegment, Reads
  <2> QED BY <1>1, <1>2, <2>1
<1> QED BY <1>3, <1>4, <1>5, <1>6, <1>7, <1>8, <1>9

\* The segments left behind are counted from the cursor on.
LEMMA StopTallies == ASSUME IInv, Tallied, StopSegments PROVE Tallied'
<1> DEFINE n == Len(Items) - k + 1
           left == [i \in 1..n |-> i + k - 1]
           stop == "CS_BEACON_SCAN_BUDGET_EXHAUSTED"
<1>1. AtItem /\ UNCHANGED <<Run, pc, Out>>
  BY DEF StopSegments
<1>2. /\ Items = ItemsOf(Pass) /\ Item = Items[k] /\ k \in DOMAIN Items /\ n \in Nat
      /\ \A j \in DOMAIN Items : Items[j].base \in Nat /\ Items[j].size \in Nat
      /\ \A i \in 1..n : left[i] \in DOMAIN Items
  <2>1. Given /\ Place
    BY DEF IInv
  <2>2. Items = ItemsOf(Pass) /\ k \in 1..Len(Items) /\ Len(Items) \in Nat /\ DOMAIN Items = 1..Len(Items)
    BY <1>1, <2>1, Standing DEF AtItem
  <2>3. n \in Nat /\ \A i \in 1..n : left[i] \in DOMAIN Items
    BY <2>2
  <2>4. \A j \in DOMAIN Items : Items[j].base \in Nat /\ Items[j].size \in Nat
    BY <2>1, <2>2, ItemsAreSpans
  <2> HIDE DEF n, left
  <2> QED BY <2>2, <2>3, <2>4 DEF Item
<1>3. PICK started \in BOOLEAN, cursor \in {Unmeasured} \union (0..Item.size) :
         notes' = notes \o (IF started THEN ShortRead ELSE <<>>)
           \o [i \in DOMAIN left |->
                 [pass |-> Pass, code |-> stop,
                  target |-> SegmentTarget(Items[left[i]], IF left[i] = k /\ started THEN cursor ELSE 0)]]
  BY DEF StopSegments
<1> DEFINE first(j) == IF j = k /\ started THEN cursor ELSE 0
           short == IF started THEN ShortRead ELSE <<>>
           gap == [i \in DOMAIN left |->
                     [pass |-> Pass, code |-> stop,
                      target |-> SegmentTarget(Items[left[i]], first(left[i]))]]
           Good(t) == TargetSound(t) /\ Held(t)
<1>4. notes' = notes \o short \o gap
  BY <1>3
<1>5. DOMAIN left = 1..n
  OBVIOUS
<1>6. \A j \in DOMAIN Items : first(j) \in {Unmeasured} \union 0..Items[j].size
  <2> SUFFICES ASSUME NEW j \in DOMAIN Items PROVE first(j) \in {Unmeasured} \union 0..Items[j].size
    OBVIOUS
  <2>1. CASE j = k /\ started
    BY <1>2, <1>3, <2>1
  <2>2. CASE ~(j = k /\ started)
    BY <1>2, <2>2
  <2> QED BY <2>1, <2>2
<1> HIDE DEF n, left, first
<1>7. gap = [i \in 1..n |-> gap[i]] /\ \A i \in 1..n : Good(gap[i].target)
  <2>1. \A j \in DOMAIN Items : Good(SegmentTarget(Items[j], first(j)))
    <3>1. Given /\ Pass = "cs-beacon"
      BY DEF IInv, StopSegments
    <3>2. \A j \in DOMAIN Items : Items[j].size > 0 => Backed(dump.table, Items[j].base)
      BY <1>2, <3>1, SegmentsAreBacked
    <3>3. dump.table \in Seq(Segments)
      BY <1>1, ItemIs
    <3> QED BY <1>2, <1>6, <3>2, <3>3, SegmentTargetSound
  <2>2. \A i \in 1..n : gap[i].target = SegmentTarget(Items[left[i]], first(left[i]))
    BY <1>5
  <2>3. \A i \in 1..n : Good(gap[i].target)
    <3> HIDE DEF gap, Good
    <3> QED BY <1>2, <2>1, <2>2
  <2> QED BY <1>5, <2>3
<1> HIDE DEF gap, short
<1>8. Countable(gap)
  <2>1. List(gap) /\ ToSet(gap) = {gap[i] : i \in 1..n}
    BY <1>2, <1>7, ListIs
  <2> QED BY <1>7, <2>1 DEF Countable, Held
<1>9. Countable(short)
  BY <1>1, ShortReadCountable, NoneCountable DEF short
<1>10. Countable(notes)'
  <2>1. Countable(notes)
    BY DEF Tallied
  <2>2. Countable(notes \o short)
    BY <1>9, <2>1, CountableJoined
  <2>3. Countable((notes \o short) \o gap)
    BY <1>8, <2>2, CountableJoined
  <2> QED BY <1>1, <1>4, <2>3 DEF Countable, Held, Run
<1>11. records' = records /\ document' = document /\ pc' = pc /\ dump' = dump /\ roster' = roster
  BY <1>1 DEF Out, Run
<1>12. Published' = Published /\ Reports' = Reports
  BY <1>11 DEF Published, Reports
<1> QED BY <1>10, <1>11, <1>12 DEF Tallied, Queueable, Held

\* Limitations made of such gaps can be counted and queued.
LEMMA MadeIsSound ==
    ASSUME Countable(notes), NEW ls, Made(ls, Named) PROVE Sound(ls) /\ Queueable(ls)
<1>1. ASSUME NEW source, NEW scope, NEW t, <<source, scope, t>> \in Named
      PROVE  TargetSound(t) /\ Held(t)
  <2>1. \E x \in ToSet(notes) : t = x.target
    BY <1>1 DEF Named, PipeNamed, CsNamed, LayersNamed, NotedOf
  <2> QED BY <2>1 DEF Countable
<1>2. ASSUME NEW l \in ToSet(ls), NEW t \in ToSet(l.targets) PROVE TargetSound(t) /\ Held(t)
  BY <1>1, <1>2 DEF Made, MadeOf
<1>3. Sound(ls)
  BY <1>2 DEF Made, MadeOf, Sound, LimitationSound
<1> QED BY <1>2, <1>3 DEF Made, MadeOf, Queueable

\* A record's limitations are made of notes.
LEMMA PublishTallies == ASSUME IInv, Tallied, Publish PROVE Tallied'
<1>1. PICK corroborated, r :
         r.coverage = CoverageOf(corroborated) /\ records' = Append(records, r)
  <2>1. PICK detected \in BOOLEAN, corroborated \in BOOLEAN :
           records' = Append(records,
              [hunter |-> Hunter, evidence |-> evidence,
               status |-> DeriveStatus(Evaluated, detected, SnapshotComplete(corroborated)),
               coverage |-> CoverageOf(corroborated)])
    BY DEF Publish
  <2> DEFINE r == [hunter |-> Hunter, evidence |-> evidence,
                   status |-> DeriveStatus(Evaluated, detected, SnapshotComplete(corroborated)),
                   coverage |-> CoverageOf(corroborated)]
  <2>2. r.coverage = CoverageOf(corroborated) /\ records' = Append(records, r)
    BY <2>1
  <2> HIDE DEF r
  <2> QED BY <2>2
<1>2. notes' = notes /\ pc' # "done" /\ dump' = dump
  BY DEF Publish, Run
<1>3. Sound(r.coverage.limitations) /\ Queueable(r.coverage.limitations)
  <2>1. List(dump.regions)
    BY DocumentAssumption, TypedIsList DEF IInv, Given
  <2>2. Countable(notes)
    BY DEF Tallied
  <2>3. Made(r.coverage.limitations, Named)
    BY <1>1, <2>1, <2>2, CoverageMade DEF Countable
  <2> QED BY <2>2, <2>3, MadeIsSound
<1>4. \A i \in 1..Len(records') : records'[i] = r \/ (i \in Published /\ records'[i] = records[i])
  <2>1. List(records)
    BY DEF IInv, RecordsEarned
  <2> DEFINE S == ToSet(records) \union {r}
  <2>2. records \in Seq(S) /\ r \in S
    <3>1. Len(records) \in Nat /\ records \in [1..Len(records) -> ToSet(records)]
      BY <2>1, ListParts DEF List
    <3>2. records \in [1..Len(records) -> S]
      BY <3>1
    <3> QED BY <3>1, <3>2, SeqDef
  <2> HIDE DEF S
  <2>3. /\ Len(Append(records, r)) = Len(records) + 1
        /\ \A i \in 1..Len(records) : Append(records, r)[i] = records[i]
        /\ Append(records, r)[Len(records) + 1] = r
    BY <2>2, AppendProperties
  <2>4. Len(records) \in Nat
    BY <2>2
  <2>5. \A i \in 1..(Len(records) + 1) : i = Len(records) + 1 \/ i \in 1..Len(records)
    BY <2>4
  <2> QED BY <1>1, <2>3, <2>5 DEF Published
<1>5. \A i \in Published' : /\ Sound(records'[i].coverage.limitations)
                           /\ Queueable(records'[i].coverage.limitations)
  BY <1>3, <1>4 DEF Published, Tallied
<1>6. Countable(notes)'
  BY <1>2 DEF Tallied, Countable, Held, List
<1> QED BY <1>2, <1>5, <1>6 DEF Tallied, Queueable, Held

\* The document counts what the records left.
LEMMA FinishTallies == ASSUME IInv, Tallied, Finish PROVE Tallied'
<1>1. /\ records' = records /\ notes' = notes /\ dump' = dump /\ roster' = roster
      /\ document'.missed = CombineMissedBytes(Reports)
      /\ Len(roster) > 1 => document'.queue = BuildInvestigationQueue(records, dump.regions)
  BY DEF Finish, Run
<1>2. Countable(notes)'
  BY <1>1 DEF Tallied, Countable, Held, List
<1>3. Published' = Published /\ Reports' = Reports
  BY <1>1 DEF Published, Reports
<1> QED BY <1>1, <1>2, <1>3 DEF Tallied, Queueable, Held

\* Every step keeps the tally.
LEMMA TallyKept == ASSUME IInv, Tallied, [Next]_vars PROVE Tallied'
<1>1. CASE EndPass \/ Spend
  <2>1. UNCHANGED <<Run, notes, records, document>> /\ (pc' = "done" => pc = "done")
    BY <1>1 DEF EndPass, Spend, Out
  <2> QED BY <2>1, TallyStays
<1>2. CASE UNCHANGED vars
  <2>1. UNCHANGED <<Run, notes, records, document, pc>>
    BY <1>2 DEF vars, Run, Out
  <2> QED BY <2>1, TallyStays
<1>3. CASE Next /\ ~(EndPass \/ Spend)
  BY <1>3, VisitsTally, StopTallies, PublishTallies, FinishTallies DEF Next
<1> QED BY <1>1, <1>2, <1>3

LEMMA TallyInvariance == Spec => []Tallied
<1>1. ASSUME Init PROVE Tallied
  <2>1. notes = <<>> /\ records = <<>> /\ pc = "walk"
    BY <1>1 DEF Init
  <2>2. List(<<>>) /\ ToSet(<<>>) = {} /\ Len(<<>>) = 0
    BY ShortLists, ListParts
  <2> QED BY <2>1, <2>2 DEF Tallied, Countable, Published
<1>2. IInv /\ Tallied /\ [Next]_vars => Tallied'
  BY TallyKept
<1> QED BY <1>1, <1>2, Invariance, PTL DEF Spec

\* However many passes and hunters name a byte, and in whatever overlapping ranges, a
\* record counts it missed once (summarize_missed_bytes, _union_length); the document's
\* figure is that of all its records' ranges together and is exact only if each of
\* theirs is (combine_missed_bytes).
THEOREM EveryByteCountedOnce == Spec => []BytesCountedOnce
<1>1. ASSUME IInv, Tallied PROVE BytesCountedOnce
  <2> DEFINE n == Len(records)
  <2>1. n \in Nat /\ DOMAIN records = 1..n
    BY <1>1, ListParts DEF IInv, RecordsEarned
  <2>2. Reports = [i \in 1..n |-> Reports[i]] /\ \A i \in 1..n : Reports[i] = records[i].coverage
    BY <2>1 DEF Reports
  <2>3. Published = 1..n
    BY DEF Published
  <2> HIDE DEF n
  <2>4. \A i \in 1..n : Sound(Reports[i].limitations)
    BY <1>1, <2>2, <2>3 DEF Tallied
  <2>5. \A i \in Published : Measures(MissedBytesOf(Reports[i]), NamedBy({Reports[i]}))
    BY <2>3, <2>4, ReportMeasures
  <2>6. ASSUME pc = "done"
        PROVE  /\ Measures(document.missed, NamedBy(ToSet(Reports)))
               /\ document.missed.eligible = NoScale
               /\ (MissedState(document.missed) = "exact")
                    = \A i \in Published : MissedState(MissedBytesOf(Reports[i])) = "exact"
    <3>1. document.missed = CombineMissedBytes(Reports)
      BY <1>1, <2>6 DEF Tallied
    <3>2. /\ Measures(CombineMissedBytes(Reports), NamedBy(ToSet(Reports)))
          /\ CombineMissedBytes(Reports).eligible = NoScale
          /\ MissedState(CombineMissedBytes(Reports)) = "exact"
               <=> \A i \in 1..n : MissedState(MissedBytesOf(Reports[i])) = "exact"
      BY <2>1, <2>2, <2>4, DocumentMeasures
    <3> QED BY <2>3, <3>1, <3>2
  <2> QED BY <2>5, <2>6 DEF BytesCountedOnce
<1> QED BY <1>1, Invariance, TallyInvariance, PTL

(* The investigation queue. *)

SkipOf(hunter, l, t) ==
    [target |-> t, by |-> [hunter |-> hunter, source |-> l.source, scope |-> l.scope, cause |-> Cause(l.code)]]
WithCause(ls) == {l \in ls : Cause(l.code) # ""}
SkipsOf(hunter, ls) == UNION {{SkipOf(hunter, l, t) : t \in ToSet(l.targets)} : l \in WithCause(ls)}

\* The skips of one record, as Skips lists them.
RecordSkips(record) ==
    LET ls == Filtered(record.coverage.limitations, LAMBDA l : Cause(l.code) # "")
    IN FlattenSeq([i \in DOMAIN ls |->
         [j \in DOMAIN ls[i].targets |-> SkipOf(record.hunter, ls[i], ls[i].targets[j])]])

LEMMA RecordSkipsAre ==
    ASSUME NEW record, Sound(record.coverage.limitations)
    PROVE  /\ List(RecordSkips(record))
           /\ ToSet(RecordSkips(record)) = SkipsOf(record.hunter, ToSet(record.coverage.limitations))
<1> DEFINE limitations == record.coverage.limitations
           K == {i \in DOMAIN limitations : Cause(limitations[i].code) # ""}
           ls == Picked(limitations, K)
           n == Len(ls)
           ss == [i \in 1..n |->
                    [j \in DOMAIN ls[i].targets |-> SkipOf(record.hunter, ls[i], ls[i].targets[j])]]
<1>1. List(ls) /\ ToSet(ls) = WithCause(ToSet(limitations))
  <2>1. List(limitations) /\ K \in SUBSET DOMAIN limitations
    BY DEF Sound
  <2>2. {limitations[i] : i \in K} = WithCause(ToSet(limitations))
    BY DEF WithCause, ToSet
  <2> HIDE DEF K
  <2> QED BY <2>1, <2>2, PickedIs
<1>2. RecordSkips(record) = FlattenSeq([i \in DOMAIN ls |->
         [j \in DOMAIN ls[i].targets |-> SkipOf(record.hunter, ls[i], ls[i].targets[j])]])
  BY DEF RecordSkips, Filtered
<1> HIDE DEF ls
<1>3. n \in Nat /\ DOMAIN ls = 1..n
  BY <1>1, ListParts
<1>4. RecordSkips(record) = FlattenSeq(ss)
  BY <1>2, <1>3
<1>5. ASSUME NEW i \in 1..n
      PROVE  List(ss[i]) /\ ToSet(ss[i]) = {SkipOf(record.hunter, ls[i], t) : t \in ToSet(ls[i].targets)}
  <2> DEFINE l == ls[i]
             m == Len(l.targets)
  <2>1. l \in ToSet(limitations)
    BY <1>1, <1>3 DEF ToSet, WithCause
  <2>2. List(l.targets)
    BY <2>1 DEF Sound, LimitationSound
  <2>3. m \in Nat /\ DOMAIN l.targets = 1..m
    BY <2>2, ListParts
  <2> HIDE DEF l, m
  <2>4. /\ ss[i] = [j \in 1..m |-> ss[i][j]]
        /\ \A j \in 1..m : ss[i][j] = SkipOf(record.hunter, l, l.targets[j])
    BY <2>3 DEF l
  <2> HIDE DEF ss
  <2>5. List(ss[i]) /\ ToSet(ss[i]) = {ss[i][j] : j \in 1..m}
    BY <2>3, <2>4, ListIs
  <2>6. ToSet(l.targets) = {l.targets[j] : j \in 1..m}
    BY <2>3 DEF ToSet
  <2> QED BY <2>4, <2>5, <2>6 DEF l
<1>6. ss = [i \in 1..n |-> ss[i]]
  OBVIOUS
<1> HIDE DEF ss, n
<1>7. List(FlattenSeq(ss)) /\ ToSet(FlattenSeq(ss)) = UNION {ToSet(ss[i]) : i \in 1..n}
  BY <1>3, <1>5, <1>6, Flattened
<1>8. UNION {ToSet(ss[i]) : i \in 1..n} = SkipsOf(record.hunter, ToSet(limitations))
  <2>1. ToSet(ls) = {ls[i] : i \in 1..n}
    BY <1>3 DEF ToSet
  <2>2. SkipsOf(record.hunter, ToSet(limitations))
          = UNION {{SkipOf(record.hunter, l, t) : t \in ToSet(l.targets)} : l \in ToSet(ls)}
    BY <1>1 DEF SkipsOf
  <2> QED BY <1>5, <2>1, <2>2
<1> QED BY <1>4, <1>7, <1>8

\* Skips: every target of every gap with a cause, under the hunter and scope that left it.
LEMMA SkipsAre ==
    ASSUME NEW recs, List(recs), \A i \in DOMAIN recs : Sound(recs[i].coverage.limitations)
    PROVE  /\ List(Skips(recs))
           /\ ToSet(Skips(recs)) = UNION {SkipsOf(recs[i].hunter, ToSet(recs[i].coverage.limitations)) :
                                           i \in DOMAIN recs}
<1> DEFINE n == Len(recs)
           ss == [i \in 1..n |-> RecordSkips(recs[i])]
<1>1. n \in Nat /\ DOMAIN recs = 1..n
  BY ListParts
<1>2. Skips(recs) = FlattenSeq([i \in DOMAIN recs |-> RecordSkips(recs[i])])
  BY DEF Skips, RecordSkips, SkipOf
<1>3. Skips(recs) = FlattenSeq(ss)
  BY <1>1, <1>2
<1>4. \A i \in 1..n : /\ List(RecordSkips(recs[i]))
                      /\ ToSet(RecordSkips(recs[i])) = SkipsOf(recs[i].hunter, ToSet(recs[i].coverage.limitations))
  BY <1>1, RecordSkipsAre
<1>5. ss = [i \in 1..n |-> ss[i]] /\ \A i \in 1..n : ss[i] = RecordSkips(recs[i])
  OBVIOUS
<1> HIDE DEF ss, n
<1>6. List(FlattenSeq(ss)) /\ ToSet(FlattenSeq(ss)) = UNION {ToSet(ss[i]) : i \in 1..n}
  BY <1>1, <1>4, <1>5, Flattened
<1>7. UNION {ToSet(ss[i]) : i \in 1..n}
        = UNION {SkipsOf(recs[i].hunter, ToSet(recs[i].coverage.limitations)) : i \in 1..n}
  BY <1>4, <1>5
<1> QED BY <1>1, <1>3, <1>6, <1>7

\* A target the queue can be built from.
Targetable(t) == TargetSound(t) /\ {"range", "captured"} \subseteq DOMAIN t

\* What an action says of the skips it stands for.
Describes(a, group) ==
    /\ \E s \in group : a.target.range = s.target.range /\ a.target.captured = s.target.captured
    /\ a.skippedBy = {s.by : s \in group} /\ Cardinality(a.skippedBy) \in Nat
    /\ a.availability \in {"captured", "partial", "not_captured"} /\ a.priority \in {"high", "medium", "low"}
    /\ a.rescan # {} => a.target.captured # 0
    /\ "MULTIPLE_SCOPES_SKIPPED" \in a.reasons =>
          /\ Cardinality(a.skippedBy) > 1
          /\ a.target.captured # 0 \/ \E by \in a.skippedBy : by.cause # "read_failed"

\* The merged target has the range and the captured bytes of one of the group.
LEMMA MergedIs ==
    ASSUME NEW targets, List(targets), targets # <<>>, NEW regions,
           \A i \in 1..Len(targets) : Targetable(targets[i])
    PROVE  \E i \in 1..Len(targets) : /\ MergeTargetGroup(targets, regions).range = targets[i].range
                                      /\ MergeTargetGroup(targets, regions).captured = targets[i].captured
<1> DEFINE n == Len(targets)
           I == {i \in 1..Len(targets) : targets[i].kind = "memory_region"}
           region == SelectInSeq(targets, LAMBDA t : t.kind = "memory_region")
           info == MatchingMemoryInfo(regions, targets[1].range)
           described == [targets[1] EXCEPT !.kind = "memory_region", !.access = regions[info].kind,
                                           !.examined = Unmeasured]
           merged == MergeTargetGroup(targets, regions)
<1>1. merged = IF region # 0 THEN targets[region] ELSE IF info = 0 THEN targets[1] ELSE described
  BY DEF MergeTargetGroup
<1>2. n \in Nat /\ n # 0
  BY ListParts
<1>3. region # 0 => region \in 1..n
  <2>1. region = IF I # {} THEN Min(I) ELSE 0
    BY DEF SelectInSeq
  <2>2. ASSUME I # {} PROVE Min(I) \in I
    <3>1. PICK i \in I : \A j \in I : i <= j
      <4>1. I \subseteq Nat
        OBVIOUS
      <4> HIDE DEF I
      <4> QED BY <2>2, <4>1, LeastNatural
    <3> HIDE DEF I
    <3> QED BY <3>1 DEF Min
  <2> HIDE DEF region
  <2> QED BY <2>1, <2>2
<1>4. 1 \in 1..n /\ {"range", "captured"} \subseteq DOMAIN targets[1]
  BY <1>2 DEF Targetable
<1>5. described.range = targets[1].range /\ described.captured = targets[1].captured
  BY <1>4
<1> HIDE DEF region, info, described, n
<1>6. \E i \in 1..n : merged.range = targets[i].range /\ merged.captured = targets[i].captured
  BY <1>1, <1>3, <1>4, <1>5
<1> QED BY <1>6 DEF n

\* The image of a finite set.
LEMMA ImageIsFinite ==
    ASSUME NEW S, IsFiniteSet(S), NEW f
    PROVE  LET T == {f[x] : x \in S} IN IsFiniteSet(T) /\ Cardinality(T) <= Cardinality(S)
<1> DEFINE T == {f[x] : x \in S}
           onto == [x \in S |-> f[x]]
<1>1. onto \in Surjection(S, T)
  BY DEF Surjection
<1> QED BY <1>1, FS_Surjection

\* One action stands for a group of skips of one range.
LEMMA ActionIs ==
    ASSUME NEW group, List(group), group # <<>>, \A s \in ToSet(group) : Targetable(s.target),
           NEW regions, NEW correlated
    PROVE  Describes(InvestigationAction(group, regions, correlated), ToSet(group))
<1> DEFINE n == Len(group)
           targets == [i \in 1..n |-> group[i].target]
           target == MergeTargetGroup([i \in DOMAIN group |-> group[i].target], regions)
           by == {s.by : s \in ToSet(group)}
           scopes == {<<s.hunter, s.source, s.scope>> : s \in by}
           shared == SharedAbsence(target, by)
           exec == IF HasExecSignal(target)
                   THEN {"PRIVATE_EXECUTABLE_MEMORY", "RWX_PROTECTION"} ELSE {}
           related == (IF Cardinality(scopes) > 1 /\ ~shared THEN {"MULTIPLE_SCOPES_SKIPPED"} ELSE {})
             \union (IF target.kind = "memory_region" /\ target.range \in correlated
                     THEN {"CORRELATED_REGION_EVIDENCE"} ELSE {})
           a == InvestigationAction(group, regions, correlated)
<1>1. /\ a.target = target /\ a.skippedBy = by /\ a.reasons = exec \union related
      /\ a.priority = Priority(exec # {}, related # {}) /\ a.availability = Availability(target)
      /\ a.rescan = RescanHunters(Availability(target), {s.hunter : s \in by})
  BY DEF InvestigationAction
<1>2. n \in Nat /\ n > 0 /\ DOMAIN group = 1..n /\ ToSet(group) = {group[i] : i \in 1..n}
  <2>1. n \in Nat /\ DOMAIN group = 1..n /\ n # 0
    BY ListParts
  <2> HIDE DEF n
  <2> QED BY <2>1 DEF ToSet
<1>3. \E s \in ToSet(group) : target.range = s.target.range /\ target.captured = s.target.captured
  <2>1. target = MergeTargetGroup(targets, regions)
    BY <1>2
  <2>2. targets = [i \in 1..n |-> targets[i]] /\ \A i \in 1..n : targets[i] = group[i].target
    OBVIOUS
  <2> HIDE DEF targets, target, n
  <2>3. List(targets) /\ Len(targets) = n
    BY <1>2, <2>2, ListIs
  <2>4. \A i \in 1..Len(targets) : Targetable(targets[i])
    BY <1>2, <2>2, <2>3
  <2>5. targets # <<>>
    BY <1>2, <2>3, ListParts
  <2>6. PICK i \in 1..Len(targets) : target.range = targets[i].range /\ target.captured = targets[i].captured
    BY <2>1, <2>3, <2>4, <2>5, MergedIs
  <2> QED BY <1>2, <2>2, <2>3, <2>6
<1>4. /\ Cardinality(by) \in Nat /\ Cardinality(scopes) \in Nat
      /\ Cardinality(scopes) <= Cardinality(by)
  <2> DEFINE f == [i \in 1..n |-> group[i].by]
             g == [s \in by |-> <<s.hunter, s.source, s.scope>>]
  <2>1. by = {f[i] : i \in 1..n}
    BY <1>2
  <2>2. scopes = {g[s] : s \in by}
    OBVIOUS
  <2>3. IsFiniteSet(1..n)
    BY <1>2, FS_Interval
  <2> HIDE DEF by, scopes, n, f, g
  <2>4. IsFiniteSet(by)
    BY <2>1, <2>3, ImageIsFinite
  <2>5. IsFiniteSet(scopes) /\ Cardinality(scopes) <= Cardinality(by)
    BY <2>2, <2>4, ImageIsFinite
  <2> QED BY <2>4, <2>5, FS_CardinalityType
<1> HIDE DEF target, by, scopes, n
<1>5. /\ a.availability \in {"captured", "partial", "not_captured"}
      /\ a.priority \in {"high", "medium", "low"}
      /\ a.rescan # {} => target.captured # 0
  BY <1>1 DEF Availability, Priority, RescanHunters
<1>6. ASSUME "MULTIPLE_SCOPES_SKIPPED" \in a.reasons
      PROVE  /\ Cardinality(by) > 1
             /\ target.captured # 0 \/ \E x \in by : x.cause # "read_failed"
  <2>1. Cardinality(scopes) > 1 /\ ~shared
    BY <1>1, <1>6
  <2>2. Cardinality(by) > 1
    BY <1>4, <2>1
  <2>3. target.captured # 0 \/ \E x \in by : x.cause # "read_failed"
    BY <2>1 DEF SharedAbsence, Availability
  <2> QED BY <2>2, <2>3
<1> HIDE DEF a
<1> QED BY <1>1, <1>3, <1>4, <1>5, <1>6 DEF Describes, by, a

\* Where an action stands in the queue, as numbers.
Standings(a) ==
    [priority |-> PriorityRank[a.priority], availability |-> AvailabilityRank[a.availability],
     skips |-> -Cardinality(a.skippedBy), base |-> a.target.range.base]
Rank == [priority: Int, availability: Int, skips: Int, base: Int]
Ahead(x, y) ==
    \/ x.priority < y.priority
    \/ x.priority = y.priority /\ x.availability < y.availability
    \/ x.priority = y.priority /\ x.availability = y.availability /\ x.skips < y.skips
    \/ /\ x.priority = y.priority /\ x.availability = y.availability /\ x.skips = y.skips
       /\ x.base < y.base

LEMMA StandingsIs ==
    ASSUME NEW a, NEW group, Describes(a, group), \A s \in group : Targetable(s.target)
    PROVE  Standings(a) \in Rank
<1>1. a.target.range.base \in Nat
  BY DEF Describes, Targetable, TargetSound, Spans
<1>2. PriorityRank[a.priority] \in Int /\ AvailabilityRank[a.availability] \in Int
  BY DEF Describes, PriorityRank, AvailabilityRank
<1>3. -Cardinality(a.skippedBy) \in Int
  BY DEF Describes
<1> QED BY <1>1, <1>2, <1>3 DEF Standings, Rank

LEMMA BeforeIsAhead == ASSUME NEW a, NEW b PROVE ActionBefore(a, b) <=> Ahead(Standings(a), Standings(b))
<1> DEFINE x == Standings(a)
           y == Standings(b)
           u == <<x.priority, x.availability, x.skips, x.base>>
           v == <<y.priority, y.availability, y.skips, y.base>>
<1>1. ActionBefore(a, b) <=> \E n \in 1..4 : u[n] < v[n] /\ \A m \in 1..(n - 1) : u[m] = v[m]
  BY DEF ActionBefore, Standings
<1>2. /\ u[1] = x.priority /\ u[2] = x.availability /\ u[3] = x.skips /\ u[4] = x.base
      /\ v[1] = y.priority /\ v[2] = y.availability /\ v[3] = y.skips /\ v[4] = y.base
  OBVIOUS
<1> HIDE DEF x, y, u, v
<1>3. /\ \A m \in 1..(1 - 1) : FALSE
      /\ \A m \in 1..(2 - 1) : m = 1
      /\ \A m \in 1..(3 - 1) : m \in {1, 2}
      /\ \A m \in 1..(4 - 1) : m \in {1, 2, 3}
      /\ \A n \in 1..4 : n \in {1, 2, 3, 4}
      /\ 1 \in 1..(2 - 1) /\ {1, 2} \subseteq 1..(3 - 1) /\ {1, 2, 3} \subseteq 1..(4 - 1)
      /\ {1, 2, 3, 4} \subseteq 1..4
  OBVIOUS
<1>4. (\E n \in 1..4 : u[n] < v[n] /\ \A m \in 1..(n - 1) : u[m] = v[m])
        <=> \/ u[1] < v[1]
            \/ u[1] = v[1] /\ u[2] < v[2]
            \/ u[1] = v[1] /\ u[2] = v[2] /\ u[3] < v[3]
            \/ u[1] = v[1] /\ u[2] = v[2] /\ u[3] = v[3] /\ u[4] < v[4]
  BY <1>3
<1> QED BY <1>1, <1>2, <1>4 DEF Ahead, x, y

\* Standings are a weak order.
LEMMA AheadOrders ==
    ASSUME NEW x \in Rank, NEW y \in Rank, NEW w \in Rank
    PROVE  /\ ~(Ahead(x, y) /\ Ahead(y, x))
           /\ ~Ahead(x, w) /\ ~Ahead(w, y) => ~Ahead(x, y)
<1>1. /\ x.priority \in Int /\ x.availability \in Int /\ x.skips \in Int /\ x.base \in Int
      /\ y.priority \in Int /\ y.availability \in Int /\ y.skips \in Int /\ y.base \in Int
      /\ w.priority \in Int /\ w.availability \in Int /\ w.skips \in Int /\ w.base \in Int
  BY DEF Rank
<1>2. ~(Ahead(x, y) /\ Ahead(y, x))
  BY <1>1 DEF Ahead
<1>3. ASSUME ~Ahead(x, w), ~Ahead(w, y) PROVE ~Ahead(x, y)
  <2>1. /\ w.priority <= x.priority /\ y.priority <= w.priority
        /\ w.priority = x.priority => w.availability <= x.availability
        /\ y.priority = w.priority => y.availability <= w.availability
    BY <1>1, <1>3 DEF Ahead
  <2>2. /\ w.priority = x.priority /\ w.availability = x.availability =>
             w.skips <= x.skips /\ (w.skips = x.skips => w.base <= x.base)
        /\ y.priority = w.priority /\ y.availability = w.availability =>
             y.skips <= w.skips /\ (y.skips = w.skips => y.base <= w.base)
    BY <1>1, <1>3 DEF Ahead
  <2>3. CASE y.priority # x.priority
    BY <1>1, <2>1, <2>3 DEF Ahead
  <2>4. CASE y.priority = x.priority
    <3>1. w.priority = x.priority
      BY <1>1, <2>1, <2>4
    <3>2. CASE y.availability # x.availability
      BY <1>1, <2>1, <2>4, <3>1, <3>2 DEF Ahead
    <3>3. CASE y.availability = x.availability
      <4>1. w.availability = x.availability
        BY <1>1, <2>1, <2>4, <3>1, <3>3
      <4>2. /\ w.skips <= x.skips /\ (w.skips = x.skips => w.base <= x.base)
            /\ y.skips <= w.skips /\ (y.skips = w.skips => y.base <= w.base)
        BY <2>2, <2>4, <3>1, <3>3, <4>1
      <4>3. ~(x.skips < y.skips) /\ (x.skips = y.skips => ~(x.base < y.base))
        BY <1>1, <4>2
      <4> QED BY <1>1, <2>4, <3>3, <4>3 DEF Ahead
    <3> QED BY <3>2, <3>3
  <2> QED BY <2>3, <2>4
<1> QED BY <1>2, <1>3

\* Ordering by standing, then by place, is a strict order.
LEMMA StandingOrder ==
    ASSUME NEW K, NEW z, \A i \in K : i \in Int /\ z[i] \in Rank,
           NEW R, R \subseteq K \X K,
           \A i, j \in K : <<i, j>> \in R <=> Ahead(z[i], z[j]) \/ (~Ahead(z[j], z[i]) /\ i < j)
    PROVE  StrictOrder(K, R) /\ \A i, j \in K : <<i, j>> \in R => z[i].priority <= z[j].priority
<1>1. \A i \in K : /\ i \in Int /\ z[i].priority \in Int /\ z[i].availability \in Int
                   /\ z[i].skips \in Int /\ z[i].base \in Int
  BY DEF Rank
<1>2. \A i \in K : <<i, i>> \notin R
  BY <1>1 DEF Ahead
<1>3. ASSUME NEW i \in K, NEW j \in K PROVE i = j \/ <<i, j>> \in R \/ <<j, i>> \in R
  <2>1. /\ <<i, j>> \in R <=> Ahead(z[i], z[j]) \/ (~Ahead(z[j], z[i]) /\ i < j)
        /\ <<j, i>> \in R <=> Ahead(z[j], z[i]) \/ (~Ahead(z[i], z[j]) /\ j < i)
    OBVIOUS
  <2>2. i = j \/ i < j \/ j < i
    BY <1>1
  <2> QED BY <2>1, <2>2
<1>4. ASSUME NEW i \in K, NEW j \in K, NEW m \in K, <<i, j>> \in R, <<j, m>> \in R PROVE <<i, m>> \in R
  <2> DEFINE x == z[i]
             y == z[j]
             w == z[m]
  <2>1. Ahead(x, y) \/ (~Ahead(y, x) /\ i < j)
    BY <1>4
  <2>2. Ahead(y, w) \/ (~Ahead(w, y) /\ j < m)
    BY <1>4
  <2>3. /\ ~(Ahead(x, y) /\ Ahead(y, x)) /\ ~(Ahead(y, w) /\ Ahead(w, y))
        /\ ~Ahead(w, y) /\ ~Ahead(y, x) => ~Ahead(w, x)
        /\ ~Ahead(x, w) /\ ~Ahead(w, y) => ~Ahead(x, y)
        /\ ~Ahead(y, x) /\ ~Ahead(x, w) => ~Ahead(y, w)
    BY AheadOrders
  <2> HIDE DEF x, y, w
  <2>4. Ahead(x, w) \/ (~Ahead(w, x) /\ i < m)
    BY <1>1, <2>1, <2>2, <2>3
  <2> QED BY <2>4 DEF x, w
<1>5. \A i, j \in K : <<i, j>> \in R => z[i].priority <= z[j].priority
  BY <1>1 DEF Ahead
<1> QED BY <1>2, <1>3, <1>4, <1>5 DEF StrictOrder

\* The queue: one action for each range that was skipped, of all its skips, in order.
IsQueue(q, S) ==
    /\ \A c \in DOMAIN q : Describes(q[c], {s \in S : s.target.range = q[c].target.range})
    /\ \A s \in S : \E c \in DOMAIN q : \A d \in DOMAIN q : q[d].target.range = s.target.range <=> d = c
    /\ \A c \in DOMAIN q : c > 1 => PriorityRank[q[c - 1].priority] <= PriorityRank[q[c].priority]

\* Actions sorted by their standing.
LEMMA ActionsSorted ==
    ASSUME NEW m \in Nat, NEW act, act = [x \in 1..m |-> act[x]], NEW S, \A s \in S : Targetable(s.target),
           NEW r, \A x \in 1..m : Describes(act[x], {s \in S : s.target.range = r[x]}),
           \A x, y \in 1..m : r[x] = r[y] => x = y, \A s \in S : \E x \in 1..m : r[x] = s.target.range
    PROVE  IsQueue(StableSort(act, ActionBefore), S)
<1> DEFINE K == 1..m
           Every == {i \in DOMAIN act : TRUE}
           Before(i, j) == ActionBefore(act[i], act[j]) \/ (~ActionBefore(act[j], act[i]) /\ i < j)
           R == {x \in K \X K : Before(x[1], x[2])}
           z == [i \in K |-> Standings(act[i])]
           slot == [i \in Every |-> 1 + Cardinality({j \in Every : Before(j, i)})]
           q == StableSort(act, ActionBefore)
<1>1. K = 1..m
  OBVIOUS
<1>2. DOMAIN act = K
  BY Zenon
<1>3. IsFiniteSet(K) /\ Cardinality(K) = m
  BY FS_Interval
<1>4. \A i \in K : i \in Int /\ z[i] = Standings(act[i])
                   /\ z[i] \in Rank
  <2>1. ASSUME NEW i \in K PROVE Standings(act[i]) \in Rank
    <3> DEFINE G == {s \in S : s.target.range = r[i]}
    <3>1. Describes(act[i], G) /\ \A s \in G : Targetable(s.target)
      OBVIOUS
    <3> HIDE DEF G
    <3> QED BY <3>1, StandingsIs
  <2> QED BY <2>1
<1>5. \A i, j \in K : <<i, j>> \in R <=> Ahead(z[i], z[j]) \/ (~Ahead(z[j], z[i]) /\ i < j)
  <2> SUFFICES ASSUME NEW i \in K, NEW j \in K
               PROVE  Before(i, j) <=> Ahead(z[i], z[j]) \/ (~Ahead(z[j], z[i]) /\ i < j)
    OBVIOUS
  <2> HIDE DEF z, K
  <2> QED BY <1>4, BeforeIsAhead
<1>6. q = SortedList(act, K, R)
  <2>1. q = [n \in 1..Cardinality(Every) |-> act[CHOOSE i \in Every : slot[i] = n]]
    BY DEF StableSort, SortKept
  <2>2. Every = K
    BY <1>2
  <2> HIDE DEF Every
  <2>3. slot = Placing(K, R)
    <3>1. ASSUME NEW i \in K PROVE {j \in Every : Before(j, i)} = Below(K, R, i)
      BY <2>2 DEF Below
    <3> HIDE DEF R, Before, K
    <3> QED BY <2>2, <3>1 DEF Placing
  <2> HIDE DEF slot, K, R
  <2> QED BY <2>1, <2>2, <2>3 DEF SortedList
<1>7. R \subseteq K \X K
  OBVIOUS
<1>8. \A i \in K : Describes(act[i], {s \in S : s.target.range = r[i]})
  OBVIOUS
<1>9. \A s \in S : \E x \in K : r[x] = s.target.range
  OBVIOUS
<1>10. \A i \in K : z[i] = Standings(act[i])
  OBVIOUS
<1> HIDE DEF z, R, q, K
<1>11. StrictOrder(K, R) /\ \A i, j \in K : <<i, j>> \in R => z[i].priority <= z[j].priority
  BY <1>4, <1>5, <1>7, StandingOrder
<1>12. PICK at \in [1..m -> K] :
         /\ \A n \in 1..m : at[n] = CHOOSE i \in K : Placing(K, R)[i] = n
         /\ \A i \in K : \E n \in 1..m : at[n] = i
         /\ \A b, c \in 1..m : b < c => <<at[b], at[c]>> \in R
  <2>1. \E g \in [1..Cardinality(K) -> K] :
         /\ \A n \in 1..Cardinality(K) : g[n] = CHOOSE i \in K : Placing(K, R)[i] = n
         /\ \A i \in K : \E n \in 1..Cardinality(K) : g[n] = i
         /\ \A b, c \in 1..Cardinality(K) : b < c => <<g[b], g[c]>> \in R
    BY <1>3, <1>11, Ordered
  <2> QED BY <1>3, <2>1
<1>13. /\ DOMAIN q = 1..m
       /\ \A c \in 1..m : q[c] = act[at[c]] /\ at[c] \in K
  <2>1. q = [n \in 1..m |-> act[CHOOSE i \in K : Placing(K, R)[i] = n]]
    BY <1>3, <1>6 DEF SortedList
  <2>2. \A c \in 1..m : at[c] \in K /\ at[c] = CHOOSE i \in K : Placing(K, R)[i] = c
    BY <1>12
  <2> QED BY <2>1, <2>2
<1>14. \A i \in K : act[i].target.range = r[i]
  BY <1>8 DEF Describes
<1>15. ASSUME NEW c \in 1..m PROVE Describes(q[c], {s \in S : s.target.range = q[c].target.range})
  <2>1. q[c] = act[at[c]] /\ at[c] \in K
    BY <1>13
  <2>2. q[c].target.range = r[at[c]]
    BY <1>14, <2>1
  <2>3. {s \in S : s.target.range = q[c].target.range} = {s \in S : s.target.range = r[at[c]]}
    BY <2>2
  <2>4. Describes(act[at[c]], {s \in S : s.target.range = r[at[c]]})
    BY <1>8, <2>1
  <2> QED BY <2>1, <2>3, <2>4
<1>16. ASSUME NEW s \in S
       PROVE  \E c \in 1..m : \A d \in 1..m : q[d].target.range = s.target.range <=> d = c
  <2>1. PICK x \in K : r[x] = s.target.range
    BY <1>9
  <2>2. PICK c \in 1..m : at[c] = x
    BY <1>12
  <2>3. \A d \in 1..m : at[d] = x => d = c
    <3>1. \A b, d \in 1..m : b < d => at[b] # at[d]
      BY <1>11, <1>12 DEF StrictOrder
    <3>2. \A d \in 1..m : d = c \/ d < c \/ c < d
      OBVIOUS
    <3> QED BY <2>2, <3>1, <3>2
  <2>4. ASSUME NEW d \in 1..m PROVE q[d].target.range = s.target.range <=> at[d] = x
    <3>1. at[d] \in K /\ x \in K /\ q[d].target.range = r[at[d]]
      BY <1>13, <1>14, <2>1
    <3>2. r[at[d]] = r[x] => at[d] = x
      BY <1>1, <3>1
    <3> QED BY <2>1, <3>1, <3>2
  <2> QED BY <2>2, <2>3, <2>4
<1>17. ASSUME NEW c \in 1..m, c > 1
       PROVE  PriorityRank[q[c - 1].priority] <= PriorityRank[q[c].priority]
  <2>1. c - 1 \in 1..m /\ c - 1 < c
    BY <1>17
  <2>2. z[at[c - 1]].priority <= z[at[c]].priority
    <3>1. at[c - 1] \in K /\ at[c] \in K /\ <<at[c - 1], at[c]>> \in R
      BY <1>12, <2>1
    <3> QED BY <1>11, <3>1
  <2>3. \A i \in K : z[i].priority = PriorityRank[act[i].priority]
    <3>1. \A a : Standings(a).priority = PriorityRank[a.priority]
      BY DEF Standings
    <3> QED BY <1>10, <3>1
  <2>4. q[c] = act[at[c]] /\ q[c - 1] = act[at[c - 1]] /\ at[c] \in K /\ at[c - 1] \in K
    BY <1>13, <2>1
  <2> QED BY <2>2, <2>3, <2>4
<1>18. /\ \A c \in DOMAIN q : Describes(q[c], {s \in S : s.target.range = q[c].target.range})
       /\ \A s \in S : \E c \in DOMAIN q : \A d \in DOMAIN q : q[d].target.range = s.target.range <=> d = c
       /\ \A c \in DOMAIN q : c > 1 => PriorityRank[q[c - 1].priority] <= PriorityRank[q[c].priority]
  BY <1>13, <1>15, <1>16, <1>17
<1> QED BY <1>18 DEF IsQueue, q

LEMMA QueueIs ==
    ASSUME NEW recs, List(Skips(recs)), \A s \in ToSet(Skips(recs)) : Targetable(s.target), NEW regions
    PROVE  IsQueue(BuildInvestigationQueue(recs, regions), ToSet(Skips(recs)))
<1> DEFINE skips == Skips(recs)
           n == Len(skips)
           S == ToSet(skips)
           ids == [i \in DOMAIN skips |-> i]
           K == {i \in DOMAIN ids :
                    \A j \in 1..(ids[i] - 1) : DedupKey(skips[j].target) # DedupKey(skips[ids[i]].target)}
           firsts == Picked(ids, K)
           m == Len(firsts)
           Members(key) == {i \in DOMAIN skips : DedupKey(skips[i].target) = key}
           Group(key) == Picked(skips, Members(key))
           Key(x) == DedupKey(skips[firsts[x]].target)
           correlated == RegionCorrelations(recs, regions)
           act == [x \in DOMAIN firsts |-> InvestigationAction(Group(Key(x)), regions, correlated)]
           r == [x \in 1..m |-> skips[firsts[x]].target.range]
<1>1. BuildInvestigationQueue(recs, regions) = StableSort(act, ActionBefore)
  BY DEF BuildInvestigationQueue, Filtered
<1>2. n \in Nat /\ DOMAIN skips = 1..n /\ S = {skips[i] : i \in 1..n}
  <2>1. n \in Nat /\ DOMAIN skips = 1..n
    BY ListParts
  <2> QED BY <2>1 DEF ToSet
<1>3. \A t, u : DedupKey(t) = DedupKey(u) <=> t.range = u.range
  BY DEF DedupKey
<1> HIDE DEF skips
<1>4. K = {i \in 1..n : \A j \in 1..(i - 1) : skips[j].target.range # skips[i].target.range}
  BY <1>2, <1>3
<1>5. List(ids) /\ DOMAIN ids = 1..n /\ \A i \in 1..n : ids[i] = i
  <2>1. ids = [i \in 1..n |-> ids[i]]
    BY <1>2
  <2>2. DOMAIN ids = 1..n /\ \A i \in 1..n : ids[i] = i
    BY <1>2
  <2> HIDE DEF n, ids
  <2> QED BY <1>2, <2>1, <2>2, ListIs
<1> HIDE DEF n, ids, K
<1>6. K \in SUBSET DOMAIN ids /\ {ids[i] : i \in K} = K
  BY <1>4, <1>5
<1>7. List(firsts) /\ ToSet(firsts) = K /\ m = Cardinality(K)
  BY <1>5, <1>6, PickedIs
<1> HIDE DEF firsts
<1>8. m \in Nat /\ DOMAIN firsts = 1..m /\ firsts \in [1..m -> K]
      /\ \A i \in K : \E x \in 1..m : firsts[x] = i
  <2>1. m \in Nat /\ DOMAIN firsts = 1..m /\ firsts = [i \in 1..m |-> firsts[i]]
    BY <1>7, ListParts DEF List
  <2> QED BY <1>7, <2>1 DEF ToSet
<1>9. \A x, y \in 1..m : firsts[x] = firsts[y] => x = y
  <2>1. firsts \in Surjection(1..m, K)
    BY <1>8 DEF Surjection
  <2>2. IsFiniteSet(1..m) /\ Cardinality(1..m) = m
    BY <1>8, FS_Interval
  <2>3. firsts \in Injection(1..m, K)
    BY <1>7, <2>1, <2>2, FS_Surjection
  <2> HIDE DEF m
  <2>4. \A x, y \in 1..m : firsts[x] = firsts[y] => x = y
    BY <2>3, Zenon DEF Injection, IsInjective
  <2> QED BY <2>4
<1> HIDE DEF m
<1>10. \A x \in 1..m : firsts[x] \in 1..n /\ r[x] = skips[firsts[x]].target.range
  BY <1>4, <1>8
<1> HIDE DEF r
<1>11. ASSUME NEW x \in 1..m PROVE Describes(act[x], {s \in S : s.target.range = r[x]})
  <2> DEFINE G == Group(Key(x))
             M == Members(Key(x))
  <2>1. M = {i \in 1..n : skips[i].target.range = r[x]} /\ M \in SUBSET DOMAIN skips /\ firsts[x] \in M
    BY <1>2, <1>3, <1>10
  <2>2. {skips[i] : i \in M} = {s \in S : s.target.range = r[x]}
    BY <1>2, <2>1
  <2> HIDE DEF M
  <2>3. List(G) /\ ToSet(G) = {skips[i] : i \in M} /\ G # <<>>
    BY <2>1, PickedIs DEF M, skips
  <2>4. act[x] = InvestigationAction(G, regions, correlated)
    BY <1>8
  <2> HIDE DEF G, act, correlated
  <2>5. \A s \in ToSet(G) : Targetable(s.target)
    BY <2>2, <2>3 DEF skips
  <2>6. Describes(act[x], ToSet(G))
    BY <2>3, <2>4, <2>5, ActionIs
  <2> QED BY <2>2, <2>3, <2>6
<1>12. ASSUME NEW x \in 1..m, NEW y \in 1..m, r[x] = r[y] PROVE x = y
  <2> DEFINE i == firsts[x]
             j == firsts[y]
  <2>1. i \in K /\ j \in K /\ i \in Nat /\ j \in Nat /\ i >= 1 /\ j >= 1
    BY <1>2, <1>8, <1>10
  <2>2. skips[i].target.range = skips[j].target.range
    BY <1>10, <1>12
  <2> HIDE DEF i, j
  <2>3. i = j
    <3>1. ~(i < j)
      BY <1>4, <2>1, <2>2
    <3>2. ~(j < i)
      BY <1>4, <2>1, <2>2
    <3> QED BY <2>1, <3>1, <3>2
  <2> QED BY <1>9, <2>3 DEF i, j
<1>13. ASSUME NEW s \in S PROVE \E x \in 1..m : r[x] = s.target.range
  <2> DEFINE T == {i \in 1..n : skips[i].target.range = s.target.range}
  <2>1. T # {} /\ T \subseteq Nat
    BY <1>2
  <2> HIDE DEF T
  <2>2. PICK i \in T : \A j \in T : i <= j
    BY <2>1, LeastNatural
  <2>3. i \in 1..n /\ skips[i].target.range = s.target.range
    BY <2>2 DEF T
  <2>4. \A j \in 1..(i - 1) : skips[j].target.range # skips[i].target.range
    <3> SUFFICES ASSUME NEW j \in 1..(i - 1) PROVE skips[j].target.range # s.target.range
      BY <2>3
    <3>1. j \in 1..n /\ j < i
      BY <1>2, <2>3
    <3> QED BY <2>2, <3>1 DEF T
  <2>5. i \in K
    BY <1>4, <2>3, <2>4
  <2> QED BY <1>8, <1>10, <2>3, <2>5
<1>14. act = [x \in 1..m |-> act[x]]
  BY <1>8
<1> HIDE DEF act, S
<1>15. \A s \in S : Targetable(s.target)
  BY DEF S, skips
<1>16. \A x \in 1..m : Describes(act[x], {s \in S : s.target.range = r[x]})
  BY <1>11
<1>17. \A x, y \in 1..m : r[x] = r[y] => x = y
  BY <1>12
<1>18. \A s \in S : \E x \in 1..m : r[x] = s.target.range
  BY <1>13
<1>19. IsQueue(StableSort(act, ActionBefore), S)
  <2>1. m \in Nat
    BY <1>8
  <2> QED BY <1>14, <1>15, <1>16, <1>17, <1>18, <2>1, ActionsSorted
<1> QED BY <1>1, <1>19 DEF S, skips

\* build_investigation_queue: every range some hunter of the run could not examine is
\* queued once, with each hunter, source, scope and cause that left it, the urgent ones
\* first; a rescan is offered only of a range some segment holds a byte of, and failed
\* reads of bytes the dump never held corroborate nothing.
THEOREM QueueIsWhole == Spec => []QueueKeepsEveryGap
<1>1. ASSUME IInv, Tallied PROVE QueueKeepsEveryGap
  <2> SUFFICES ASSUME pc = "done", Len(roster) > 1
               PROVE  LET q == document.queue
                          At(rg) == {n \in DOMAIN q : q[n].target.range = rg}
                      IN /\ \A i \in Published : \A l \in ToSet(Reports[i].limitations) : \A t \in ToSet(l.targets) :
                              /\ Cardinality(At(t.range)) = 1
                              /\ \A n \in At(t.range) : [hunter |-> records[i].hunter, source |-> l.source,
                                                         scope |-> l.scope, cause |-> Cause(l.code)]
                                                        \in q[n].skippedBy
                        /\ \A n \in DOMAIN q :
                              /\ q[n].rescan # {} => \E a \in Bytes(q[n].target.range) : Containing(dump.table, a) # 0
                              /\ "MULTIPLE_SCOPES_SKIPPED" \in q[n].reasons =>
                                    /\ Cardinality(q[n].skippedBy) > 1
                                    /\ \/ q[n].target.captured > 0
                                       \/ \E s \in q[n].skippedBy : s.cause # "read_failed"
                              /\ n > 1 => PriorityRank[q[n - 1].priority] <= PriorityRank[q[n].priority]
    BY DEF QueueKeepsEveryGap
  <2> DEFINE q == document.queue
             S == ToSet(Skips(records))
             At(rg) == {n \in DOMAIN q : q[n].target.range = rg}
             ls(i) == records[i].coverage.limitations
  <2>1. q = BuildInvestigationQueue(records, dump.regions)
    BY <1>1 DEF Tallied
  <2>2. List(records) /\ DOMAIN records = Published /\ \A i \in Published : Reports[i] = records[i].coverage
    <3>1. List(records)
      BY <1>1 DEF IInv, RecordsEarned
    <3> QED BY <3>1, ListParts DEF Published, Reports
  <2>3. \A i \in DOMAIN records : Sound(ls(i)) /\ Queueable(ls(i))
    BY <1>1, <2>2 DEF Tallied
  <2>4. List(Skips(records)) /\ S = UNION {SkipsOf(records[i].hunter, ToSet(ls(i))) : i \in DOMAIN records}
    BY <2>2, <2>3, SkipsAre
  <2> HIDE DEF q, S
  <2>5. \A s \in S : Targetable(s.target) /\ Held(s.target)
    <3> SUFFICES ASSUME NEW i \in DOMAIN records, NEW l \in ToSet(ls(i)), NEW t \in ToSet(l.targets)
                 PROVE  Targetable(t) /\ Held(t)
      <4>1. ASSUME NEW s \in S PROVE Targetable(s.target) /\ Held(s.target)
        <5>1. PICK i \in DOMAIN records : s \in SkipsOf(records[i].hunter, ToSet(ls(i)))
          BY <2>4
        <5>2. PICK l \in ToSet(ls(i)) : s \in {SkipOf(records[i].hunter, l, t) : t \in ToSet(l.targets)}
          BY <5>1 DEF SkipsOf, WithCause
        <5>3. PICK t \in ToSet(l.targets) : s = SkipOf(records[i].hunter, l, t)
          BY <5>2
        <5> QED BY <5>3 DEF SkipOf
      <4> QED BY <4>1
    <3>1. Held(t)
      BY <2>3 DEF Queueable
    <3>2. TargetSound(t)
      <4>1. LimitationSound(l) /\ t \in ToSet(l.targets)
        BY <2>3 DEF Sound
      <4> QED BY <4>1 DEF LimitationSound
    <3> QED BY <3>1, <3>2 DEF Targetable, Held
  <2>6. IsQueue(q, S)
    BY <2>1, <2>4, <2>5, QueueIs DEF S
  <2>7. ASSUME NEW i \in Published, NEW l \in ToSet(Reports[i].limitations), NEW t \in ToSet(l.targets)
        PROVE  /\ Cardinality(At(t.range)) = 1
               /\ \A n \in At(t.range) : [hunter |-> records[i].hunter, source |-> l.source,
                                          scope |-> l.scope, cause |-> Cause(l.code)] \in q[n].skippedBy
    <3> DEFINE s == SkipOf(records[i].hunter, l, t)
    <3>1. l \in ToSet(ls(i)) /\ i \in DOMAIN records
      BY <2>2, <2>7
    <3>2. l.targets # <<>>
      BY <2>7, ShortLists
    <3>3. s \in S
      <4>1. Cause(l.code) # ""
        BY <2>3, <3>1, <3>2 DEF Queueable
      <4>2. s \in SkipsOf(records[i].hunter, ToSet(ls(i)))
        <5>1. l \in WithCause(ToSet(ls(i)))
          BY <3>1, <4>1 DEF WithCause
        <5>2. s \in {SkipOf(records[i].hunter, l, u) : u \in ToSet(l.targets)}
          BY <2>7
        <5> HIDE DEF s
        <5> QED BY <5>1, <5>2 DEF SkipsOf
      <4> QED BY <2>4, <3>1, <4>2
    <3>4. s.target = t /\ s.by = [hunter |-> records[i].hunter, source |-> l.source,
                                  scope |-> l.scope, cause |-> Cause(l.code)]
      BY DEF SkipOf
    <3> HIDE DEF s
    <3>5. PICK c \in DOMAIN q : \A d \in DOMAIN q : q[d].target.range = t.range <=> d = c
      BY <2>6, <3>3, <3>4 DEF IsQueue
    <3>6. At(t.range) = {c}
      BY <3>5
    <3>7. Cardinality(At(t.range)) = 1
      BY <3>6, FS_Singleton
    <3>8. s.by \in q[c].skippedBy
      <4>1. Describes(q[c], {x \in S : x.target.range = q[c].target.range})
        BY <2>6 DEF IsQueue
      <4>2. q[c].target.range = t.range
        BY <3>5
      <4> QED BY <3>3, <3>4, <4>1, <4>2 DEF Describes
    <3> QED BY <3>4, <3>6, <3>7, <3>8
  <2>8. ASSUME NEW n \in DOMAIN q
        PROVE  /\ q[n].rescan # {} => \E a \in Bytes(q[n].target.range) : Containing(dump.table, a) # 0
               /\ "MULTIPLE_SCOPES_SKIPPED" \in q[n].reasons =>
                     /\ Cardinality(q[n].skippedBy) > 1
                     /\ \/ q[n].target.captured > 0
                        \/ \E s \in q[n].skippedBy : s.cause # "read_failed"
               /\ n > 1 => PriorityRank[q[n - 1].priority] <= PriorityRank[q[n].priority]
    <3> DEFINE G == {x \in S : x.target.range = q[n].target.range}
    <3>1. Describes(q[n], G) /\ (n > 1 => PriorityRank[q[n - 1].priority] <= PriorityRank[q[n].priority])
      BY <2>6 DEF IsQueue
    <3>2. PICK s \in G : q[n].target.range = s.target.range /\ q[n].target.captured = s.target.captured
      <4> HIDE DEF G
      <4> QED BY <3>1 DEF Describes
    <3>3. q[n].target.captured \in Nat
      BY <2>5, <3>2 DEF Targetable, TargetSound
    <3>4. q[n].target.captured > 0 => \E a \in Bytes(q[n].target.range) : Containing(dump.table, a) # 0
      BY <2>5, <3>2 DEF Held
    <3> HIDE DEF G
    <3>5. q[n].target.captured # 0 => q[n].target.captured > 0
      BY <3>3
    <3> QED BY <3>1, <3>4, <3>5 DEF Describes
  <2> QED BY <2>7, <2>8 DEF q
<1>2. IInv /\ Tallied => QueueKeepsEveryGap
  BY <1>1
<1> QED BY <1>2, Invariance, TallyInvariance, PTL
==============================================================================
