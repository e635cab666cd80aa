------------------------ MODULE TargetedRescanProofs -------------------------
(***************************************************************************)
(* For any segment tables, region lists, requests and analyzers: what a    *)
(* targeted rescan says it captured is what the dump holds, and what its   *)
(* closures leave unsaid has been searched, but for patterns they say were *)
(* not applied.  The first half is about the lookups of CapturedBytes:     *)
(* what the sort of a table and the walk through it compute, for every     *)
(* table.  The second half is the inductive invariant IInv, one lemma per  *)
(* step, and what it says of the closures.                                 *)
(***************************************************************************)
EXTENDS TargetedRescan, SizesProofs, SequenceTheorems

(* The sort of a table's entries. *)

Kept(s) == {i \in DOMAIN s : Representable(s[i])}
BeforeIn(s) == {p \in Kept(s) \X Kept(s) :
    ByBaseEnd(s[p[1]], s[p[2]]) \/ (~ByBaseEnd(s[p[2]], s[p[1]]) /\ p[1] < p[2])}
AnyBeforeIn(s) == {p \in (DOMAIN s) \X (DOMAIN s) :
    ByBase(s[p[1]], s[p[2]]) \/ (~ByBase(s[p[2]], s[p[1]]) /\ p[1] < p[2])}

\* The entries of a list, one by one.
LEMMA EntryTypes ==
    ASSUME NEW s, Entries(s)
    PROVE  /\ Len(s) \in Nat /\ DOMAIN s = 1..Len(s) /\ IsFiniteSet(DOMAIN s)
           /\ \A i \in DOMAIN s : s[i].base \in Nat /\ s[i].size \in Nat /\ End(s[i]) \in Nat
<1>1. PICK E : s \in Seq(E) /\ \A e \in E : e.base \in Nat /\ e.size \in Nat
  BY DEF Entries
<1>2. Len(s) \in Nat /\ DOMAIN s = 1..Len(s) /\ \A i \in DOMAIN s : s[i] \in E
  BY <1>1
<1>3. IsFiniteSet(1..Len(s))
  BY <1>2, FS_Interval
<1>4. \A i \in DOMAIN s : s[i].base \in Nat /\ s[i].size \in Nat
  BY <1>1, <1>2
<1> QED BY <1>2, <1>3, <1>4 DEF End

\* The kept entries of a table in order (Views), as a sorted list of indices.
LEMMA ViewsAre ==
    ASSUME NEW s
    PROVE  Views(s) = SortedList(s, Kept(s), BeforeIn(s))
<1> DEFINE B(i, j) == ByBaseEnd(s[i], s[j]) \/ (~ByBaseEnd(s[j], s[i]) /\ i < j)
           slot == [i \in Kept(s) |-> 1 + Cardinality({j \in Kept(s) : B(j, i)})]
<1>1. Views(s) = [n \in 1..Cardinality(Kept(s)) |-> s[CHOOSE i \in Kept(s) : slot[i] = n]]
  BY DEF Views, SortKept, Kept
<1>2. slot = Placing(Kept(s), BeforeIn(s))
  <2>1. ASSUME NEW i \in Kept(s)
        PROVE  {j \in Kept(s) : B(j, i)} = Below(Kept(s), BeforeIn(s), i)
    BY DEF BeforeIn, Below
  <2> QED BY <2>1 DEF Placing
<1> HIDE DEF slot
<1> QED BY <1>1, <1>2 DEF SortedList

\* A stable sort of a whole list, as a sorted list of indices.
LEMMA StableSortIs ==
    ASSUME NEW s
    PROVE  StableSort(s, ByBase) = SortedList(s, DOMAIN s, AnyBeforeIn(s))
<1> DEFINE B(i, j) == ByBase(s[i], s[j]) \/ (~ByBase(s[j], s[i]) /\ i < j)
           K == {i \in DOMAIN s : TRUE}
           slot == [i \in K |-> 1 + Cardinality({j \in K : B(j, i)})]
<1>1. StableSort(s, ByBase) = [n \in 1..Cardinality(K) |-> s[CHOOSE i \in K : slot[i] = n]]
  BY DEF StableSort, SortKept
<1>2. K = DOMAIN s
  OBVIOUS
<1> HIDE DEF K
<1>3. slot = Placing(DOMAIN s, AnyBeforeIn(s))
  <2>1. ASSUME NEW i \in DOMAIN s
        PROVE  {j \in K : B(j, i)} = Below(DOMAIN s, AnyBeforeIn(s), i)
    <3>1. \A j \in K : B(j, i) <=> <<j, i>> \in AnyBeforeIn(s)
      BY <1>2 DEF AnyBeforeIn
    <3> QED BY <1>2, <3>1 DEF Below
  <2> QED BY <1>2, <2>1 DEF Placing
<1> HIDE DEF slot
<1> QED BY <1>1, <1>2, <1>3 DEF SortedList

\* The views of a table are its representable entries by increasing base.
LEMMA ViewsSorted ==
    ASSUME NEW s, Entries(s)
    PROVE  SortedBy(Views(s), s, Kept(s))
<1> DEFINE b(i) == s[i].base
           e(i) == End(s[i])
           R == BeforeIn(s)
<1>1. \A i \in Kept(s) : b(i) \in Int /\ e(i) \in Int /\ i \in Int
  BY EntryTypes DEF Kept
<1>2. \A i, j \in Kept(s) : <<i, j>> \in R <=>
         \/ b(i) < b(j) \/ (b(i) = b(j) /\ e(i) < e(j))
         \/ ~(b(j) < b(i) \/ (b(j) = b(i) /\ e(j) < e(i))) /\ i < j
  BY DEF BeforeIn, ByBaseEnd
<1>3. R \subseteq Kept(s) \X Kept(s)
  BY DEF BeforeIn
<1> HIDE DEF b, e, R
<1>4. StrictOrder(Kept(s), R)
  <2>1. \A i \in Kept(s) : <<i, i>> \notin R
    BY <1>1, <1>2
  <2>2. ASSUME NEW i \in Kept(s), NEW j \in Kept(s) PROVE i = j \/ <<i, j>> \in R \/ <<j, i>> \in R
    <3>1. b(i) \in Int /\ b(j) \in Int /\ i \in Int /\ j \in Int
      BY <1>1
    <3> QED BY <1>1, <1>2, <3>1
  <2>3. \A i, j, k \in Kept(s) : <<i, j>> \in R /\ <<j, k>> \in R => <<i, k>> \in R
    BY <1>1, <1>2
  <2> QED BY <1>3, <2>1, <2>2, <2>3 DEF StrictOrder
<1>5. \A i, j \in Kept(s) : <<i, j>> \in R => s[i].base <= s[j].base
  BY <1>1, <1>2 DEF b
<1>6. Kept(s) \in SUBSET DOMAIN s
  BY DEF Kept
<1> QED BY <1>4, <1>5, <1>6, ViewsAre, PlacedIsSorted DEF R

\* A stable sort by base gives every entry once, in the order of the bases.
LEMMA StableSortSorted ==
    ASSUME NEW s, Entries(s)
    PROVE  SortedBy(StableSort(s, ByBase), s, DOMAIN s)
<1> DEFINE b(i) == s[i].base
           R == AnyBeforeIn(s)
           D == DOMAIN s
<1>1. \A i \in D : b(i) \in Int /\ i \in Int
  BY EntryTypes
<1>2. \A i, j \in D : <<i, j>> \in R <=> b(i) < b(j) \/ (~(b(j) < b(i)) /\ i < j)
  BY DEF AnyBeforeIn, ByBase
<1>3. R \subseteq D \X D
  BY DEF AnyBeforeIn
<1> HIDE DEF b, R, D
<1>4. StrictOrder(D, R)
  <2>1. \A i \in D : <<i, i>> \notin R
    BY <1>1, <1>2
  <2>2. ASSUME NEW i \in D, NEW j \in D PROVE i = j \/ <<i, j>> \in R \/ <<j, i>> \in R
    <3>1. b(i) \in Int /\ b(j) \in Int /\ i \in Int /\ j \in Int
      BY <1>1
    <3> QED BY <1>1, <1>2, <3>1
  <2>3. \A i, j, k \in D : <<i, j>> \in R /\ <<j, k>> \in R => <<i, k>> \in R
    BY <1>1, <1>2
  <2> QED BY <1>3, <2>1, <2>2, <2>3 DEF StrictOrder
<1>5. \A i, j \in D : <<i, j>> \in R => s[i].base <= s[j].base
  BY <1>1, <1>2 DEF b
<1>6. D \in SUBSET DOMAIN s
  BY DEF D
<1>7. StableSort(s, ByBase) = SortedList(s, D, R)
  BY StableSortIs, Zenon DEF R, D
<1>8. SortedBy(StableSort(s, ByBase), s, D)
  BY <1>4, <1>5, <1>6, <1>7, PlacedIsSorted, Zenon
<1> QED BY <1>8 DEF D

(* The walk through a list of segments. *)

Segments == [base: Nat, size: Nat, offset: Nat]
Runs == [cursor: Int, tiles: Seq([base: Int, size: Int, offset: Int]), open: BOOLEAN]

\* One segment of the walk, as Walk takes it.
Advance(run, seg, req_) ==
    IF ~run.open \/ End(seg) <= run.cursor THEN run
    ELSE IF seg.base > run.cursor THEN [run EXCEPT !.open = FALSE]
    ELSE LET stop == Min({End(seg), End(req_)})
         IN [cursor |-> stop, open |-> stop < End(req_),
             tiles |-> Append(run.tiles, ClipSegment(seg, run.cursor, stop))]

\* One segment of the walk leaves a cursor, a flag and a list of tiles.
LEMMA AdvanceType ==
    ASSUME NEW run \in Runs, NEW seg \in Segments, NEW q, q.base \in Nat, q.size \in Nat
    PROVE  Advance(run, seg, q) \in Runs
<1> DEFINE stop == Min({End(seg), End(q)})
<1>1. End(seg) \in Int /\ End(q) \in Int
  BY DEF Segments, End
<1>2. stop \in Int
  BY <1>1, MinOfTwo
<1>3. [run EXCEPT !.open = FALSE] \in Runs
  BY DEF Runs
<1>4. ClipSegment(seg, run.cursor, stop) \in [base: Int, size: Int, offset: Int]
  BY <1>2 DEF ClipSegment, Segments, Runs
<1>5. Append(run.tiles, ClipSegment(seg, run.cursor, stop))
        \in Seq([base: Int, size: Int, offset: Int])
  BY <1>4 DEF Runs
<1>6. (stop < End(q)) \in BOOLEAN
  OBVIOUS
<1> HIDE DEF stop
<1>7. [cursor |-> stop, open |-> stop < End(q),
       tiles |-> Append(run.tiles, ClipSegment(seg, run.cursor, stop))] \in Runs
  BY <1>2, <1>5, <1>6 DEF Runs
<1> QED BY <1>3, <1>7 DEF Advance, stop

Start(q) == [cursor |-> q.base, tiles |-> <<>>, open |-> TRUE]

\* r holds the walk after each segment.
IsWalk(r, views, q) ==
    /\ r \in [0..Len(views) -> Runs]
    /\ r[0] = Start(q)
    /\ \A n \in 1..Len(views) : r[n] = Advance(r[n - 1], views[n], q)
    /\ Walk(views, q) = r[Len(views)]

\* The walk is the function its definition describes.
LEMMA WalkDefined ==
    ASSUME NEW views \in Seq(Segments), NEW q, q.base \in Nat, q.size \in Nat
    PROVE  \E r : IsWalk(r, views, q)
<1> DEFINE N == Len(views)
           IsRun(f) == f = [n \in 0..N |-> IF n = 0 THEN Start(q)
                                           ELSE Advance(f[n - 1], views[n], q)]
           walk == CHOOSE f : IsRun(f)
<1>1. Walk(views, q) = walk[N]
  BY DEF Walk, Advance, Start
<1>2. N \in Nat /\ \A n \in 1..N : views[n] \in Segments
  OBVIOUS
<1> HIDE DEF N
<1>3. PICK r \in [Nat -> Runs] :
         /\ r[0] = Start(q)
         /\ \A n \in Nat : r[n + 1] = IF n + 1 \in 1..N THEN Advance(r[n], views[n + 1], q)
                                      ELSE r[n]
  <2> DEFINE h == [p \in Runs \X Nat |-> IF p[2] \in 1..N THEN Advance(p[1], views[p[2]], q)
                                         ELSE p[1]]
  <2>1. h \in [Runs \X Nat -> Runs]
    BY <1>2, AdvanceType
  <2>2. \A x \in Runs, n \in Nat : h[<<x, n>>] = IF n \in 1..N THEN Advance(x, views[n], q) ELSE x
    OBVIOUS
  <2>3. Start(q) \in Runs
    BY DEF Start, Runs
  <2> HIDE DEF h
  <2>4. PICK r : Recursion(r, Runs, Start(q), h)
    BY <2>1, <2>3, RecursionExists
  <2>5. /\ r \in [Nat -> Runs] /\ r[0] = Start(q)
        /\ \A n \in Nat : r[n + 1] = h[<<r[n], n + 1>>]
    BY <2>4 DEF Recursion
  <2>6. ASSUME NEW n \in Nat
        PROVE  r[n + 1] = IF n + 1 \in 1..N THEN Advance(r[n], views[n + 1], q) ELSE r[n]
    <3>1. r[n] \in Runs /\ n + 1 \in Nat
      BY <2>5
    <3> QED BY <2>2, <2>5, <3>1
  <2> QED BY <2>5, <2>6
<1> DEFINE f == [n \in 0..N |-> r[n]]
<1>4. ASSUME NEW n \in 1..N PROVE f[n] = Advance(f[n - 1], views[n], q)
  <2>1. n - 1 \in Nat /\ (n - 1) + 1 = n /\ n \in 0..N /\ n - 1 \in 0..N
    BY <1>2
  <2>2. r[n] = Advance(r[n - 1], views[n], q)
    BY <1>3, <2>1
  <2> QED BY <2>1, <2>2
<1>5. f[0] = Start(q) /\ f \in [0..N -> Runs]
  BY <1>2, <1>3
<1>6. IsRun(f)
  <2>1. ASSUME NEW n \in 0..N
        PROVE  f[n] = IF n = 0 THEN Start(q) ELSE Advance(f[n - 1], views[n], q)
    <3>1. CASE n = 0
      BY <1>5, <3>1
    <3>2. CASE n # 0
      <4>1. n \in 1..N
        BY <3>2
      <4> HIDE DEF f
      <4> QED BY <1>4, <3>2, <4>1
    <3> QED BY <3>1, <3>2
  <2> QED BY <2>1
<1>7. IsRun(walk)
  <2> HIDE DEF IsRun, f
  <2> QED BY <1>6
<1> HIDE DEF walk, f
<1>8. walk[0] = Start(q) /\ \A n \in 1..N : walk[n] = Advance(walk[n - 1], views[n], q)
  <2>1. walk[0] = Start(q)
    BY <1>2, <1>7
  <2>2. ASSUME NEW n \in 1..N PROVE walk[n] = Advance(walk[n - 1], views[n], q)
    <3>1. n \in 0..N /\ n # 0
      BY <1>2
    <3> QED BY <1>7, <3>1
  <2> QED BY <2>1, <2>2
<1>9. ASSUME NEW n \in 0..N PROVE walk[n] = f[n]
  <2> DEFINE S == {k \in Nat : k <= N => walk[k] = f[k]}
  <2>1. 0 \in S
    BY <1>5, <1>8
  <2>2. ASSUME NEW k \in Nat, k \in S PROVE k + 1 \in S
    <3> SUFFICES ASSUME k + 1 <= N PROVE walk[k + 1] = f[k + 1]
      OBVIOUS
    <3>1. k + 1 \in 1..N /\ (k + 1) - 1 = k /\ walk[k] = f[k]
      BY <1>2, <2>2
    <3> QED BY <1>4, <1>8, <3>1
  <2> HIDE DEF S
  <2>3. \A k \in Nat : k \in S
    BY <2>1, <2>2, SetInduction
  <2> QED BY <1>2, <2>3 DEF S
<1>10. Walk(views, q) = f[N]
  BY <1>1, <1>2, <1>9
<1> QED BY <1>4, <1>5, <1>10 DEF IsWalk, N

Ascending(views) == \A m, n \in 1..Len(views) : m < n => views[m].base <= views[n].base
Holds(views, n, a) == \E i \in 1..n : ContainsAddress(views[i], a)

\* The cursor has passed only bytes some segment holds, and it stands still only at
\* the end of the request or at a byte no segment holds.
CursorInv(views, q, n, run) ==
    /\ q.base <= run.cursor /\ run.cursor <= End(q)
    /\ run.open => run.cursor < End(q) /\ \A i \in 1..n : End(views[i]) <= run.cursor
    /\ ~run.open => run.cursor = End(q) \/ ~Holds(views, Len(views), run.cursor)
    /\ \A a \in q.base..(run.cursor - 1) : Holds(views, n, a)

\* One segment more keeps the cursor where the backed bytes from the base end.
LEMMA CursorStep ==
    ASSUME NEW views \in Seq(Segments), Ascending(views), NEW q, q.base \in Nat, q.size \in Nat,
           NEW n \in 1..Len(views), NEW run \in Runs, CursorInv(views, q, n - 1, run)
    PROVE  CursorInv(views, q, n, Advance(run, views[n], q))
<1> DEFINE seg == views[n]
           next == Advance(run, seg, q)
           stop == Min({End(seg), End(q)})
<1>1. /\ n \in Nat /\ n - 1 \in Nat /\ n \in 1..n /\ Len(views) \in Nat
      /\ \A i \in 1..Len(views) : views[i].base \in Nat /\ End(views[i]) \in Nat
      /\ End(q) \in Nat /\ run.cursor \in Int /\ run.open \in BOOLEAN
      /\ \A i \in 1..n : i \in 1..(n - 1) \/ i = n
      /\ End(seg) \in Int
  <2>1. \A i \in 1..Len(views) : views[i] \in Segments
    OBVIOUS
  <2>2. ASSUME NEW i \in 1..Len(views) PROVE views[i].base \in Nat /\ End(views[i]) \in Nat
    <3>1. views[i].base \in Nat /\ views[i].size \in Nat
      BY <2>1 DEF Segments
    <3> QED BY <3>1 DEF End
  <2>3. /\ n \in Nat /\ n - 1 \in Nat /\ n \in 1..n /\ Len(views) \in Nat
        /\ \A i \in 1..n : i \in 1..(n - 1) \/ i = n
    OBVIOUS
  <2>4. End(q) \in Nat /\ run.cursor \in Int /\ run.open \in BOOLEAN
    BY DEF End, Runs
  <2> QED BY <2>2, <2>3, <2>4
<1>2. \A a : Holds(views, n - 1, a) => Holds(views, n, a)
  <2>1. \A i \in 1..(n - 1) : i \in 1..n
    BY <1>1
  <2> QED BY <2>1 DEF Holds
<1>3. CASE ~run.open
  <2>1. next = run
    BY <1>3 DEF Advance
  <2> QED BY <1>2, <1>3, <2>1 DEF CursorInv
<1>4. CASE run.open /\ End(seg) <= run.cursor
  <2>1. next = run
    BY <1>4 DEF Advance
  <2>2. \A i \in 1..n : End(views[i]) <= run.cursor
    BY <1>1, <1>4 DEF CursorInv
  <2> QED BY <1>2, <1>4, <2>1, <2>2 DEF CursorInv
<1>5. CASE run.open /\ End(seg) > run.cursor /\ seg.base > run.cursor
  <2>1. next = [run EXCEPT !.open = FALSE]
    BY <1>1, <1>5 DEF Advance
  <2>2. next.cursor = run.cursor /\ next.open = FALSE
    BY <2>1 DEF Runs
  <2>3. ASSUME NEW i \in 1..Len(views) PROVE ~ContainsAddress(views[i], run.cursor)
    <3>1. CASE i \in 1..(n - 1)
      BY <1>1, <1>5, <3>1 DEF CursorInv, ContainsAddress
    <3>2. CASE i \notin 1..(n - 1)
      <4>1. seg.base <= views[i].base
        BY <1>1, <3>2 DEF Ascending
      <4>2. seg.base \in Nat /\ views[i].base \in Nat
        BY <1>1
      <4>3. run.cursor < seg.base
        BY <1>1, <1>5, <4>2
      <4>4. ~(views[i].base <= run.cursor)
        <5> HIDE DEF seg
        <5> QED BY SMTT(30), <1>1, <4>1, <4>2, <4>3
      <4> QED BY <4>4 DEF ContainsAddress
    <3> QED BY <3>1, <3>2
  <2> QED BY <1>2, <2>2, <2>3 DEF CursorInv, Holds
<1>6. CASE run.open /\ End(seg) > run.cursor /\ ~(seg.base > run.cursor)
  <2>1. next.cursor = stop /\ next.open = (stop < End(q))
    BY <1>1, <1>6 DEF Advance
  <2>2. stop = IF End(seg) <= End(q) THEN End(seg) ELSE End(q)
    <3>1. End(seg) \in Int /\ End(q) \in Int
      BY <1>1
    <3> QED BY <3>1, MinOfTwo
  <2>3. q.base <= run.cursor /\ run.cursor < End(q)
    BY <1>6 DEF CursorInv
  <2>4. run.cursor < stop /\ stop <= End(q) /\ stop \in Int /\ stop <= End(seg)
    BY <1>1, <1>6, <2>2, <2>3
  <2>5. ASSUME stop < End(q), NEW i \in 1..n PROVE End(views[i]) <= stop
    <3>1. CASE i = n
      BY <1>1, <2>2, <2>5, <3>1
    <3>2. CASE i \in 1..(n - 1)
      <4>1. End(views[i]) <= run.cursor
        BY <1>6, <3>2 DEF CursorInv
      <4>2. End(views[i]) \in Int
        BY <1>1, <3>2
      <4> HIDE DEF stop
      <4> QED BY <1>1, <2>4, <4>1, <4>2
    <3> QED BY <1>1, <3>1, <3>2
  <2>6. ASSUME NEW a \in q.base..(stop - 1) PROVE Holds(views, n, a)
    <3>1. CASE a < run.cursor
      <4>1. a \in q.base..(run.cursor - 1)
        BY <1>1, <2>4, <3>1
      <4> QED BY <1>2, <4>1 DEF CursorInv
    <3>2. CASE ~(a < run.cursor)
      <4>1. seg.base <= a /\ a < End(seg)
        <5> HIDE DEF stop
        <5> QED BY <1>1, <1>6, <2>4, <3>2
      <4> QED BY <1>1, <4>1 DEF Holds, ContainsAddress
    <3> QED BY <3>1, <3>2
  <2>7. ~(stop < End(q)) => stop = End(q)
    BY <1>1, <2>2
  <2>8. q.base <= stop /\ stop <= End(q)
    BY <1>1, <2>3, <2>4
  <2> HIDE DEF next, stop
  <2>9. next.open => stop < End(q)
    BY <2>1
  <2>10. ~next.open => stop = End(q)
    BY <2>1, <2>7
  <2>11. next.cursor = stop
    BY <2>1
  <2>12. CursorInv(views, q, n, next)
    BY <2>5, <2>6, <2>8, <2>9, <2>10, <2>11 DEF CursorInv
  <2> QED BY <2>12 DEF next
<1>7. End(seg) <= run.cursor \/ End(seg) > run.cursor
  BY <1>1
<1> QED BY <1>3, <1>4, <1>5, <1>6, <1>7


\* tile is a part of seg, where the dump keeps it.
PartOf(tile, seg) ==
    /\ tile.base \in Int /\ tile.size \in Int /\ tile.size > 0 /\ tile.offset \in Int
    /\ seg.base <= tile.base /\ End(tile) <= End(seg)
    /\ tile.offset = FileOffsetAt(seg, tile.base)

\* The tiles cover what the cursor has passed, each a part of some segment, and the
\* first one starts the request.
TileInv(views, q, n, run) ==
    /\ \A k \in DOMAIN run.tiles : \E i \in 1..n : PartOf(run.tiles[k], views[i])
    /\ \A a \in q.base..(run.cursor - 1) :
          \E k \in DOMAIN run.tiles : ContainsAddress(run.tiles[k], a)
    /\ run.tiles # <<>> => run.tiles[1].base = q.base
    /\ run.tiles = <<>> <=> run.cursor = q.base

\* A list with an element appended.
LEMMA AppendedList ==
    ASSUME NEW S, NEW s \in Seq(S), NEW x \in S
    PROVE  /\ Len(s) \in Nat /\ DOMAIN s = 1..Len(s) /\ DOMAIN Append(s, x) = 1..(Len(s) + 1)
           /\ Append(s, x)[Len(s) + 1] = x
           /\ \A k \in 1..Len(s) : Append(s, x)[k] = s[k]
           /\ Append(s, x) # <<>> /\ (Len(s) = 0 <=> s = <<>>)
<1>1. Append(s, x) \in Seq(S) /\ Len(Append(s, x)) = Len(s) + 1
  BY AppendProperties
<1>2. DOMAIN Append(s, x) = 1..(Len(s) + 1)
  BY <1>1, LenProperties
<1>3. /\ Append(s, x)[Len(s) + 1] = x /\ \A k \in 1..Len(s) : Append(s, x)[k] = s[k]
      /\ Append(s, x) # <<>>
  BY AppendProperties
<1>4. Len(s) \in Nat /\ DOMAIN s = 1..Len(s) /\ (Len(s) = 0 <=> s = <<>>)
  BY LenProperties, EmptySeq
<1> QED BY <1>2, <1>3, <1>4

\* One segment more keeps the tiles parts of segments that cover all before the cursor.
LEMMA TileStep ==
    ASSUME NEW views \in Seq(Segments), NEW q, q.base \in Nat, q.size \in Nat,
           NEW n \in 1..Len(views), NEW run \in Runs,
           CursorInv(views, q, n - 1, run), TileInv(views, q, n - 1, run)
    PROVE  TileInv(views, q, n, Advance(run, views[n], q))
<1> DEFINE seg == views[n]
           next == Advance(run, seg, q)
           stop == Min({End(seg), End(q)})
           tile == ClipSegment(seg, run.cursor, stop)
<1>1. /\ n \in Nat /\ n \in 1..n /\ seg \in Segments
      /\ \A i \in 1..(n - 1) : i \in 1..n
  OBVIOUS
<1>2. /\ seg.base \in Nat /\ seg.offset \in Nat /\ End(seg) \in Int /\ End(q) \in Int
      /\ run.cursor \in Int /\ run.tiles \in Seq([base: Int, size: Int, offset: Int])
  <2>1. seg.base \in Nat /\ seg.size \in Nat /\ seg.offset \in Nat
    BY <1>1 DEF Segments
  <2>2. run.cursor \in Int /\ run.tiles \in Seq([base: Int, size: Int, offset: Int])
    BY DEF Runs
  <2> HIDE DEF seg
  <2> QED BY <2>1, <2>2 DEF End
<1>3. ASSUME next.cursor = run.cursor, next.tiles = run.tiles PROVE TileInv(views, q, n, next)
  <2> HIDE DEF next
  <2> QED BY <1>1, <1>3 DEF TileInv
<1>4. CASE ~run.open \/ End(seg) <= run.cursor
  <2>1. next = run
    BY <1>4 DEF Advance
  <2> QED BY <1>3, <2>1
<1>5. CASE run.open /\ ~(End(seg) <= run.cursor) /\ seg.base > run.cursor
  <2>1. next = [run EXCEPT !.open = FALSE]
    BY <1>5 DEF Advance
  <2>2. next.cursor = run.cursor /\ next.tiles = run.tiles
    BY <2>1 DEF Runs
  <2> QED BY <1>3, <2>2
<1>6. CASE run.open /\ ~(End(seg) <= run.cursor) /\ ~(seg.base > run.cursor)
  <2>1. next.cursor = stop /\ next.tiles = Append(run.tiles, tile)
    BY <1>6 DEF Advance
  <2>2. stop = IF End(seg) <= End(q) THEN End(seg) ELSE End(q)
    BY <1>2, MinOfTwo
  <2>3. q.base <= run.cursor /\ run.cursor < End(q)
    BY <1>6 DEF CursorInv
  <2>4. run.cursor < stop /\ stop \in Int /\ stop <= End(seg) /\ seg.base <= run.cursor
    BY <1>2, <1>6, <2>2, <2>3
  <2> HIDE DEF stop
  <2>5. /\ tile.base = run.cursor /\ tile.size = stop - run.cursor /\ End(tile) = stop
        /\ tile.offset = FileOffsetAt(seg, run.cursor)
    BY <1>2, <2>4 DEF ClipSegment, End, FileOffsetAt
  <2>6. PartOf(tile, seg) /\ tile \in [base: Int, size: Int, offset: Int]
    <3>1. FileOffsetAt(seg, run.cursor) \in Int
      BY <1>2 DEF FileOffsetAt
    <3>2. tile \in [base: Int, size: Int, offset: Int]
      <4>1. stop - run.cursor \in Int /\ seg.offset + (run.cursor - seg.base) \in Int
        BY SMTT(30), <1>2, <2>4
      <4> QED BY <1>2, <4>1 DEF ClipSegment
    <3> HIDE DEF tile
    <3> QED BY <1>2, <2>4, <2>5, <3>1, <3>2 DEF PartOf
  <2> DEFINE ts == run.tiles
             L  == Len(ts)
  <2>7. /\ L \in Nat /\ DOMAIN ts = 1..L /\ DOMAIN Append(ts, tile) = 1..(L + 1)
        /\ Append(ts, tile)[L + 1] = tile /\ \A k \in 1..L : Append(ts, tile)[k] = ts[k]
        /\ Append(ts, tile) # <<>> /\ (L = 0 <=> ts = <<>>)
    <3> DEFINE T == [base: Int, size: Int, offset: Int]
    <3>1. ts \in Seq(T) /\ tile \in T
      BY <1>2, <2>6
    <3> HIDE DEF tile, ts, T
    <3>2. L \in Nat /\ DOMAIN ts = 1..L /\ (L = 0 <=> ts = <<>>)
      BY <3>1, AppendedList
    <3>3. DOMAIN Append(ts, tile) = 1..(L + 1) /\ Append(ts, tile) # <<>>
      BY <3>1, AppendedList
    <3>4. Append(ts, tile)[L + 1] = tile
      BY <3>1, AppendedList
    <3>5. \A k \in 1..L : Append(ts, tile)[k] = ts[k]
      BY <3>1, AppendedList
    <3> QED BY <3>2, <3>3, <3>4, <3>5
  <2> DEFINE longer == Append(ts, tile)
  <2> HIDE DEF tile, ts, L, longer
  <2>8. ASSUME NEW k \in 1..(L + 1) PROVE \E i \in 1..n : PartOf(longer[k], seg) \/ PartOf(longer[k], views[i])
    <3>1. CASE k = L + 1
      BY <1>1, <2>6, <2>7, <3>1 DEF longer
    <3>2. CASE k # L + 1
      <4>1. k \in 1..L
        BY <2>7, <3>2
      <4>2. \E i \in 1..(n - 1) : PartOf(ts[k], views[i])
        BY <2>7, <4>1 DEF TileInv, ts
      <4> QED BY <1>1, <2>7, <4>1, <4>2 DEF longer
    <3> QED BY <3>1, <3>2
  <2>9. ASSUME NEW a \in q.base..(stop - 1)
        PROVE  \E k \in 1..(L + 1) : ContainsAddress(longer[k], a)
    <3>1. CASE a < run.cursor
      <4>1. a \in q.base..(run.cursor - 1)
        BY <1>2, <2>4, <3>1
      <4>2. PICK k \in DOMAIN ts : ContainsAddress(ts[k], a)
        BY <4>1 DEF TileInv, ts
      <4> QED BY <2>7, <4>2 DEF longer
    <3>2. CASE ~(a < run.cursor)
      <4>1. ContainsAddress(tile, a)
        BY <1>2, <2>4, <2>5, <3>2 DEF ContainsAddress
      <4> QED BY <2>7, <4>1 DEF longer
    <3> QED BY <3>1, <3>2
  <2>10. longer[1].base = q.base
    <3>1. CASE L = 0
      <4>1. run.cursor = q.base
        BY <2>7, <3>1 DEF TileInv, ts
      <4> QED BY <2>5, <2>7, <3>1, <4>1 DEF longer
    <3>2. CASE L # 0
      <4>1. ts # <<>> /\ 1 \in 1..L
        BY <2>7, <3>2
      <4> QED BY <2>7, <4>1 DEF longer, TileInv, ts
    <3> QED BY <3>1, <3>2
  <2>11. longer # <<>> /\ stop # q.base
    BY SMTT(30), <1>2, <2>3, <2>4, <2>7 DEF longer
  <2>12. next.tiles = longer /\ next.cursor = stop /\ DOMAIN longer = 1..(L + 1)
    BY <2>1, <2>7 DEF longer, ts
  <2>13. \A k \in 1..(L + 1) : \E i \in 1..n : PartOf(longer[k], views[i])
    BY <1>1, <2>8
  <2> HIDE DEF next
  <2>14. TileInv(views, q, n, next)
    BY <2>9, <2>10, <2>11, <2>12, <2>13 DEF TileInv
  <2> QED BY <2>14 DEF next
<1>7. TileInv(views, q, n, next)
  BY <1>4, <1>5, <1>6
<1> QED BY <1>7

\* What the walk through ascending segments has done when it ends.
LEMMA WalkInv ==
    ASSUME NEW views \in Seq(Segments), Ascending(views), NEW q, q.base \in Nat, q.size \in Nat,
           q.size > 0
    PROVE  /\ Walk(views, q) \in Runs
           /\ CursorInv(views, q, Len(views), Walk(views, q))
           /\ TileInv(views, q, Len(views), Walk(views, q))
<1> DEFINE N == Len(views)
<1>0. N \in Nat /\ \A n \in 1..N : views[n] \in Segments
  OBVIOUS
<1>1. PICK r : IsWalk(r, views, q)
  BY WalkDefined
<1>2. /\ r \in [0..N -> Runs] /\ r[0] = Start(q)
      /\ \A n \in 1..N : r[n] = Advance(r[n - 1], views[n], q)
      /\ Walk(views, q) = r[N]
  BY <1>1 DEF IsWalk
<1> DEFINE Inv(n) == CursorInv(views, q, n, r[n]) /\ TileInv(views, q, n, r[n])
           S == {n \in Nat : n <= N => Inv(n)}
<1>3. 0 \in S
  <2>1. r[0].cursor = q.base /\ r[0].open = TRUE /\ r[0].tiles = <<>>
    BY <1>2 DEF Start
  <2>2. CursorInv(views, q, 0, r[0])
    BY <2>1 DEF CursorInv, End
  <2>3. TileInv(views, q, 0, r[0])
    BY <2>1 DEF TileInv
  <2> QED BY <2>2, <2>3
<1>4. ASSUME NEW n \in Nat, n \in S PROVE n + 1 \in S
  <2> SUFFICES ASSUME n + 1 <= N PROVE Inv(n + 1)
    OBVIOUS
  <2>1. /\ n + 1 \in 1..N /\ (n + 1) - 1 = n /\ n \in 0..N /\ r[n] \in Runs /\ Inv(n)
    BY <1>0, <1>2, <1>4
  <2>2. r[n + 1] = Advance(r[n], views[n + 1], q)
    BY <1>2, <2>1
  <2>3. CursorInv(views, q, n + 1, r[n + 1])
    BY <2>1, <2>2, CursorStep
  <2>4. TileInv(views, q, n + 1, r[n + 1])
    BY <2>1, <2>2, TileStep
  <2> QED BY <2>3, <2>4
<1> HIDE DEF S, Inv
<1>5. \A n \in Nat : n \in S
  BY <1>3, <1>4, SetInduction
<1>6. Inv(N)
  BY <1>0, <1>5 DEF S
<1>7. r[N] \in Runs
  BY <1>0, <1>2
<1> QED BY <1>2, <1>6, <1>7 DEF Inv

\* The walk ends where the run of held bytes ends.
LEMMA WalkEnds ==
    ASSUME NEW views \in Seq(Segments), Ascending(views), NEW q, q.base \in Nat, q.size \in Nat,
           q.size > 0
    PROVE  LET c == Walk(views, q).cursor
           IN  /\ c \in Int /\ q.base <= c /\ c <= End(q)
               /\ \A a \in q.base..(c - 1) : Holds(views, Len(views), a)
               /\ c < End(q) => ~Holds(views, Len(views), c)
<1> DEFINE run == Walk(views, q)
           N   == Len(views)
<1>1. run \in Runs /\ CursorInv(views, q, N, run)
  BY WalkInv
<1> HIDE DEF run
<1>2. run.cursor \in Int /\ run.open \in BOOLEAN
  BY <1>1 DEF Runs
<1>3. run.open => ~Holds(views, N, run.cursor)
  <2>1. \A i \in 1..N : views[i] \in Segments
    OBVIOUS
  <2>2. \A i \in 1..N : End(views[i]) \in Int
    BY <2>1 DEF Segments, End
  <2> QED BY <1>1, <1>2, <2>2 DEF CursorInv, Holds, ContainsAddress
<1> QED BY <1>1, <1>2, <1>3 DEF CursorInv, run

(* What a slice captures, and what the whole-dump lookups say. *)

\* The entries of s with an index in K that hold byte a.
HeldBy(s, K, a) == {i \in K : ContainsAddress(s[i], a)}

\* A sorted list holds what its entries hold.
LEMMA SortedHolds ==
    ASSUME NEW v, NEW s, NEW K, SortedBy(v, s, K), NEW a
    PROVE  Holds(v, Len(v), a) <=> HeldBy(s, K, a) # {}
<1>1. PICK p \in [1..Len(v) -> K] :
          /\ \A n \in 1..Len(v) : v[n] = s[p[n]]
          /\ \A i \in K : \E n \in 1..Len(v) : p[n] = i
  BY DEF SortedBy
<1>2. ASSUME Holds(v, Len(v), a) PROVE HeldBy(s, K, a) # {}
  <2>1. PICK n \in 1..Len(v) : ContainsAddress(v[n], a)
    BY <1>2 DEF Holds
  <2>2. p[n] \in K /\ ContainsAddress(s[p[n]], a)
    BY <1>1, <2>1
  <2> QED BY <2>2 DEF HeldBy
<1>3. ASSUME HeldBy(s, K, a) # {} PROVE Holds(v, Len(v), a)
  <2>1. PICK i \in K : ContainsAddress(s[i], a)
    BY <1>3 DEF HeldBy
  <2>2. PICK n \in 1..Len(v) : p[n] = i
    BY <1>1
  <2>3. ContainsAddress(v[n], a)
    BY <1>1, <2>1, <2>2
  <2> QED BY <2>3 DEF Holds
<1> QED BY <1>2, <1>3

\* A sorted list of segments can be walked.
LEMMA SortedWalk ==
    ASSUME NEW v, NEW s \in Seq(Segments), NEW K, SortedBy(v, s, K)
    PROVE  v \in Seq(Segments) /\ Ascending(v)
<1>1. v \in Seq(Segments)
  BY DEF SortedBy
<1>2. Ascending(v)
  BY DEF SortedBy, Ascending
<1> QED BY <1>1, <1>2

\* A segment has a base and a size.
LEMMA SegmentsAreEntries == ASSUME NEW s \in Seq(Segments) PROVE Entries(s)
<1>1. \A e \in Segments : e.base \in Nat /\ e.size \in Nat
  BY DEF Segments
<1> QED BY <1>1 DEF Entries

\* q is a range to look at: it has a base and an extent.
IsRange(q) == q.base \in Nat /\ q.base > 0 /\ q.size \in Nat /\ q.size > 0

\* The captured prefix is the run of held bytes, and its tiles are parts of the
\* table's segments that cover it.
LEMMA SliceIsExact ==
    ASSUME NEW table_ \in Seq(Segments), NEW q, IsRange(q)
    PROVE  LET slice == SliceCaptured(q, Views(table_))
               n == slice.captured.size
           IN  /\ slice.requested = q /\ slice.captured = VirtualRange(q.base, n)
               /\ n \in 0..q.size
               /\ \A a \in q.base..(q.base + n - 1) : HeldBy(table_, Kept(table_), a) # {}
               /\ n < q.size => HeldBy(table_, Kept(table_), q.base + n) = {}
               /\ slice.overlapping = SegmentsOverlap(Views(table_), slice.captured)
               /\ DOMAIN slice.segments = 1..Len(slice.segments)
               /\ Len(slice.segments) \in Nat
               /\ \A k \in DOMAIN slice.segments :
                     \E i \in Kept(table_) : PartOf(slice.segments[k], table_[i])
               /\ \A a \in q.base..(q.base + n - 1) :
                     \E k \in DOMAIN slice.segments : ContainsAddress(slice.segments[k], a)
               /\ n = 0 => slice.offset = Unknown
               /\ n > 0 => /\ 1 \in DOMAIN slice.segments
                           /\ slice.segments[1].base = q.base
                           /\ slice.offset = slice.segments[1].offset
<1> DEFINE v == Views(table_)
           run == Walk(v, q)
           slice == SliceCaptured(q, v)
           n == run.cursor - q.base
           K == Kept(table_)
<1>1. SortedBy(v, table_, K)
  BY SegmentsAreEntries, ViewsSorted
<1>2. v \in Seq(Segments) /\ Ascending(v)
  BY <1>1, SortedWalk
<1>3. q.base \in Nat /\ q.size \in Nat /\ q.size > 0 /\ End(q) = q.base + q.size
  BY DEF IsRange, End
<1> HIDE DEF v
<1>4. run \in Runs /\ TileInv(v, q, Len(v), run)
  BY <1>2, <1>3, WalkInv
<1>5. /\ run.cursor \in Int /\ q.base <= run.cursor /\ run.cursor <= End(q)
      /\ \A a \in q.base..(run.cursor - 1) : Holds(v, Len(v), a)
      /\ run.cursor < End(q) => ~Holds(v, Len(v), run.cursor)
  BY <1>2, <1>3, WalkEnds
<1>6. run.tiles \in Seq([base: Int, size: Int, offset: Int])
  BY <1>4 DEF Runs
<1> HIDE DEF run, K
<1>7. /\ slice.requested = q /\ slice.captured = VirtualRange(q.base, n)
      /\ slice.captured.size = n /\ slice.overlapping = SegmentsOverlap(v, slice.captured)
      /\ slice.segments = run.tiles
      /\ slice.offset = IF run.tiles = <<>> THEN Unknown ELSE run.tiles[1].offset
  BY DEF SliceCaptured, VirtualRange, run
<1> HIDE DEF slice
<1>8. n \in 0..q.size /\ q.base + n = run.cursor /\ q.base + n - 1 = run.cursor - 1
  BY <1>3, <1>5
<1>9. \A a \in q.base..(q.base + n - 1) : HeldBy(table_, K, a) # {}
  <2>1. ASSUME NEW a \in q.base..(run.cursor - 1) PROVE HeldBy(table_, K, a) # {}
    <3>1. Holds(v, Len(v), a)
      BY <1>5
    <3> QED BY <1>1, <3>1, SortedHolds
  <2> HIDE DEF n
  <2> QED BY <1>8, <2>1
<1>10. n < q.size => HeldBy(table_, K, q.base + n) = {}
  BY <1>1, <1>3, <1>5, <1>8, SortedHolds
<1>11. /\ Len(run.tiles) \in Nat /\ DOMAIN run.tiles = 1..Len(run.tiles)
       /\ run.tiles # <<>> => 1 \in DOMAIN run.tiles
  BY <1>6, LenProperties, EmptySeq
<1>12. ASSUME NEW k \in DOMAIN run.tiles PROVE \E i \in K : PartOf(run.tiles[k], table_[i])
  <2>1. PICK m \in 1..Len(v) : PartOf(run.tiles[k], v[m])
    BY <1>4 DEF TileInv
  <2>2. PICK p \in [1..Len(v) -> K] : \A j \in 1..Len(v) : v[j] = table_[p[j]]
    BY <1>1 DEF SortedBy
  <2> QED BY <2>1, <2>2
<1>13. \A a \in q.base..(q.base + n - 1) : \E k \in DOMAIN run.tiles : ContainsAddress(run.tiles[k], a)
  <2>1. \A a \in q.base..(run.cursor - 1) : \E k \in DOMAIN run.tiles : ContainsAddress(run.tiles[k], a)
    BY <1>4 DEF TileInv
  <2> HIDE DEF n
  <2> QED BY <1>8, <2>1
<1>14. run.tiles = <<>> <=> n = 0
  BY <1>3, <1>4, <1>5 DEF TileInv
<1>15. run.tiles # <<>> => run.tiles[1].base = q.base
  BY <1>4 DEF TileInv
<1>16. \A a \in q.base..(q.base + slice.captured.size - 1) : HeldBy(table_, K, a) # {}
  BY <1>7, <1>9
<1>17. slice.captured.size < q.size => HeldBy(table_, K, q.base + slice.captured.size) = {}
  BY <1>7, <1>10
<1>18. \A a \in q.base..(q.base + slice.captured.size - 1) :
         \E k \in DOMAIN slice.segments : ContainsAddress(slice.segments[k], a)
  BY <1>7, <1>13
<1>19. \A k \in DOMAIN slice.segments : \E i \in K : PartOf(slice.segments[k], table_[i])
  BY <1>7, <1>12
<1>20. /\ slice.requested = q /\ slice.captured = VirtualRange(q.base, slice.captured.size)
       /\ slice.captured.size \in 0..q.size
       /\ slice.overlapping = SegmentsOverlap(v, slice.captured)
       /\ DOMAIN slice.segments = 1..Len(slice.segments) /\ Len(slice.segments) \in Nat
  BY <1>7, <1>8, <1>11
<1>21. /\ slice.captured.size = 0 => slice.offset = Unknown
       /\ slice.captured.size > 0 => /\ 1 \in DOMAIN slice.segments
                                     /\ slice.segments[1].base = q.base
                                     /\ slice.offset = slice.segments[1].offset
  BY <1>7, <1>8, <1>11, <1>14, <1>15
<1> QED BY <1>16, <1>17, <1>18, <1>19, <1>20, <1>21 DEF v, K, slice

Ends(v, i) == {End(v[j]) : j \in 1..i}

\* The running maximum of the ends is at most a when each of those ends is.
LEMMA MaxOfEnds ==
    ASSUME NEW v \in Seq(Segments), NEW i \in 1..Len(v), NEW a \in Nat
    PROVE  Max(Ends(v, i)) <= a <=> \A j \in 1..i : End(v[j]) <= a
<1>1. Len(v) \in Nat /\ \A j \in 1..Len(v) : v[j] \in Segments
  OBVIOUS
<1>2. \A j \in 1..Len(v) : End(v[j]) \in Int
  BY SMTT(30), <1>1 DEF Segments, End
<1> DEFINE Top(n) == \E k \in 1..n : \A j \in 1..n : End(v[j]) <= End(v[k])
           S == {n \in Nat : 1 <= n /\ n <= Len(v) => Top(n)}
<1>3. 0 \in S
  OBVIOUS
<1>4. ASSUME NEW n \in Nat, n \in S PROVE n + 1 \in S
  <2> SUFFICES ASSUME n + 1 <= Len(v) PROVE Top(n + 1)
    OBVIOUS
  <2>1. n + 1 \in 1..Len(v) /\ \A j \in 1..(n + 1) : j \in 1..n \/ j = n + 1
    BY <1>1
  <2>2. CASE n = 0
    <3>1. 1 \in 1..1 /\ \A j \in 1..1 : End(v[j]) <= End(v[1])
      BY <1>1, <1>2, <2>1, <2>2
    <3> QED BY <2>2, <3>1
  <2>3. CASE n # 0
    <3>1. PICK k \in 1..n : \A j \in 1..n : End(v[j]) <= End(v[k])
      BY <1>1, <1>4, <2>3
    <3>2. /\ k \in 1..(n + 1) /\ n + 1 \in 1..(n + 1)
          /\ End(v[k]) \in Int /\ End(v[n + 1]) \in Int
          /\ \A j \in 1..n : End(v[j]) \in Int
      BY <1>1, <1>2, <2>1
    <3>3. CASE End(v[k]) <= End(v[n + 1])
      <4>1. \A j \in 1..(n + 1) : End(v[j]) <= End(v[n + 1])
        BY <2>1, <3>1, <3>2, <3>3
      <4> QED BY <3>2, <4>1
    <3>4. CASE End(v[n + 1]) <= End(v[k])
      <4>1. \A j \in 1..(n + 1) : End(v[j]) <= End(v[k])
        BY <2>1, <3>1, <3>4
      <4> QED BY <3>2, <4>1
    <3> QED BY <3>2, <3>3, <3>4
  <2> QED BY <2>2, <2>3
<1> HIDE DEF S
<1>5. \A n \in Nat : n \in S
  BY <1>3, <1>4, SetInduction
<1>6. PICK k \in 1..i : \A j \in 1..i : End(v[j]) <= End(v[k])
  BY <1>1, <1>5 DEF S
<1> DEFINE m == Max(Ends(v, i))
<1>7. m \in Ends(v, i) /\ \A e \in Ends(v, i) : m >= e
  <2>1. \E x \in Ends(v, i) : \A y \in Ends(v, i) : x >= y
    <3>1. End(v[k]) \in Ends(v, i)
      BY <1>6 DEF Ends
    <3>2. ASSUME NEW y \in Ends(v, i) PROVE End(v[k]) >= y
      <4>1. PICK j \in 1..i : y = End(v[j])
        BY DEF Ends
      <4> QED BY <1>1, <1>2, <1>6, <4>1
    <3> QED BY <3>1, <3>2
  <2> QED BY <2>1 DEF Max
<1>8. PICK t \in 1..i : m = End(v[t])
  BY <1>7 DEF Ends
<1>9. \A j \in 1..i : End(v[j]) <= m /\ End(v[j]) \in Int
  <2>1. \A j \in 1..i : End(v[j]) \in Ends(v, i) /\ End(v[j]) \in Int
    BY <1>1, <1>2 DEF Ends
  <2>2. m \in Int
    BY <1>8, <2>1
  <2> HIDE DEF m
  <2> QED BY <1>7, <2>1, <2>2
<1>10. m \in Int
  BY <1>8, <1>9
<1> HIDE DEF m
<1> QED BY <1>8, <1>9, <1>10 DEF m

\* A set of indices that holds, with each one, all those below it is an interval.
LEMMA PrefixCounted ==
    ASSUME NEW N \in Nat, NEW P, P \subseteq 1..N, \A i \in P : \A j \in 1..i : j \in P
    PROVE  \E b \in 0..N : P = 1..b /\ Cardinality(P) = b
<1>1. CASE P = 1..N
  <2>1. Cardinality(1..N) = N
    BY FS_Interval
  <2> QED BY <1>1, <2>1
<1>2. CASE P # 1..N
  <2>1. PICK x \in (1..N) \ P : \A y \in (1..N) \ P : x <= y
    <3>1. (1..N) \ P \subseteq Nat
      OBVIOUS
    <3>2. (1..N) \ P # {}
      BY <1>2, Zenon
    <3> QED BY <3>1, <3>2, LeastNatural
  <2>2. P = 1..(x - 1)
    <3>1. ASSUME NEW i \in P PROVE i \in 1..(x - 1)
      <4>1. i \in 1..N /\ ~(x \in 1..i)
        BY <2>1
      <4> QED BY <2>1, <4>1
    <3>2. ASSUME NEW i \in 1..(x - 1) PROVE i \in P
      BY <2>1
    <3> QED BY <3>1, <3>2
  <2>3. Cardinality(1..(x - 1)) = x - 1
    BY FS_Interval
  <2> QED BY <2>1, <2>2, <2>3
<1> QED BY <1>1, <1>2

\* captured_range_length is the run of bytes any descriptor of the table holds: the
\* bisection leaves out only descriptors that end before it.
LEMMA RangeLengthIsExact ==
    ASSUME NEW table_ \in Seq(Segments), NEW va \in Nat, va > 0, NEW size \in Nat, size > 0
    PROVE  LET c == CapturedRangeLength(table_, va, size)
           IN  /\ c \in 0..size
               /\ \A a \in va..(va + c - 1) : HeldBy(table_, DOMAIN table_, a) # {}
               /\ c < size => HeldBy(table_, DOMAIN table_, va + c) = {}
<1> DEFINE ord == StableSort(table_, ByBase)
           N == Len(ord)
           before == Cardinality({i \in DOMAIN ord : Max(Ends(ord, i)) <= va})
           rest == SubSeq(ord, before + 1, N)
           q == VirtualRange(va, size)
           c == Walk(rest, q).cursor
<1>1. CapturedRangeLength(table_, va, size) = c - va
  BY DEF CapturedRangeLength, Ends
<1>2. SortedBy(ord, table_, DOMAIN table_)
  BY SegmentsAreEntries, StableSortSorted
<1>3. ord \in Seq(Segments) /\ Ascending(ord)
  BY <1>2, SortedWalk
<1> HIDE DEF ord
<1>4. N \in Nat /\ DOMAIN ord = 1..N /\ \A i \in 1..N : ord[i] \in Segments
  BY <1>3
<1>5. \A i \in 1..N : ord[i].base \in Int /\ End(ord[i]) \in Int
  BY <1>4 DEF Segments, End
<1> DEFINE P == {i \in DOMAIN ord : Max(Ends(ord, i)) <= va}
<1>6. \A i \in 1..N : i \in P <=> \A j \in 1..i : End(ord[j]) <= va
  BY <1>3, <1>4, MaxOfEnds
<1> HIDE DEF N
<1>7. PICK b \in 0..N : P = 1..b /\ before = b
  <2>1. P \subseteq 1..N
    BY <1>4
  <2> HIDE DEF P
  <2>2. ASSUME NEW i \in P, NEW j \in 1..i PROVE j \in P
    <3>1. i \in 1..N /\ j \in 1..N /\ \A k \in 1..j : k \in 1..i
      BY <1>4, <2>1
    <3> QED BY <1>6, <3>1
  <2>3. \E b \in 0..N : P = 1..b /\ Cardinality(P) = b
    BY <1>4, <2>1, <2>2, PrefixCounted
  <2> QED BY <2>3 DEF P
<1>8. \A j \in 1..b : End(ord[j]) <= va
  <2>1. \A j \in 1..b : j \in P /\ j \in 1..N /\ j \in 1..j
    BY <1>4, <1>7
  <2> HIDE DEF P
  <2> QED BY <1>6, <2>1
<1> HIDE DEF P, before
<1>9. /\ rest \in Seq(Segments) /\ Len(rest) = N - b
      /\ \A k \in 1..(N - b) : rest[k] = ord[b + k]
  <2>1. rest = SubSeq(ord, b + 1, N)
    BY <1>7
  <2>2. N = Len(ord)
    BY DEF N
  <2> HIDE DEF rest
  <2>3. \A i \in (b + 1)..N : ord[i] \in Segments
    BY <1>4
  <2>4. b + 1 \in Int /\ N \in Int /\ N - (b + 1) + 1 = N - b
    BY <1>4
  <2>5. /\ rest \in Seq(Segments) /\ Len(rest) = IF b + 1 <= N THEN N - (b + 1) + 1 ELSE 0
        /\ \A k \in 1..(N - (b + 1) + 1) : rest[k] = ord[(b + 1) + k - 1]
    BY <2>1, <2>3, <2>4, SubSeqProperties
  <2>6. Len(rest) = N - b
    BY <1>4, <2>4, <2>5
  <2>7. ASSUME NEW k \in 1..(N - b) PROVE rest[k] = ord[b + k]
    <3>1. (b + 1) + k - 1 = b + k
      BY <1>4
    <3> QED BY <2>4, <2>5, <3>1
  <2> QED BY <2>5, <2>6, <2>7
<1> HIDE DEF rest
<1>10. Ascending(rest)
  <2> SUFFICES ASSUME NEW m \in 1..Len(rest), NEW n \in 1..Len(rest), m < n
               PROVE  rest[m].base <= rest[n].base
    BY DEF Ascending
  <2>1. b + m \in 1..N /\ b + n \in 1..N /\ b + m < b + n
    BY <1>4, <1>9
  <2>2. ord[b + m].base <= ord[b + n].base
    BY <1>3, <2>1 DEF Ascending, N
  <2> QED BY <1>9, <2>2
<1>11. ASSUME NEW a \in Nat, a >= va
       PROVE  Holds(rest, Len(rest), a) <=> HeldBy(table_, DOMAIN table_, a) # {}
  <2>1. Holds(rest, Len(rest), a) => Holds(ord, N, a)
    <3>1. ASSUME NEW k \in 1..Len(rest), ContainsAddress(rest[k], a) PROVE Holds(ord, N, a)
      <4>1. b + k \in 1..N /\ ContainsAddress(ord[b + k], a)
        BY <1>4, <1>9, <3>1
      <4> QED BY <4>1 DEF Holds
    <3> QED BY <3>1 DEF Holds
  <2>2. Holds(ord, N, a) => Holds(rest, Len(rest), a)
    <3>1. ASSUME NEW i \in 1..N, ContainsAddress(ord[i], a) PROVE Holds(rest, Len(rest), a)
      <4>1. i \notin 1..b
        <5>1. a < End(ord[i]) /\ End(ord[i]) \in Int
          BY <1>5, <3>1 DEF ContainsAddress
        <5> QED BY <1>8, <1>11, <5>1
      <4>2. i - b \in 1..Len(rest) /\ b + (i - b) = i
        BY <1>4, <1>9, <4>1
      <4>3. ContainsAddress(rest[i - b], a)
        BY <1>9, <3>1, <4>2
      <4> QED BY <4>2, <4>3 DEF Holds
    <3> QED BY <3>1 DEF Holds
  <2>3. Holds(ord, N, a) <=> HeldBy(table_, DOMAIN table_, a) # {}
    BY <1>2, SortedHolds DEF N
  <2> QED BY <2>1, <2>2, <2>3
<1>12. q.base = va /\ q.size = size /\ End(q) = va + size
  BY DEF VirtualRange, End
<1> HIDE DEF q
<1>13. /\ c \in Int /\ va <= c /\ c <= va + size
       /\ \A a \in va..(c - 1) : Holds(rest, Len(rest), a)
       /\ c < va + size => ~Holds(rest, Len(rest), c)
  BY SMTT(30), <1>9, <1>10, <1>12, WalkEnds
<1> HIDE DEF c
<1> DEFINE l == c - va
<1>14. l \in 0..size /\ va + l = c /\ va + l - 1 = c - 1
  BY <1>13
<1>15. \A a \in va..(c - 1) : HeldBy(table_, DOMAIN table_, a) # {}
  BY <1>11, <1>13
<1>16. c < va + size => HeldBy(table_, DOMAIN table_, c) = {}
  BY <1>11, <1>13
<1>17. \A a \in va..(va + l - 1) : HeldBy(table_, DOMAIN table_, a) # {}
  <2> HIDE DEF l
  <2> QED BY <1>14, <1>15
<1>18. l < size => HeldBy(table_, DOMAIN table_, va + l) = {}
  BY <1>13, <1>14, <1>16
<1>19. CapturedRangeLength(table_, va, size) = l
  BY <1>1 DEF c, q, rest, before, N, ord
<1> QED BY <1>14, <1>17, <1>18, <1>19

\* Clipping a range keeps the bytes both ranges have.
LEMMA ClipBytes ==
    ASSUME NEW r, r.base \in Nat, r.size \in Nat, NEW s, s.base \in Nat, s.size \in Nat
    PROVE  /\ ClipTo(r, s).size \in Nat /\ ClipTo(r, s).size <= r.size
           /\ Cardinality(Bytes(r) \intersect Bytes(s)) = ClipTo(r, s).size
           /\ ClipTo(r, s).size > 0 => Bytes(ClipTo(r, s)) = Bytes(r) \intersect Bytes(s)
           /\ s.base <= r.base => ClipTo(r, s).base = r.base
<1> DEFINE lo == Max({r.base, s.base})
           hi == Min({End(r), End(s)})
<1>1. End(r) = r.base + r.size /\ End(s) = s.base + s.size /\ End(r) \in Int /\ End(s) \in Int
  BY DEF End
<1>2. lo = IF r.base <= s.base THEN s.base ELSE r.base
  BY MaxOfTwo
<1>3. hi = IF End(r) <= End(s) THEN End(r) ELSE End(s)
  BY <1>1, MinOfTwo
<1>4. ClipTo(r, s) = IF lo >= hi THEN [base |-> lo, size |-> 0] ELSE [base |-> lo, size |-> hi - lo]
  BY DEF ClipTo, Nothing, VirtualRange
<1>5. lo \in Int /\ hi \in Int /\ r.base <= lo /\ hi <= End(r)
  BY <1>1, <1>2, <1>3
<1>6. Bytes(r) \intersect Bytes(s) = lo..(hi - 1)
  <2>1. ASSUME NEW a \in Int PROVE a \in Bytes(r) \intersect Bytes(s) <=> a \in lo..(hi - 1)
    <3>1. a \in Bytes(r) \intersect Bytes(s)
             <=> r.base <= a /\ s.base <= a /\ a < End(r) /\ a < End(s)
      BY <1>1 DEF Bytes
    <3>2. a \in lo..(hi - 1) <=> lo <= a /\ a < hi
      BY <1>5
    <3> HIDE DEF lo, hi
    <3> QED BY <1>1, <1>2, <1>3, <3>1, <3>2
  <2>2. Bytes(r) \subseteq Int /\ lo..(hi - 1) \subseteq Int
    BY <1>5 DEF Bytes
  <2> QED BY <2>1, <2>2
<1> HIDE DEF lo, hi
<1>7. Cardinality(lo..(hi - 1)) = IF lo > hi - 1 THEN 0 ELSE (hi - 1) - lo + 1
  BY <1>5, FS_Interval
<1>8. ClipTo(r, s).size = IF lo >= hi THEN 0 ELSE hi - lo
  BY <1>4
<1>9. ClipTo(r, s).base = lo
  BY <1>4
<1>10. ClipTo(r, s).size > 0 => Bytes(ClipTo(r, s)) = lo..(hi - 1)
  <2> SUFFICES ASSUME ClipTo(r, s).size > 0 PROVE Bytes(ClipTo(r, s)) = lo..(hi - 1)
    OBVIOUS
  <2>1. ClipTo(r, s).size = hi - lo
    BY <1>8
  <2>2. End(ClipTo(r, s)) = hi
    BY <1>5, <1>9, <2>1 DEF End
  <2> QED BY <1>9, <2>2 DEF Bytes
<1>11. ClipTo(r, s).size \in Nat /\ ClipTo(r, s).size <= r.size
  BY <1>1, <1>5, <1>8
<1>12. Cardinality(lo..(hi - 1)) = ClipTo(r, s).size
  BY <1>5, <1>7, <1>8
<1>13. s.base <= r.base => lo = r.base
  BY <1>2
<1> QED BY <1>6, <1>9, <1>10, <1>11, <1>12, <1>13

\* The clips add up to more than the bytes they cover exactly when two of them meet.
LEMMA OverlapCounted ==
    ASSUME NEW views \in Seq(Segments), NEW s, s.base \in Nat, s.size \in Nat, s.size > 0,
           \A a \in Bytes(s) : Holds(views, Len(views), a)
    PROVE  SegmentsOverlap(views, s) <=>
              \E a \in Bytes(s) : \E i, j \in 1..Len(views) :
                 i # j /\ ContainsAddress(views[i], a) /\ ContainsAddress(views[j], a)
<1> DEFINE N == Len(views)
           C(n) == Bytes(views[n]) \intersect Bytes(s)
           clips == [n \in 1..N |-> ClipTo(views[n], s).size]
           U(n) == {a \in Bytes(s) : \E i \in 1..n : a \in C(i)}
           Apart(n) == \A i, j \in 1..n : i # j => C(i) \intersect C(j) = {}
           Inv(n) == /\ Cardinality(U(n)) <= Total(clips, n)
                     /\ Cardinality(U(n)) = Total(clips, n) <=> Apart(n)
           S == {n \in Nat : n <= N => Inv(n)}
<1>1. N \in Nat /\ \A n \in 1..N : views[n].base \in Nat /\ views[n].size \in Nat
  <2>1. N \in Nat /\ \A n \in 1..N : views[n] \in Segments
    OBVIOUS
  <2> QED BY <2>1 DEF Segments
<1>2. IsFiniteSet(Bytes(s)) /\ Cardinality(Bytes(s)) = s.size
  <2>1. End(s) = s.base + s.size
    BY DEF End
  <2>2. s.base \in Int /\ End(s) - 1 \in Int
    BY <2>1
  <2>3. /\ IsFiniteSet(Bytes(s))
        /\ Cardinality(Bytes(s)) = IF s.base > End(s) - 1 THEN 0 ELSE (End(s) - 1) - s.base + 1
    BY <2>2, FS_Interval DEF Bytes
  <2> QED BY <2>1, <2>3
<1> HIDE DEF N
<1>3. ASSUME NEW n \in 1..N
      PROVE  /\ clips[n] \in Nat /\ Cardinality(C(n)) = clips[n] /\ IsFiniteSet(C(n))
             /\ C(n) \subseteq Bytes(s)
  <2>1. Cardinality(C(n)) = ClipTo(views[n], s).size /\ ClipTo(views[n], s).size \in Nat
    BY <1>1, ClipBytes
  <2>2. IsFiniteSet(C(n)) /\ C(n) \subseteq Bytes(s)
    <3>1. C(n) \in SUBSET Bytes(s)
      OBVIOUS
    <3> HIDE DEF C
    <3> QED BY <1>2, <3>1, FS_Subset
  <2> QED BY <2>1, <2>2
<1>4. clips \in Seq(Nat) /\ Len(clips) = N
  <2>1. clips \in [1..N -> Nat]
    BY <1>3
  <2> HIDE DEF clips
  <2> QED BY <1>1, <2>1, FunctionIsList
<1> HIDE DEF clips, C
<1>5. Total(clips, 0) = 0 /\ \A n \in 1..N : Total(clips, n) = Total(clips, n - 1) + clips[n]
  BY <1>4, TotalDefined
<1>6. \A n \in 0..N : Total(clips, n) \in Nat
  BY <1>4, TotalDefined
<1>7. 0 \in S
  <2>1. U(0) = {}
    OBVIOUS
  <2>2. Cardinality(U(0)) = 0
    BY <2>1, FS_EmptySet
  <2> HIDE DEF U
  <2> QED BY <1>5, <2>2
<1>8. ASSUME NEW n \in Nat, n \in S PROVE n + 1 \in S
  <2> SUFFICES ASSUME n + 1 <= N PROVE Inv(n + 1)
    OBVIOUS
  <2> DEFINE k == n + 1
  <2>1. k \in 1..N /\ k - 1 = n /\ n \in 0..N /\ Inv(n)
    BY <1>1, <1>8
  <2>2. U(k) = U(n) \union C(k)
    <3>1. \A i \in 1..k : i \in 1..n \/ i = k
      OBVIOUS
    <3>2. \A i \in 1..n : i \in 1..k
      OBVIOUS
    <3>3. k \in 1..k /\ C(k) \subseteq Bytes(s)
      BY <1>3, <2>1
    <3> HIDE DEF k
    <3> QED BY <3>1, <3>2, <3>3
  <2> DEFINE both == U(n) \intersect C(k)
  <2>3. /\ IsFiniteSet(U(n)) /\ Cardinality(U(n)) \in Nat
        /\ IsFiniteSet(both) /\ Cardinality(both) \in Nat
    <3>1. U(n) \in SUBSET Bytes(s)
      OBVIOUS
    <3> HIDE DEF U
    <3>2. IsFiniteSet(U(n))
      BY <1>2, <3>1, FS_Subset
    <3>3. IsFiniteSet(both)
      BY <3>2, FS_Intersection
    <3> HIDE DEF both
    <3> QED BY <3>2, <3>3, FS_CardinalityType
  <2>4. Cardinality(U(k)) = Cardinality(U(n)) + clips[k] - Cardinality(both)
    <3>1. IsFiniteSet(C(k)) /\ Cardinality(C(k)) = clips[k]
      BY <1>3, <2>1
    <3> HIDE DEF U, k
    <3>2. Cardinality(U(n) \union C(k)) = Cardinality(U(n)) + Cardinality(C(k)) - Cardinality(both)
      BY <2>3, <3>1, FS_Union
    <3> HIDE DEF both
    <3> QED BY <2>2, <3>1, <3>2
  <2>5. Cardinality(both) = 0 <=> \A i \in 1..n : C(i) \intersect C(k) = {}
    <3>1. Cardinality(both) = 0 <=> both = {}
      <4> HIDE DEF both
      <4> QED BY <2>3, FS_EmptySet
    <3>2. both = {} <=> \A i \in 1..n : C(i) \intersect C(k) = {}
      <4>1. C(k) \subseteq Bytes(s)
        BY <1>3, <2>1
      <4> HIDE DEF k
      <4> QED BY <4>1
    <3> QED BY <3>1, <3>2
  <2>6. Apart(k) <=> Apart(n) /\ \A i \in 1..n : C(i) \intersect C(k) = {}
    <3>1. \A i \in 1..k : i \in 1..n \/ i = k
      OBVIOUS
    <3>2. k \in 1..k /\ \A i \in 1..n : i \in 1..k /\ i # k
      OBVIOUS
    <3> HIDE DEF k
    <3> QED BY <3>1, <3>2
  <2>7. Total(clips, k) = Total(clips, n) + clips[k] /\ Total(clips, n) \in Nat /\ clips[k] \in Nat
    BY <1>3, <1>5, <1>6, <2>1
  <2> HIDE DEF U, Apart, both, k
  <2>8. Cardinality(U(k)) <= Total(clips, k)
    BY <2>1, <2>3, <2>4, <2>7
  <2>9. Cardinality(U(k)) = Total(clips, k)
          <=> Cardinality(U(n)) = Total(clips, n) /\ Cardinality(both) = 0
    BY <2>1, <2>3, <2>4, <2>7
  <2> QED BY <2>1, <2>5, <2>6, <2>8, <2>9 DEF k
<1> HIDE DEF S, U, Apart
<1>9. \A n \in Nat : n \in S
  BY <1>7, <1>8, SetInduction
<1>10. Inv(N)
  BY <1>1, <1>9 DEF S
<1>11. U(N) = Bytes(s)
  <2>1. ASSUME NEW a \in Bytes(s) PROVE \E i \in 1..N : a \in C(i)
    <3>1. PICK i \in 1..N : ContainsAddress(views[i], a)
      BY DEF Holds, N
    <3>2. a \in Int
      BY DEF Bytes, End
    <3>3. a \in Bytes(views[i])
      BY <1>1, <3>1, <3>2 DEF Bytes, ContainsAddress, End
    <3> QED BY <3>3 DEF C
  <2> QED BY <2>1 DEF U
<1>12. SegmentsOverlap(views, s) <=> Total(clips, N) > s.size
  BY <1>4 DEF SegmentsOverlap, clips, N
<1>13. SegmentsOverlap(views, s) <=> ~Apart(N)
  <2>1. Total(clips, N) \in Nat
    BY <1>1, <1>6
  <2> QED BY <1>2, <1>10, <1>11, <1>12, <2>1
<1>14. ~Apart(N) <=> \E a \in Bytes(s) : \E i, j \in 1..N : i # j /\ a \in C(i) /\ a \in C(j)
  BY <1>3 DEF Apart
<1>15. ASSUME NEW a \in Bytes(s), NEW i \in 1..N PROVE a \in C(i) <=> ContainsAddress(views[i], a)
  <2>1. a \in Int
    BY DEF Bytes, End
  <2>2. a \in Bytes(views[i]) <=> ContainsAddress(views[i], a)
    BY <1>1, <2>1 DEF Bytes, ContainsAddress, End
  <2> QED BY <2>2 DEF C
<1> QED BY <1>13, <1>14, <1>15 DEF N

\* A finite set has two members exactly when its cardinality exceeds one.
LEMMA ManyMembers ==
    ASSUME NEW T, IsFiniteSet(T)
    PROVE  /\ Cardinality(T) \in Nat
           /\ Cardinality(T) > 1 <=> \E x, y \in T : x # y
           /\ Cardinality(T) = 0 <=> T = {}
<1>1. Cardinality(T) \in Nat /\ (Cardinality(T) = 0 <=> T = {})
  BY FS_CardinalityType, FS_EmptySet
<1>2. Cardinality(T) = 1 <=> \E x : T = {x}
  BY FS_Singleton
<1>3. (\E x, y \in T : x # y) <=> T # {} /\ ~(\E x : T = {x})
  <2>1. ASSUME NEW x \in T, NEW y \in T, x # y PROVE T # {} /\ ~(\E z : T = {z})
    BY <2>1
  <2>2. ASSUME T # {}, ~(\E z : T = {z}) PROVE \E x, y \in T : x # y
    <3>1. PICK x \in T : TRUE
      BY <2>2
    <3>2. T # {x}
      BY <2>2
    <3> QED BY <3>1, <3>2
  <2> QED BY <2>1, <2>2
<1> QED BY <1>1, <1>2, <1>3

\* A byte two views hold is one two entries of the table hold.
LEMMA OverlapIsExact ==
    ASSUME NEW table_ \in Seq(Segments), NEW s, IsRange(s),
           \A a \in Bytes(s) : HeldBy(table_, Kept(table_), a) # {}
    PROVE  SegmentsOverlap(Views(table_), s) <=>
              \E a \in Bytes(s) : Cardinality(HeldBy(table_, Kept(table_), a)) > 1
<1> DEFINE v == Views(table_)
           K == Kept(table_)
           H(a) == HeldBy(table_, K, a)
<1>1. SortedBy(v, table_, K) /\ IsFiniteSet(K)
  <2>1. Entries(table_)
    BY SegmentsAreEntries
  <2>2. K \in SUBSET DOMAIN table_ /\ IsFiniteSet(DOMAIN table_)
    BY <2>1, EntryTypes DEF Kept
  <2> QED BY <2>1, <2>2, ViewsSorted, FS_Subset
<1>2. v \in Seq(Segments)
  BY <1>1, SortedWalk
<1>3. \A a \in Bytes(s) : Holds(v, Len(v), a)
  BY <1>1, SortedHolds
<1> HIDE DEF v, K
<1>4. SegmentsOverlap(v, s) <=>
              \E a \in Bytes(s) : \E i, j \in 1..Len(v) :
                 i # j /\ ContainsAddress(v[i], a) /\ ContainsAddress(v[j], a)
  BY <1>2, <1>3, OverlapCounted DEF IsRange
<1>5. PICK p \in [1..Len(v) -> K] :
          /\ \A n \in 1..Len(v) : v[n] = table_[p[n]]
          /\ \A i \in K : \E n \in 1..Len(v) : p[n] = i
          /\ \A m, n \in 1..Len(v) : m < n => p[m] # p[n]
  BY <1>1 DEF SortedBy
<1>6. ASSUME NEW a, NEW i \in 1..Len(v), NEW j \in 1..Len(v), i # j,
             ContainsAddress(v[i], a), ContainsAddress(v[j], a)
      PROVE  \E x, y \in H(a) : x # y
  <2>1. p[i] \in H(a) /\ p[j] \in H(a)
    BY <1>5, <1>6 DEF HeldBy
  <2>2. p[i] # p[j]
    <3>1. i < j \/ j < i
      BY <1>6
    <3> QED BY <1>5, <3>1
  <2> QED BY <2>1, <2>2
<1>7. ASSUME NEW a, NEW x \in H(a), NEW y \in H(a), x # y
      PROVE  \E i, j \in 1..Len(v) : i # j /\ ContainsAddress(v[i], a) /\ ContainsAddress(v[j], a)
  <2>1. x \in K /\ y \in K /\ ContainsAddress(table_[x], a) /\ ContainsAddress(table_[y], a)
    BY DEF HeldBy
  <2>2. PICK i \in 1..Len(v) : p[i] = x
    BY <1>5, <2>1
  <2>3. PICK j \in 1..Len(v) : p[j] = y
    BY <1>5, <2>1
  <2> QED BY <1>5, <1>7, <2>1, <2>2, <2>3
<1>8. ASSUME NEW a PROVE Cardinality(H(a)) > 1 <=> \E x, y \in H(a) : x # y
  <2>1. IsFiniteSet(H(a))
    <3>1. H(a) \in SUBSET K
      BY DEF HeldBy
    <3> QED BY <1>1, <3>1, FS_Subset
  <2> QED BY <2>1, ManyMembers
<1> HIDE DEF H
<1>9. SegmentsOverlap(v, s) <=> \E a \in Bytes(s) : Cardinality(H(a)) > 1
  BY <1>4, <1>6, <1>7, <1>8
<1> QED BY <1>9 DEF v, K, H

\* Containing finds the first entry that holds the byte, or 0.
LEMMA ContainingIs ==
    ASSUME NEW v, Len(v) \in Nat, NEW a
    PROVE  LET k == Containing(v, a)
           IN  /\ k = 0 => ~Holds(v, Len(v), a)
               /\ k # 0 => k \in 1..Len(v) /\ ContainsAddress(v[k], a)
<1> DEFINE I == {i \in 1..Len(v) : ContainsAddress(v[i], a)}
<1>1. Containing(v, a) = IF I # {} THEN Min(I) ELSE 0
  BY DEF Containing, SelectInSeq
<1>2. I # {} => Min(I) \in I
  <2>1. I \subseteq Nat
    OBVIOUS
  <2> HIDE DEF I
  <2>2. I # {} => \E x \in I : \A y \in I : x <= y
    BY <2>1, LeastNatural
  <2> QED BY <2>2 DEF Min
<1>3. I = {} => ~Holds(v, Len(v), a)
  BY DEF Holds
<1> QED BY <1>1, <1>2, <1>3

AllKept(s) == \A i \in DOMAIN s : s[i].size > 0 => Representable(s[i])

\* In a table whose descriptors all fit, the views hold what the descriptors hold.
LEMMA AllKeptHolds ==
    ASSUME NEW s \in Seq(Segments), AllKept(s), NEW a \in Int
    PROVE  HeldBy(s, DOMAIN s, a) = HeldBy(s, Kept(s), a)
<1>1. ASSUME NEW i \in DOMAIN s, ContainsAddress(s[i], a) PROVE i \in Kept(s)
  <2>0. s[i] \in Segments
    OBVIOUS
  <2>1. s[i].base \in Nat /\ s[i].size \in Nat
    BY <2>0 DEF Segments
  <2>2. s[i].size > 0
    BY <1>1, <2>1 DEF ContainsAddress, End
  <2> QED BY <2>2 DEF AllKept, Kept
<1> QED BY <1>1 DEF HeldBy, Kept

\* A byte with one place is where the first descriptor that holds it says.
LEMMA OffsetOfOnePlace ==
    ASSUME NEW s \in Seq(Segments), AllKept(s), NEW a \in Nat, a > 0,
           Cardinality(HeldBy(s, Kept(s), a)) <= 1
    PROVE  /\ \A i \in HeldBy(s, Kept(s), a) : SegmentFileOffset(s, a) = FileOffsetAt(s[i], a)
           /\ HeldBy(s, Kept(s), a) = {} => SegmentFileOffset(s, a) = Unknown
<1> DEFINE H == HeldBy(s, Kept(s), a)
           k == Containing(s, a)
<1>1. Len(s) \in Nat /\ DOMAIN s = 1..Len(s)
  OBVIOUS
<1>2. HeldBy(s, DOMAIN s, a) = H
  BY AllKeptHolds
<1>3. /\ k = 0 => ~Holds(s, Len(s), a)
      /\ k # 0 => k \in 1..Len(s) /\ ContainsAddress(s[k], a)
  BY <1>1, ContainingIs
<1>4. SegmentFileOffset(s, a) = IF k = 0 THEN Unknown ELSE FileOffsetAt(s[k], a)
  BY DEF SegmentFileOffset
<1> HIDE DEF k
<1>5. IsFiniteSet(H)
  <2>1. IsFiniteSet(DOMAIN s) /\ H \in SUBSET DOMAIN s
    BY SegmentsAreEntries, EntryTypes DEF HeldBy, Kept
  <2> QED BY <2>1, FS_Subset
<1>6. H = {} <=> k = 0
  BY <1>1, <1>2, <1>3 DEF HeldBy, Holds
<1>7. k # 0 => k \in H
  BY <1>1, <1>2, <1>3 DEF HeldBy
<1> HIDE DEF H
<1>8. \A x, y \in H : x = y
  <2>1. Cardinality(H) \in Nat /\ (Cardinality(H) > 1 <=> \E x, y \in H : x # y)
    BY <1>5, ManyMembers
  <2>2. Cardinality(H) <= 1
    BY DEF H
  <2> QED BY <2>1, <2>2
<1>9. \A i \in H : i = k /\ k # 0
  BY <1>6, <1>7, <1>8
<1> QED BY <1>4, <1>6, <1>9 DEF H

\* A byte of a part is where the whole says.
LEMMA PartPlaces ==
    ASSUME NEW seg \in Segments, NEW tile, PartOf(tile, seg), NEW a \in Bytes(tile)
    PROVE  /\ ContainsAddress(tile, a) /\ ContainsAddress(seg, a)
           /\ FileOffsetAt(tile, a) = FileOffsetAt(seg, a)
<1>1. /\ seg.base \in Int /\ seg.offset \in Int /\ End(seg) \in Int
      /\ tile.base \in Int /\ End(tile) \in Int /\ tile.offset \in Int
      /\ seg.base <= tile.base /\ End(tile) <= End(seg)
      /\ tile.offset = seg.offset + (tile.base - seg.base)
  BY DEF Segments, PartOf, End, FileOffsetAt
<1>2. a \in Int /\ tile.base <= a /\ a < End(tile)
  BY <1>1 DEF Bytes
<1> QED BY <1>1, <1>2 DEF ContainsAddress, FileOffsetAt

(* The state of a rescan. *)

\* The dump and the request are among those considered, and what was captured is
\* what the slice of the request says.
Given == /\ table \in Tables /\ regions \in RegionLists /\ req \in Requests
         /\ analyzer \in Analyzers
         /\ capture = SliceCaptured(req, Views(table))

\* The types of what is given.
LEMMA GivenTypes ==
    ASSUME Given
    PROVE  /\ table \in Seq(Segments) /\ IsRange(req) /\ Entries(regions)
           /\ analyzer \in AnalyzerNames
<1>1. table \in Seq(Segments)
  BY RescanAssumption DEF Given, Segments
<1>2. IsRange(req)
  <2>1. req \in [base: Nat \ {0}, size: Nat \ {0}]
    BY RescanAssumption DEF Given
  <2> QED BY <2>1 DEF IsRange
<1>3. Entries(regions)
  <2>1. regions \in Seq([base: Nat, size: Nat, kind: Kinds])
    BY RescanAssumption DEF Given
  <2>2. \A e \in [base: Nat, size: Nat, kind: Kinds] : e.base \in Nat /\ e.size \in Nat
    OBVIOUS
  <2> QED BY <2>1, <2>2 DEF Entries
<1> QED BY <1>1, <1>2, <1>3, RescanAssumption DEF Given

\* The descriptors that back an address, in the terms of the lookups.
LEMMA BackersAre ==
    /\ \A a : Backers(a) = HeldBy(table, Kept(table), a)
    /\ WellFormed <=> AllKept(table)
  BY DEF Backers, HeldBy, Kept, WellFormed, AllKept

\* The bytes of the captured prefix.
LEMMA CapturedBytesAre ==
    ASSUME Given
    PROVE  /\ capture.captured = VirtualRange(req.base, capture.captured.size)
           /\ capture.captured.size \in 0..req.size /\ capture.requested = req
           /\ Bytes(capture.captured) = req.base..(req.base + capture.captured.size - 1)
           /\ \A a \in Bytes(capture.captured) : Backers(a) # {}
           /\ capture.captured.size < req.size
                => Backers(req.base + capture.captured.size) = {}
<1> DEFINE n == capture.captured.size
<1>1. table \in Seq(Segments) /\ IsRange(req)
  BY GivenTypes
<1>2. capture = SliceCaptured(req, Views(table))
  BY DEF Given
<1>3. /\ capture.requested = req /\ capture.captured = VirtualRange(req.base, n)
      /\ n \in 0..req.size
      /\ \A a \in req.base..(req.base + n - 1) : HeldBy(table, Kept(table), a) # {}
      /\ n < req.size => HeldBy(table, Kept(table), req.base + n) = {}
  BY <1>1, <1>2, SliceIsExact
<1>4. Bytes(capture.captured) = req.base..(req.base + n - 1)
  <2>1. capture.captured.base = req.base
    BY <1>3 DEF VirtualRange
  <2>2. End(capture.captured) = req.base + n
    BY <2>1 DEF End
  <2>3. Bytes(capture.captured) = capture.captured.base..(End(capture.captured) - 1)
    BY DEF Bytes
  <2>4. req.base \in Int /\ n \in Int
    BY <1>1, <1>3 DEF IsRange
  <2> HIDE DEF n
  <2> QED BY <2>1, <2>2, <2>3, <2>4
<1> QED BY <1>3, <1>4, BackersAre

\* The capture of a slice is exact: it depends on the table and the request alone.
LEMMA ExactWhenGiven == Given => CapturedIsExact
<1> SUFFICES ASSUME Given PROVE CapturedIsExact
  OBVIOUS
<1> DEFINE n == capture.captured.size
           b == req.base
<1>1. table \in Seq(Segments) /\ IsRange(req) /\ b \in Nat /\ b > 0 /\ req.size \in Nat /\ req.size > 0
  BY GivenTypes DEF IsRange
<1>2. /\ capture.captured = VirtualRange(b, n) /\ n \in 0..req.size
      /\ Bytes(capture.captured) = b..(b + n - 1)
      /\ \A a \in Bytes(capture.captured) : Backers(a) # {}
      /\ n < req.size => Backers(b + n) = {}
  BY CapturedBytesAre
<1>3. capture = SliceCaptured(req, Views(table))
  BY DEF Given
<1>4. /\ capture.overlapping = SegmentsOverlap(Views(table), capture.captured)
      /\ \A k \in DOMAIN capture.segments :
            \E i \in Kept(table) : PartOf(capture.segments[k], table[i])
      /\ n = 0 => capture.offset = Unknown
      /\ n > 0 => /\ 1 \in DOMAIN capture.segments
                  /\ capture.segments[1].base = b
                  /\ capture.offset = capture.segments[1].offset
      /\ \A a \in b..(b + n - 1) :
            \E k \in DOMAIN capture.segments : ContainsAddress(capture.segments[k], a)
  BY <1>1, <1>3, SliceIsExact
<1> HIDE DEF n, b
<1>5. \A x \in 0..(n - 1) : b + x \in b..(b + n - 1)
  BY <1>1, <1>2
<1>6. \A a \in b..(b + n - 1) : a - b \in 0..(n - 1) /\ b + (a - b) = a
  BY <1>1, <1>2
<1>7. \A x \in 0..(n - 1) : Backers(b + x) # {}
  BY <1>2, <1>5
<1>8. capture.overlapping <=> \E x \in 0..(n - 1) : Cardinality(Backers(b + x)) > 1
  <2>1. capture.overlapping <=> \E a \in b..(b + n - 1) : Cardinality(Backers(a)) > 1
    <3>1. CASE n = 0
      <4>1. b..(b + n - 1) = {}
        BY <1>1, <3>1
      <4>2. ~capture.overlapping
        <5>1. ~(capture.captured.size > 0)
          BY <3>1 DEF n
        <5> HIDE DEF n
        <5>2. ~SegmentsOverlap(Views(table), capture.captured)
          BY <5>1, Zenon DEF SegmentsOverlap
        <5> QED BY <1>4, <5>2
      <4> QED BY <4>1, <4>2
    <3>2. CASE n # 0
      <4>1. IsRange(capture.captured)
        BY <1>1, <1>2, <3>2 DEF IsRange, VirtualRange
      <4>2. \A a \in Bytes(capture.captured) : HeldBy(table, Kept(table), a) # {}
        BY <1>2, BackersAre
      <4>3. SegmentsOverlap(Views(table), capture.captured) <=>
              \E a \in Bytes(capture.captured) : Cardinality(HeldBy(table, Kept(table), a)) > 1
        BY <1>1, <4>1, <4>2, OverlapIsExact
      <4> QED BY <1>2, <1>4, <4>3, BackersAre
    <3> QED BY <3>1, <3>2
  <2> QED BY <1>5, <1>6, <2>1
<1>9. ASSUME NEW k \in DOMAIN capture.segments, NEW a \in Bytes(capture.segments[k])
      PROVE  FileOffsetAt(capture.segments[k], a) \in Places(a)
  <2> DEFINE tile == capture.segments[k]
  <2>1. PICK i \in Kept(table) : PartOf(tile, table[i])
    BY <1>4
  <2>2. i \in DOMAIN table /\ Representable(table[i]) /\ table[i] \in Segments
    BY <1>1 DEF Kept
  <2>3. ContainsAddress(table[i], a) /\ FileOffsetAt(tile, a) = FileOffsetAt(table[i], a)
    BY <1>9, <2>1, <2>2, PartPlaces
  <2> HIDE DEF tile
  <2> QED BY <2>2, <2>3 DEF Places, tile
<1>10. ASSUME WellFormed PROVE CapturedRangeLength(table, b, req.size) = n
  <2> DEFINE c == CapturedRangeLength(table, b, req.size)
  <2>1. /\ c \in 0..req.size
        /\ \A a \in b..(b + c - 1) : HeldBy(table, DOMAIN table, a) # {}
        /\ c < req.size => HeldBy(table, DOMAIN table, b + c) = {}
    BY <1>1, RangeLengthIsExact
  <2>2. \A a \in Int : HeldBy(table, DOMAIN table, a) = Backers(a)
    BY <1>1, <1>10, AllKeptHolds, BackersAre
  <2> HIDE DEF c
  <2>3. ~(c < n)
    <3> SUFFICES ASSUME c < n PROVE FALSE
      OBVIOUS
    <3>1. c < req.size /\ b + c \in b..(b + n - 1) /\ b + c \in Int
      BY <1>1, <1>2, <2>1
    <3> QED BY <1>2, <2>1, <2>2, <3>1
  <2>4. ~(n < c)
    <3> SUFFICES ASSUME n < c PROVE FALSE
      OBVIOUS
    <3>1. n < req.size /\ b + n \in b..(b + c - 1) /\ b + n \in Int
      BY <1>1, <1>2, <2>1
    <3> QED BY <1>2, <2>1, <2>2, <3>1
  <2>5. c = n
    BY <1>2, <2>1, <2>3, <2>4
  <2> QED BY <2>5 DEF c
<1>11. ASSUME WellFormed, ~capture.overlapping PROVE SegmentFileOffset(table, b) = capture.offset
  <2>1. AllKept(table) /\ Backers(b) = HeldBy(table, Kept(table), b)
    BY <1>11, BackersAre
  <2>2. CASE n = 0
    <3>1. Backers(b) = {}
      <4>1. b + 0 = b /\ n < req.size
        BY <1>1, <2>2
      <4> QED BY <1>2, <2>2, <4>1
    <3>2. Cardinality(Backers(b)) = 0
      BY <3>1, FS_EmptySet
    <3>3. SegmentFileOffset(table, b) = Unknown
      <4>1. Cardinality(HeldBy(table, Kept(table), b)) <= 1 /\ HeldBy(table, Kept(table), b) = {}
        BY <2>1, <3>1, <3>2
      <4> QED BY <1>1, <2>1, <4>1, OffsetOfOnePlace
    <3> QED BY <1>4, <2>2, <3>3
  <2>3. CASE n # 0
    <3>1. 0 \in 0..(n - 1) /\ b + 0 = b /\ n > 0
      BY <1>1, <1>2, <2>3
    <3>2. ~(Cardinality(Backers(b)) > 1)
      BY <1>8, <1>11, <3>1
    <3>3. Cardinality(Backers(b)) <= 1
      <4>1. IsFiniteSet(Backers(b))
        <5>1. IsFiniteSet(DOMAIN table) /\ Backers(b) \in SUBSET DOMAIN table
          BY <1>1, SegmentsAreEntries, EntryTypes DEF Backers
        <5> QED BY <5>1, FS_Subset
      <4>2. Cardinality(Backers(b)) \in Nat
        BY <4>1, FS_CardinalityType
      <4> QED BY <3>2, <4>2
    <3> DEFINE tile == capture.segments[1]
    <3>4. tile.base = b /\ capture.offset = tile.offset /\ 1 \in DOMAIN capture.segments
      BY <1>4, <3>1
    <3>5. PICK i \in Kept(table) : PartOf(tile, table[i])
      BY <1>4, <3>4
    <3>6. table[i] \in Segments
      BY <1>1 DEF Kept
    <3> HIDE DEF tile
    <3>7. b \in Bytes(tile)
      BY <1>1, <3>4, <3>5 DEF PartOf, Bytes, End
    <3>8. ContainsAddress(table[i], b) /\ tile.offset = FileOffsetAt(table[i], b)
      BY <3>4, <3>5, <3>6, <3>7, PartPlaces DEF PartOf
    <3>9. i \in HeldBy(table, Kept(table), b)
      BY <3>8 DEF HeldBy
    <3>10. SegmentFileOffset(table, b) = FileOffsetAt(table[i], b)
      BY <1>1, <2>1, <3>3, <3>9, OffsetOfOnePlace
    <3> QED BY <3>4, <3>8, <3>10
  <2> QED BY <2>2, <2>3
<1> QED BY <1>2, <1>7, <1>8, <1>9, <1>10, <1>11 DEF CapturedIsExact, n, b

\* No step changes the dump, the request or what was captured.
LEMMA KeepsDump == ASSUME [Next]_vars PROVE UNCHANGED <<Dump, capture>>
<1>1. CASE UNCHANGED vars
  BY <1>1 DEF vars, Dump
<1>2. CASE Spend \/ NotContained \/ Resolve \/ Gate \/ NoRules
  BY <1>2 DEF Spend, NotContained, Resolve, Gate, NoRules
<1>3. CASE ReadSlice \/ ReadChunk \/ ReadStops
  BY <1>3 DEF ReadSlice, ReadChunk, ReadStops
<1>4. CASE SearchMarkers \/ MatchRules \/ ScanStrings
  BY <1>4 DEF SearchMarkers, MatchRules, ScanStrings
<1>5. CASE MatchNames \/ GatherC2
  BY <1>5 DEF MatchNames, GatherC2
<1>6. CASE SleepMask \/ Entropy \/ Decode \/ Close
  BY <1>6 DEF SleepMask, Entropy, Decode, Close
<1> QED BY <1>1, <1>2, <1>3, <1>4, <1>5, <1>6 DEF Next, Adapter

\* What a slice says it captured is exactly what the dump holds, whatever the table
\* (slice_captured against the descriptors, and captured_range_length and
\* segment_file_offset against it).
THEOREM CapturesAreExact == Spec => []CapturedIsExact
<1>1. Init => Given
  BY DEF Init, Given
<1>2. Given /\ [Next]_vars => Given'
  <2> SUFFICES ASSUME Given, [Next]_vars PROVE Given'
    OBVIOUS
  <2>1. UNCHANGED <<Dump, capture>>
    BY KeepsDump
  <2> QED BY <2>1 DEF Given, Dump
<1> QED BY <1>1, <1>2, ExactWhenGiven, PTL DEF Spec

\* The reasons other than a budget or the read for which a scope is not complete.
Details == {"rule_compile_failed", "match_context_unverified", "pattern_set_withheld",
            "match_cap_reached", "context_only_cap_reached", "window_sampled",
            "candidate_list_truncated", "entropy_window_sampled"}

\* What a scope records while it scans.
LedgerType == [scanned: BOOLEAN, failed: BOOLEAN, short: BOOLEAN, cut: BOOLEAN, cursor: Int,
               before: BOOLEAN, leads: BOOLEAN, details: SUBSET Details, gap: BOOLEAN,
               applied: Int, withheld: BOOLEAN]

\* What is evaluated starts where the request does and lies in the descriptor that
\* holds its base; for a segment analyzer the dump holds all of it.
PlaceInv ==
    /\ Eval.base = req.base /\ Eval.size \in 1..req.size
    /\ place.boundary.truncated = (Eval.size < req.size)
    /\ analyzer \in SegmentUnits =>
          /\ Containing(Views(table), req.base) # 0
          /\ Eval.size <= capture.captured.size

\* Where each analyzer can be.
PcInv ==
    /\ pc \in {"resolve", "gate", "read", "search", "c2", "entropy", "decode", "close", "done"}
    /\ pc = "gate" => analyzer \in SegmentUnits \union {"pipe"}
    /\ pc = "c2" => analyzer = "pipe"
    /\ pc \in {"entropy", "decode"} => analyzer = "obfuscation"

Unread   == pc \in {"resolve", "gate", "read"}
Scanning == pc \in {"search", "c2", "entropy", "decode"}

\* The bytes in hand are bytes of what is evaluated, and once the read is over of
\* what the dump holds.
GotInv ==
    /\ got \in Int /\ got >= Unmeasured
    /\ pc \in {"resolve", "gate"} => got = Unmeasured
    /\ pc # "resolve" => got <= Eval.size
    /\ ~Unread => got <= capture.captured.size
    /\ Scanning => got >= 1

\* What one scope has recorded says which bytes its patterns have looked at, and why
\* some of them have not.
ScopeInv(s) ==
    LET l == ledger[s]
    IN  /\ l.withheld => \/ l.details # {}
                         \/ s = "decode" /\ place.kind \notin PrivateKinds
                         \/ s = "c2_context" /\ ~ledger["pipe_name"].leads
        /\ Unread => l = NewLedger
        /\ l.scanned => got >= 1
        /\ ~Unread /\ got >= 1 /\ ~Declined(s) => (l.short <=> got < Eval.size)
        /\ l.failed => got <= 0
        /\ l.applied >= 0 /\ (l.scanned => l.applied <= got)
        /\ l.cursor = Unmeasured \/ l.cursor \in 0..got
        /\ analyzer = "cs-beacon" /\ l.scanned /\ l.cut
              => l.applied = IF l.cursor = Unmeasured THEN 0 ELSE l.cursor
        /\ pc = "search" => /\ ~l.cut /\ ~l.gap /\ l.details = {} /\ ~l.withheld
                            /\ analyzer \notin SegmentUnits => ~l.scanned
        /\ pc = "c2" /\ s = "c2_context" => ~l.cut
        /\ pc # "search" /\ l.scanned /\ ~l.cut /\ ~l.gap /\ l.details = {}
             /\ ~(s = "c2_context" /\ ledger["pipe_name"].cut) => l.applied = got

\* The scan of a request that a descriptor holds, up to its answer.
ScanInv ==
    /\ pc # "resolve" => PlaceInv
    /\ GotInv
    /\ ledger \in [Scopes -> LedgerType] /\ \A s \in Scopes : ScopeInv(s)

Answer == [k \in DOMAIN Granted[analyzer] |->
          LET scope == Granted[analyzer][k]
          IN IF Declined(scope) THEN Closure(scope, "not_applicable", {}, FALSE, Unmeasured, "none")
             ELSE Closure(scope, Status(scope), Targets(scope), Untargeted(scope),
                          IF Reached(scope) THEN Read ELSE Unmeasured, Note(scope))]

\* An answer that looked at nothing: no closure claims a read or names a byte.
Declines ==
    /\ DOMAIN closures = DOMAIN Granted[analyzer]
    /\ \A k \in DOMAIN closures : /\ closures[k].status = "not_evaluated"
                                  /\ closures[k].read = Unmeasured /\ closures[k].targets = {}
    /\ got = Unmeasured

IInv ==
    /\ Given /\ PcInv
    /\ spent \subseteq Budgets /\ prevented \subseteq spent
    /\ pc # "done" => ScanInv /\ closures = <<>>
    /\ pc = "done" => Declines \/ (ScanInv /\ closures = Answer)

\* What the dump, the request, the place and the analyzer decide stays as they are.
LEMMA Frame ==
    ASSUME UNCHANGED <<Dump, capture, place>>
    PROVE  /\ (Given' <=> Given) /\ (PlaceInv' <=> PlaceInv)
           /\ Eval' = Eval /\ Scopes' = Scopes /\ Budgets' = Budgets
           /\ \A s : Declined(s)' <=> Declined(s)
<1>1. UNCHANGED <<table, regions, req, analyzer, capture, place>>
  BY DEF Dump
<1>2. Eval' = Eval /\ Scopes' = Scopes
  BY <1>1 DEF Eval, Scopes
<1>3. Given' <=> Given
  BY <1>1 DEF Given
<1>4. PlaceInv' <=> PlaceInv
  BY <1>1, <1>2 DEF PlaceInv
<1>5. Budgets' = Budgets
  BY <1>2 DEF Budgets
<1>6. \A s : Declined(s)' <=> Declined(s)
  BY <1>1, <1>2 DEF Declined
<1> QED BY <1>2, <1>3, <1>4, <1>5, <1>6

\* The scopes and budgets of each analyzer.
LEMMA ScopesAre ==
    ASSUME analyzer \in AnalyzerNames
    PROVE  /\ analyzer \in {"cs-beacon", "yara", "stomping"}
                => Granted[analyzer] = <<analyzer>> /\ Scopes = {analyzer}
           /\ analyzer = "pipe" => /\ Granted[analyzer] = <<"pipe_name", "c2_context">>
                                   /\ Scopes = {"pipe_name", "c2_context"}
           /\ analyzer = "obfuscation"
                => /\ Granted[analyzer] = <<"sleep_mask", "entropy", "decode">>
                   /\ Scopes = {"sleep_mask", "entropy", "decode"}
           /\ \A k \in DOMAIN Granted[analyzer] : Granted[analyzer][k] \in Scopes
           /\ \A s \in Scopes : \E k \in DOMAIN Granted[analyzer] : Granted[analyzer][k] = s
<1>1. \A s : s \in Scopes <=> \E k \in DOMAIN Granted[analyzer] : Granted[analyzer][k] = s
  BY DEF Scopes, ToSet
<1>2. CASE analyzer \in {"cs-beacon", "yara", "stomping"}
  <2>1. Granted[analyzer] = <<analyzer>>
    BY <1>2 DEF Granted
  <2> QED BY <1>1, <1>2, <2>1
<1>3. CASE analyzer = "pipe"
  <2>1. Granted[analyzer] = <<"pipe_name", "c2_context">>
    BY <1>3 DEF Granted, AnalyzerNames
  <2> QED BY <1>1, <1>3, <2>1
<1>4. CASE analyzer = "obfuscation"
  <2>1. Granted[analyzer] = <<"sleep_mask", "entropy", "decode">>
    BY <1>4 DEF Granted, AnalyzerNames
  <2> QED BY <1>1, <1>4, <2>1
<1> QED BY <1>1, <1>2, <1>3, <1>4 DEF AnalyzerNames

\* The ledger of a scope that has not begun.
LEMMA NewLedgerType == NewLedger \in LedgerType
  BY DEF NewLedger, LedgerType, Unmeasured

\* A rescan starts in the invariant.
LEMMA InitIInv == Init => IInv
<1> SUFFICES ASSUME Init PROVE IInv
  OBVIOUS
<1>1. Given
  BY DEF Init, Given
<1>2. PcInv /\ spent \subseteq Budgets /\ prevented \subseteq spent /\ closures = <<>>
  BY DEF Init, PcInv
<1>3. pc = "resolve" /\ got = -1 /\ ledger = [s \in Scopes |-> NewLedger]
  BY DEF Init, Unmeasured
<1>4. GotInv
  BY <1>3 DEF GotInv, Unmeasured, Unread, Scanning
<1>5. ledger \in [Scopes -> LedgerType]
  BY <1>3, NewLedgerType
<1>6. ASSUME NEW s \in Scopes PROVE ScopeInv(s)
  <2>1. ledger[s] = NewLedger
    BY <1>3
  <2>2. /\ ~NewLedger.scanned /\ ~NewLedger.failed /\ ~NewLedger.short /\ ~NewLedger.cut
        /\ NewLedger.cursor = Unmeasured /\ NewLedger.applied = 0 /\ ~NewLedger.withheld
    BY DEF NewLedger
  <2> QED BY <1>3, <2>1, <2>2 DEF ScopeInv, Unread
<1> QED BY <1>1, <1>2, <1>3, <1>4, <1>5, <1>6 DEF IInv, ScanInv

\* A budget that runs out between two steps changes nothing of what was searched.
LEMMA SpendStep == ASSUME IInv, Spend PROVE IInv'
<1>1. /\ UNCHANGED <<Dump, pc, capture, place, prevented, got, ledger, closures>>
      /\ pc # "done" /\ spent \subseteq spent' /\ spent' \subseteq Budgets
  BY DEF Spend, IInv
<1>2. (Given' <=> Given) /\ (PlaceInv' <=> PlaceInv) /\ Eval' = Eval /\ Scopes' = Scopes
      /\ Budgets' = Budgets /\ \A s : Declined(s)' <=> Declined(s)
  BY <1>1, Frame
<1>3. analyzer' = analyzer
  BY <1>1 DEF Dump
<1>4. PcInv'
  BY <1>1, <1>3 DEF IInv, PcInv
<1>5. ScanInv /\ closures = <<>>
  BY <1>1 DEF IInv
<1>6. GotInv'
  BY <1>1, <1>2, <1>5 DEF ScanInv, GotInv, Unread, Scanning
<1>7. ASSUME NEW s \in Scopes PROVE ScopeInv(s)'
  <2>1. ScopeInv(s)
    BY <1>5 DEF ScanInv
  <2> QED BY <1>1, <1>2, <1>3, <2>1 DEF ScopeInv, Unread
<1>8. ScanInv'
  BY <1>1, <1>2, <1>5, <1>6, <1>7 DEF ScanInv
<1>9. prevented' \subseteq spent'
  BY <1>1 DEF IInv
<1> QED BY <1>1, <1>2, <1>4, <1>5, <1>8, <1>9 DEF IInv

\* The rest of the state, in the steps of the adapter.
LEMMA AdapterFrame ==
    ASSUME IInv, UNCHANGED <<Dump, capture>>
    PROVE  Given' /\ analyzer' = analyzer /\ Scopes' = Scopes /\ Budgets' = Budgets
<1>1. UNCHANGED <<table, regions, req, analyzer, capture>>
  BY DEF Dump
<1>2. Scopes' = Scopes
  BY <1>1 DEF Scopes
<1> QED BY <1>1, <1>2 DEF IInv, Given, Budgets

\* No descriptor holds the base: the answer declines.
LEMMA NotContainedStep == ASSUME IInv, NotContained PROVE IInv'
<1>1. /\ UNCHANGED <<Dump, capture, place, spent, prevented, got, ledger>>
      /\ pc = "resolve" /\ pc' = "done"
      /\ closures' = [k \in DOMAIN Granted[analyzer] |->
                       Closure(Granted[analyzer][k], "not_evaluated", {}, FALSE, Unmeasured, "none")]
  BY DEF NotContained
<1>2. Given' /\ analyzer' = analyzer /\ Scopes' = Scopes /\ Budgets' = Budgets
  BY <1>1, AdapterFrame
<1>3. got = Unmeasured
  BY <1>1 DEF IInv, ScanInv, GotInv
<1>4. Declines'
  BY <1>1, <1>2, <1>3 DEF Declines, Closure
<1>5. PcInv'
  BY <1>1 DEF PcInv
<1> QED BY <1>1, <1>2, <1>4, <1>5 DEF IInv

\* No rule compiles: the answer declines.
LEMMA NoRulesStep == ASSUME IInv, NoRules PROVE IInv'
<1>1. /\ UNCHANGED <<Dump, capture, place, spent, prevented, got, ledger>>
      /\ pc = "gate" /\ pc' = "done" /\ analyzer = "yara"
      /\ closures' = <<Closure("yara", "not_evaluated", {}, TRUE, Unmeasured, "none")>>
  BY DEF NoRules
<1>2. Given' /\ analyzer' = analyzer /\ Scopes' = Scopes /\ Budgets' = Budgets
  BY <1>1, AdapterFrame
<1>3. got = Unmeasured
  BY <1>1 DEF IInv, ScanInv, GotInv
<1>4. Declines'
  <2>1. Granted["yara"] = <<"yara">>
    BY DEF Granted, AnalyzerNames
  <2>2. DOMAIN <<"yara">> = {1} /\ DOMAIN closures' = {1}
    BY <1>1
  <2> QED BY <1>1, <1>2, <1>3, <2>1, <2>2 DEF Declines, Closure
<1>5. PcInv'
  BY <1>1 DEF PcInv
<1> QED BY <1>1, <1>2, <1>4, <1>5 DEF IInv

\* The closures are built: they are the answer to the rest of the state.
LEMMA CloseStep == ASSUME IInv, Close PROVE IInv'
<1>1. /\ UNCHANGED <<Dump, capture, place, spent, prevented, got, ledger>>
      /\ pc = "close" /\ pc' = "done" /\ closures' = Answer
  BY DEF Close, Answer
<1>2. Given' /\ analyzer' = analyzer /\ Scopes' = Scopes /\ Budgets' = Budgets
  BY <1>1, AdapterFrame
<1>3. (PlaceInv' <=> PlaceInv) /\ Eval' = Eval /\ \A s : Declined(s)' <=> Declined(s)
  BY <1>1, Frame
<1>4. ScanInv
  BY <1>1 DEF IInv
<1>5. GotInv'
  BY <1>1, <1>3, <1>4 DEF ScanInv, GotInv, Unread, Scanning
<1>6. ASSUME NEW s \in Scopes PROVE ScopeInv(s)'
  <2>1. ScopeInv(s)
    BY <1>4 DEF ScanInv
  <2> QED BY <1>1, <1>2, <1>3, <2>1 DEF ScopeInv, Unread
<1>7. ScanInv'
  BY <1>1, <1>2, <1>3, <1>4, <1>5, <1>6 DEF ScanInv
<1>8. Answer' = Answer
  <2>1. UNCHANGED <<table, regions, req, analyzer, capture, place, prevented, got, ledger>>
    BY <1>1 DEF Dump
  <2>2. Eval' = Eval /\ Read' = Read
    BY <2>1 DEF Eval, Read
  <2> QED BY <2>1, <2>2 DEF Answer, Closure, Status, Targets, Untargeted, Reached, Declined, Gap,
         CaptureState, EvalTarget, RequestedTarget, BudgetTargets, Truncated, Stamped, Residual, Note
<1>9. PcInv'
  BY <1>1 DEF PcInv
<1> QED BY <1>1, <1>2, <1>7, <1>8, <1>9 DEF IInv

\* The boundary of a request in a descriptor that holds its base.
LEMMA BoundaryIs ==
    ASSUME NEW r, IsRange(r), NEW s, s.base \in Nat, s.size \in Nat, ContainsAddress(s, r.base)
    PROVE  LET b == Boundary(r, s)
           IN  /\ b.eval.base = r.base /\ b.eval.size \in 1..r.size
               /\ b.truncated = (b.eval.size < r.size)
               /\ End(b.eval) <= End(s)
<1> DEFINE stop == Min({End(r), End(s)})
<1>1. /\ r.base \in Nat /\ r.size \in Nat /\ r.size > 0 /\ End(r) = r.base + r.size
      /\ End(s) = s.base + s.size /\ s.base <= r.base /\ r.base < End(s)
  BY DEF IsRange, End, ContainsAddress
<1>2. End(r) \in Int /\ End(s) \in Int
  BY <1>1
<1>3. stop = IF End(r) <= End(s) THEN End(r) ELSE End(s)
  BY <1>2, MinOfTwo
<1>4. Max({r.base, s.base}) = r.base
  BY <1>1, MaxOfTwo
<1>5. stop \in Int /\ r.base < stop /\ stop <= End(r) /\ stop <= End(s)
  BY <1>1, <1>2, <1>3
<1>6. ClipTo(r, s) = IF r.base >= stop THEN Nothing(r.base) ELSE VirtualRange(r.base, stop - r.base)
  BY <1>4 DEF ClipTo
<1> HIDE DEF stop
<1>7. ClipTo(r, s).base = r.base /\ ClipTo(r, s).size = stop - r.base
  BY <1>1, <1>5, <1>6 DEF VirtualRange
<1>8. ClipTo(r, s).size > 0
  BY <1>1, <1>5, <1>7
<1>9. Boundary(r, s).eval = ClipTo(r, s)
  BY <1>8 DEF Boundary
<1>10. Boundary(r, s).truncated = (ClipTo(r, s).size < r.size)
  BY <1>8 DEF Boundary
<1>11. ClipTo(r, s).size \in 1..r.size /\ End(ClipTo(r, s)) <= End(s)
  BY <1>1, <1>5, <1>7 DEF End
<1> QED BY <1>7, <1>9, <1>10, <1>11

\* What lies in the descriptor that holds the base has been captured.
LEMMA HeldIsCaptured ==
    ASSUME Given, NEW s \in Segments, NEW i \in Kept(table), s = table[i],
           NEW m \in 1..req.size, s.base <= req.base, req.base + m <= End(s)
    PROVE  m <= capture.captured.size
<1> DEFINE n == capture.captured.size
<1>1. req.base \in Nat /\ req.size \in Nat
  BY GivenTypes DEF IsRange
<1>2. n \in 0..req.size /\ (n < req.size => Backers(req.base + n) = {})
  BY CapturedBytesAre
<1>3. s.base \in Int /\ End(s) \in Int
  BY DEF Segments, End
<1> HIDE DEF n
<1>4. ASSUME n < m PROVE FALSE
  <2>1. ContainsAddress(s, req.base + n)
    BY <1>1, <1>2, <1>3, <1>4 DEF ContainsAddress
  <2>2. i \in Backers(req.base + n)
    BY <2>1 DEF Backers, Kept
  <2> QED BY <1>1, <1>2, <1>4, <2>2
<1> QED BY <1>1, <1>2, <1>4 DEF n

\* The place is settled, before any byte is read.
LEMMA ResolveStep == ASSUME IInv, Resolve PROVE IInv'
<1> DEFINE views == IF analyzer \in SegmentUnits THEN Views(table) ELSE Views(regions)
           k == Containing(views, req.base)
           held == VirtualRange(views[k].base, views[k].size)
<1>1. /\ UNCHANGED <<Dump, capture, spent, got, ledger, closures>>
      /\ pc = "resolve" /\ k # 0 /\ prevented' = spent
      /\ place' = [boundary |-> Boundary(req, held),
                   kind |-> IF analyzer \in SegmentUnits THEN "" ELSE views[k].kind]
      /\ pc' = IF analyzer \in SegmentUnits \union {"pipe"} THEN "gate" ELSE "read"
  BY DEF Resolve
<1>2. Given' /\ analyzer' = analyzer /\ Scopes' = Scopes /\ Budgets' = Budgets
  BY <1>1, AdapterFrame
<1>3. table \in Seq(Segments) /\ IsRange(req) /\ Entries(regions) /\ Entries(table) /\ Given
  BY GivenTypes, SegmentsAreEntries DEF IInv
<1>4. PICK t : /\ Entries(t) /\ SortedBy(views, t, Kept(t))
               /\ analyzer \in SegmentUnits => t = table
  BY <1>3, ViewsSorted
<1> HIDE DEF views
<1>5. Len(views) \in Nat /\ k \in 1..Len(views) /\ ContainsAddress(views[k], req.base)
  BY <1>1, <1>4, ContainingIs DEF SortedBy
<1> HIDE DEF k
<1>6. PICK i \in Kept(t) : views[k] = t[i]
  BY <1>4, <1>5 DEF SortedBy
<1>7. views[k].base \in Nat /\ views[k].size \in Nat
  BY <1>4, <1>6, EntryTypes DEF Kept
<1>8. /\ held.base = views[k].base /\ held.size = views[k].size /\ End(held) = End(views[k])
      /\ ContainsAddress(held, req.base)
  BY <1>5 DEF VirtualRange, ContainsAddress, End
<1> HIDE DEF held
<1>9. Eval' = Boundary(req, held).eval /\ place'.boundary = Boundary(req, held)
  BY <1>1 DEF Eval
<1>10. /\ Eval'.base = req.base /\ Eval'.size \in 1..req.size
       /\ place'.boundary.truncated = (Eval'.size < req.size) /\ End(Eval') <= End(held)
  BY <1>3, <1>7, <1>8, <1>9, BoundaryIs
<1>11. ASSUME analyzer \in SegmentUnits
       PROVE  Containing(Views(table), req.base) # 0 /\ Eval'.size <= capture.captured.size
  <2>1. t = table /\ views = Views(table)
    BY <1>4, <1>11 DEF views
  <2>2. table[i] \in Segments
    BY <1>3, <1>6, <2>1 DEF Kept
  <2>3. req.base + Eval'.size <= End(table[i])
    BY <1>6, <1>8, <1>10, <2>1 DEF End
  <2>4. table[i].base <= req.base
    BY <1>5, <1>6, <2>1 DEF ContainsAddress
  <2>5. Eval'.size <= capture.captured.size
    BY <1>3, <1>6, <1>10, <2>1, <2>2, <2>3, <2>4, HeldIsCaptured
  <2> QED BY <1>1, <2>1, <2>5 DEF k
<1>12. PlaceInv'
  <2>1. UNCHANGED <<table, req, analyzer, capture>>
    BY <1>1 DEF Dump
  <2> QED BY <1>10, <1>11, <2>1 DEF PlaceInv
<1>13. ScanInv /\ closures = <<>>
  BY <1>1 DEF IInv
<1>14. got = -1 /\ got' = -1
  BY <1>1, <1>13 DEF ScanInv, GotInv, Unmeasured
<1>15. Eval'.size \in Nat
  BY <1>3, <1>10 DEF IsRange
<1>16. pc' \in {"gate", "read"}
  BY <1>1
<1>17. GotInv'
  BY <1>14, <1>15, <1>16 DEF GotInv, Unread, Scanning, Unmeasured
<1>18. ASSUME NEW s \in Scopes PROVE ScopeInv(s)'
  <2>1. ledger[s] = NewLedger /\ ledger'[s] = NewLedger
    BY <1>1, <1>13 DEF ScanInv, ScopeInv, Unread
  <2>2. /\ ~NewLedger.scanned /\ ~NewLedger.failed /\ ~NewLedger.short /\ ~NewLedger.cut
        /\ NewLedger.cursor = Unmeasured /\ NewLedger.applied = 0 /\ ~NewLedger.withheld
    BY DEF NewLedger
  <2> QED BY <1>16, <2>1, <2>2 DEF ScopeInv, Unread
<1>19. ScanInv'
  BY <1>1, <1>2, <1>12, <1>13, <1>17, <1>18 DEF ScanInv
<1>20. PcInv'
  BY <1>1, <1>2, <1>16 DEF PcInv
<1>21. spent' \subseteq Budgets /\ prevented' \subseteq spent'
  BY <1>1 DEF IInv
<1> QED BY <1>1, <1>2, <1>13, <1>16, <1>19, <1>20, <1>21 DEF IInv

\* The fields of a ledger nobody has written in.
LEMMA NewLedgerIs ==
    /\ ~NewLedger.scanned /\ ~NewLedger.failed /\ ~NewLedger.short /\ ~NewLedger.cut
    /\ NewLedger.cursor = Unmeasured /\ NewLedger.applied = 0 /\ ~NewLedger.gap
    /\ NewLedger.details = {} /\ ~NewLedger.leads /\ ~NewLedger.withheld
  BY DEF NewLedger

\* What a step after the resolution owes the invariant.
LEMMA StepOwes ==
    ASSUME IInv, pc # "done", pc # "resolve", UNCHANGED <<Dump, capture, place, closures>>,
           pc' # "done", PcInv', prevented' \subseteq spent', spent' \subseteq Budgets,
           GotInv', ledger' \in [Scopes -> LedgerType], \A s \in Scopes : ScopeInv(s)'
    PROVE  IInv'
<1>1. Given' /\ analyzer' = analyzer /\ Scopes' = Scopes /\ Budgets' = Budgets
  BY AdapterFrame
<1>2. PlaceInv'
  BY Frame DEF IInv, ScanInv
<1>3. closures' = <<>>
  BY DEF IInv
<1>4. ScanInv'
  BY <1>1, <1>2 DEF ScanInv
<1> QED BY <1>1, <1>3, <1>4 DEF IInv

\* The bytes in hand, by what holds of a state that is not done.
LEMMA HandTypes ==
    ASSUME IInv, pc # "done"
    PROVE  /\ got \in Int /\ got >= -1 /\ capture.captured.size \in Nat /\ req.size \in Nat
           /\ pc # "resolve" => /\ PlaceInv /\ Eval.size \in Nat /\ Eval.size >= 1
                                /\ got <= Eval.size /\ Eval.size <= req.size
           /\ ~Unread => got <= capture.captured.size
           /\ ledger \in [Scopes -> LedgerType] /\ \A s \in Scopes : ScopeInv(s)
           /\ analyzer \in AnalyzerNames
<1>1. Given /\ ScanInv
  BY DEF IInv
<1>2. IsRange(req) /\ capture.captured.size \in 0..req.size /\ analyzer \in AnalyzerNames
  BY <1>1, GivenTypes, CapturedBytesAre
<1>3. req.size \in Nat /\ capture.captured.size \in Nat
  BY <1>2 DEF IsRange
<1>4. GotInv
  BY <1>1 DEF ScanInv
<1>5. pc # "resolve" => PlaceInv /\ Eval.size \in 1..req.size
  BY <1>1 DEF ScanInv, PlaceInv
<1>6. got \in Int /\ got >= -1 /\ (pc # "resolve" => got <= Eval.size)
      /\ (~Unread => got <= capture.captured.size)
  BY <1>4 DEF GotInv, Unmeasured
<1>7. pc # "resolve" => Eval.size \in Nat /\ Eval.size >= 1 /\ Eval.size <= req.size
  BY <1>3, <1>5
<1> QED BY <1>1, <1>2, <1>3, <1>5, <1>6, <1>7 DEF ScanInv

\* A gate lets the read begin, or leaves every scope without one.
LEMMA GateStep == ASSUME IInv, Gate PROVE IInv'
<1>1. /\ UNCHANGED <<Dump, capture, place, spent, prevented, got, closures>>
      /\ pc = "gate" /\ pc' \in {"close", "read"}
      /\ \/ UNCHANGED ledger
         \/ pc' = "close" /\ ledger' = [s \in Scopes |-> [NewLedger EXCEPT !.cut = TRUE]]
  BY DEF Gate
<1>2. /\ got \in Int /\ capture.captured.size \in Nat /\ Eval.size \in Nat
      /\ ledger \in [Scopes -> LedgerType]
  BY <1>1, HandTypes
<1>3. Eval' = Eval
  BY <1>1, Frame
<1>4. got = -1 /\ got' = -1
  BY <1>1 DEF IInv, ScanInv, GotInv, Unmeasured
<1>5. GotInv'
  BY <1>1, <1>2, <1>3, <1>4 DEF GotInv, Unread, Scanning, Unmeasured
<1>6. PcInv'
  <2>1. analyzer' = analyzer
    BY <1>1 DEF Dump
  <2> QED BY <1>1, <2>1 DEF PcInv, IInv
<1> DEFINE cut == [NewLedger EXCEPT !.cut = TRUE]
<1>7. cut \in LedgerType
  BY NewLedgerType DEF LedgerType
<1>8. /\ ~cut.scanned /\ ~cut.failed /\ cut.cut /\ cut.cursor = Unmeasured
      /\ cut.applied = 0 /\ ~cut.short /\ ~cut.withheld
  BY NewLedgerIs DEF NewLedger
<1>9. ledger' \in [Scopes -> LedgerType]
  BY <1>1, <1>2, <1>7
<1>10. ASSUME NEW s \in Scopes PROVE ScopeInv(s)'
  <2>1. ledger[s] = NewLedger
    BY <1>1 DEF IInv, ScanInv, ScopeInv, Unread
  <2>2. ledger'[s] = NewLedger \/ (pc' = "close" /\ ledger'[s] = cut)
    BY <1>1, <2>1
  <2> HIDE DEF cut
  <2>3. CASE ledger'[s] = NewLedger
    BY <1>1, <1>4, <2>3, NewLedgerIs DEF ScopeInv, Unread
  <2>4. CASE pc' = "close" /\ ledger'[s] = cut
    BY <1>4, <1>8, <2>4 DEF ScopeInv, Unread
  <2> QED BY <2>2, <2>3, <2>4
<1>11. prevented' \subseteq spent' /\ spent' \subseteq Budgets
  BY <1>1 DEF IInv
<1> QED BY <1>1, <1>5, <1>6, <1>9, <1>10, <1>11, StepOwes

\* A slice is read in one go, whole, short or not at all.
LEMMA ReadSliceStep == ASSUME IInv, ReadSlice PROVE IInv'
<1>1. /\ UNCHANGED <<Dump, capture, place, spent, prevented, closures>>
      /\ pc = "read" /\ analyzer \in SegmentUnits
      /\ pc' = IF got' = 0 THEN "close" ELSE "search"
      /\ ledger' = [s \in Scopes |-> [NewLedger EXCEPT !.failed = (got' = 0),
                                                     !.short  = (0 < got' /\ got' < Eval.size),
                                                     !.scanned = (0 < got')]]
  BY DEF ReadSlice
<1>2. got' = 0 \/ got' \in 0..Eval.size
  BY DEF ReadSlice
<1>3. capture.captured.size \in Nat /\ Eval.size \in Nat /\ PlaceInv
  BY <1>1, HandTypes
<1>4. got' \in Nat /\ got' <= Eval.size /\ got' <= capture.captured.size
  BY <1>1, <1>2, <1>3 DEF PlaceInv
<1>5. Eval' = Eval /\ Scopes' = Scopes
  BY <1>1, Frame
<1>6. analyzer' = analyzer
  BY <1>1 DEF Dump
<1>7. PcInv'
  BY <1>1, <1>6 DEF PcInv
<1>8. GotInv'
  BY <1>1, <1>3, <1>4, <1>5 DEF GotInv, Unread, Scanning, Unmeasured
<1>9. ASSUME NEW s \in Scopes PROVE ledger'[s] \in LedgerType /\ ScopeInv(s)'
  <2> DEFINE f == (got' = 0)
             h == (0 < got' /\ got' < Eval.size)
             c == (0 < got')
  <2>1. ledger'[s] = [NewLedger EXCEPT !.failed = f, !.short = h, !.scanned = c]
    BY <1>1
  <2>2. f \in BOOLEAN /\ h \in BOOLEAN /\ c \in BOOLEAN
    OBVIOUS
  <2> HIDE DEF f, h, c
  <2>3. ledger'[s] \in LedgerType
    BY <2>1, <2>2, NewLedgerType DEF LedgerType
  <2>4. /\ (ledger'[s].scanned = c) /\ (ledger'[s].failed = f) /\ (ledger'[s].short = h)
        /\ ~ledger'[s].cut /\ ledger'[s].cursor = Unmeasured /\ ledger'[s].applied = 0
        /\ ledger'[s].details = {} /\ ~ledger'[s].gap /\ ~ledger'[s].withheld
    BY <2>1 DEF NewLedger
  <2>5. pc' \in {"close", "search"} /\ (pc' = "close" => ~c)
    BY <1>1 DEF c
  <2>6. /\ (c <=> got' >= 1) /\ (f => got' <= 0) /\ (got' >= 1 => (h <=> got' < Eval.size))
        /\ 0 <= got'
    BY <1>3, <1>4 DEF f, h, c
  <2>7. pc' = "search" => ~ledger'[s].cut /\ analyzer' \in SegmentUnits
    BY <1>1, <1>6, <2>4
  <2>8. ScopeInv(s)'
    BY <1>5, <1>6, <2>4, <2>5, <2>6, <2>7 DEF ScopeInv, Unread
  <2> QED BY <2>3, <2>8
<1>10. ledger' \in [Scopes -> LedgerType]
  BY <1>1, <1>9
<1>11. prevented' \subseteq spent' /\ spent' \subseteq Budgets
  BY <1>1 DEF IInv
<1> QED BY <1>1, <1>7, <1>8, <1>9, <1>10, <1>11, StepOwes

\* A chunk adds to the bytes in hand.
LEMMA ReadChunkStep == ASSUME IInv, ReadChunk PROVE IInv'
<1> DEFINE want == ChunkAt(Eval.base + Read, Eval.size - Read)
<1>1. /\ UNCHANGED <<Dump, pc, capture, place, spent, prevented, ledger, closures>>
      /\ pc = "read" /\ Read < Eval.size
  BY DEF ReadChunk
<1>2. PICK n \in 1..want : got' = Read + n
  BY DEF ReadChunk
<1>3. want > 0
  BY DEF ReadChunk
<1>4. /\ got \in Int /\ got >= -1 /\ Eval.size \in Nat /\ PlaceInv
      /\ ledger \in [Scopes -> LedgerType] /\ \A s \in Scopes : ScopeInv(s)
  BY <1>1, HandTypes
<1>5. Read \in Nat
  BY <1>4 DEF Read, Unmeasured
<1>6. want <= Eval.size - Read /\ want \in Int
  <2> DEFINE k == Containing(table, Eval.base + Read)
  <2>1. k # 0 => want = Min({Eval.size - Read, End(table[k]) - (Eval.base + Read)})
    BY DEF ChunkAt
  <2>2. k # 0
    BY <1>3 DEF ChunkAt
  <2>3. table \in Seq(Segments) /\ IsRange(req)
    BY GivenTypes DEF IInv
  <2>4. k \in 1..Len(table)
    BY <2>2, <2>3, ContainingIs
  <2>5. table[k] \in Segments
    BY <2>3, <2>4
  <2>6. End(table[k]) \in Int
    BY <2>5 DEF End, Segments
  <2>7. Eval.base \in Int
    BY <1>4, <2>3 DEF PlaceInv, IsRange
  <2> HIDE DEF k, want
  <2>8. Eval.size - Read \in Int /\ End(table[k]) - (Eval.base + Read) \in Int
    BY <1>4, <1>5, <2>6, <2>7
  <2> QED BY <2>1, <2>2, <2>8, MinOfTwo
<1> HIDE DEF want
<1>7. got' \in Nat /\ got' <= Eval.size
  BY <1>2, <1>4, <1>5, <1>6
<1>8. Eval' = Eval /\ Scopes' = Scopes /\ analyzer' = analyzer
  BY <1>1, Frame DEF Dump
<1>9. GotInv'
  BY <1>1, <1>7, <1>8 DEF GotInv, Unread, Scanning, Unmeasured
<1>10. PcInv'
  BY <1>1, <1>8 DEF PcInv, IInv
<1>11. ASSUME NEW s \in Scopes PROVE ScopeInv(s)'
  <2>1. ledger'[s] = NewLedger
    BY <1>1, <1>4 DEF ScopeInv, Unread
  <2> QED BY <1>1, <1>7, <2>1, NewLedgerIs DEF ScopeInv, Unread
<1>12. prevented' \subseteq spent' /\ spent' \subseteq Budgets
  BY <1>1 DEF IInv
<1> QED BY <1>1, <1>4, <1>9, <1>10, <1>11, <1>12, StepOwes

\* A chunked read ends, and every scope that shares it is told.
LEMMA ReadStopsStep == ASSUME IInv, ReadStops PROVE IInv'
<1>1. /\ UNCHANGED <<Dump, capture, place, spent, prevented, closures>>
      /\ pc = "read" /\ analyzer \notin SegmentUnits /\ got' = Clamp(Read)
      /\ pc' \in {"close", "search"} /\ (got' = 0 => pc' = "close")
      /\ ledger' = [s \in Scopes |->
                    IF Declined(s) THEN NewLedger
                    ELSE [NewLedger EXCEPT !.failed = (got' = 0),
                                           !.short  = (0 < got' /\ got' < Eval.size)]]
  BY DEF ReadStops
<1>2. /\ got \in Int /\ got >= -1 /\ capture.captured.size \in Nat
      /\ Eval.size \in Nat /\ Eval.size >= 1 /\ got <= Eval.size
  BY <1>1, HandTypes
<1>3. Read \in Nat /\ Read <= Eval.size
  BY <1>2 DEF Read, Unmeasured
<1>4. got' = IF Read <= capture.captured.size THEN Read ELSE capture.captured.size
  BY <1>1, <1>2, <1>3, MinOfTwo DEF Clamp
<1>5. got' \in Nat /\ got' <= Eval.size /\ got' <= capture.captured.size
  BY <1>2, <1>3, <1>4
<1>6. Eval' = Eval /\ Scopes' = Scopes /\ analyzer' = analyzer
      /\ \A s : Declined(s)' <=> Declined(s)
  BY <1>1, Frame DEF Dump
<1>7. PcInv'
  BY <1>1, <1>6 DEF PcInv
<1>8. GotInv'
  BY <1>1, <1>2, <1>5, <1>6 DEF GotInv, Unread, Scanning, Unmeasured
<1>9. ASSUME NEW s \in Scopes PROVE ledger'[s] \in LedgerType /\ ScopeInv(s)'
  <2>1. CASE Declined(s)
    <3>1. ledger'[s] = NewLedger
      BY <1>1, <2>1
    <3>2. Declined(s)'
      BY <1>6, <2>1
    <3>3. pc' # "c2" /\ ~Unread'
      BY <1>1 DEF Unread
    <3>4. ScopeInv(s)'
      BY <1>1, <1>5, <1>6, <3>1, <3>2, <3>3, NewLedgerIs DEF ScopeInv
    <3> QED BY <3>1, <3>4, NewLedgerType
  <2>2. CASE ~Declined(s)
    <3> DEFINE f == (got' = 0)
               h == (0 < got' /\ got' < Eval.size)
    <3>1. ledger'[s] = [NewLedger EXCEPT !.failed = f, !.short = h]
      BY <1>1, <2>2
    <3>2. f \in BOOLEAN /\ h \in BOOLEAN
      OBVIOUS
    <3> HIDE DEF f, h
    <3>3. ledger'[s] \in LedgerType
      BY <3>1, <3>2, NewLedgerType DEF LedgerType
    <3>4. /\ (ledger'[s].failed = f) /\ (ledger'[s].short = h)
          /\ ~ledger'[s].scanned /\ ~ledger'[s].cut /\ ledger'[s].cursor = Unmeasured
          /\ ledger'[s].applied = 0 /\ ledger'[s].details = {} /\ ~ledger'[s].gap
          /\ ~ledger'[s].withheld
      BY <3>1 DEF NewLedger
    <3>5. /\ (f => got' <= 0) /\ (got' >= 1 => (h <=> got' < Eval.size)) /\ 0 <= got'
      BY <1>2, <1>5 DEF f, h
    <3>6. pc' # "c2" /\ ~Unread'
      BY <1>1 DEF Unread
    <3>7. ScopeInv(s)'
      BY <1>6, <3>4, <3>5, <3>6 DEF ScopeInv
    <3> QED BY <3>3, <3>7
  <2> QED BY <2>1, <2>2
<1>10. ledger' \in [Scopes -> LedgerType]
  BY <1>1, <1>9
<1>11. prevented' \subseteq spent' /\ spent' \subseteq Budgets
  BY <1>1 DEF IInv
<1> QED BY <1>1, <1>7, <1>8, <1>9, <1>10, <1>11, StepOwes

\* What a step of a scan owes the invariant: the read is over, so what is short or
\* failed stays so, and the scope's own record says what it searched.
LEMMA SearchOwes ==
    ASSUME IInv, Scanning, UNCHANGED <<Dump, capture, place, prevented, got, closures>>,
           pc' \in {"c2", "entropy", "decode", "close"}, PcInv',
           spent \subseteq spent', spent' \subseteq Budgets,
           ledger' \in [Scopes -> LedgerType],
           \A s \in Scopes :
             LET l == ledger'[s]
             IN  /\ (l.short <=> ledger[s].short) /\ (l.failed <=> ledger[s].failed)
                 /\ l.withheld => \/ l.details # {}
                                  \/ s = "decode" /\ place.kind \notin PrivateKinds
                                  \/ s = "c2_context" /\ ~ledger'["pipe_name"].leads
                 /\ l.applied >= 0 /\ (l.scanned => l.applied <= got)
                 /\ l.cursor = Unmeasured \/ l.cursor \in 0..got
                 /\ analyzer = "cs-beacon" /\ l.scanned /\ l.cut
                      => l.applied = IF l.cursor = Unmeasured THEN 0 ELSE l.cursor
                 /\ pc' = "c2" /\ s = "c2_context" => ~l.cut
                 /\ l.scanned /\ ~l.cut /\ ~l.gap /\ l.details = {}
                      /\ ~(s = "c2_context" /\ ledger'["pipe_name"].cut) => l.applied = got
    PROVE  IInv'
<1>1. pc # "done" /\ pc # "resolve" /\ ~Unread /\ ~Unread' /\ pc' # "done" /\ pc' # "search"
  BY DEF Scanning, Unread
<1>2. /\ got \in Int /\ got <= Eval.size /\ got <= capture.captured.size
      /\ \A s \in Scopes : ScopeInv(s)
  BY <1>1, HandTypes
<1>3. got >= 1 /\ got' = got
  BY <1>1 DEF IInv, ScanInv, GotInv
<1>4. Eval' = Eval /\ Scopes' = Scopes /\ analyzer' = analyzer /\ capture' = capture
      /\ \A s : Declined(s)' <=> Declined(s)
  BY Frame DEF Dump
<1>5. GotInv'
  BY <1>1, <1>2, <1>3, <1>4 DEF GotInv, Unread, Scanning, Unmeasured
<1>6. ASSUME NEW s \in Scopes PROVE ScopeInv(s)'
  <2>1. /\ ~Declined(s) => (ledger[s].short <=> got < Eval.size)
        /\ ~ledger[s].failed
    BY <1>1, <1>2, <1>3 DEF ScopeInv
  <2> QED BY <1>1, <1>2, <1>3, <1>4, <2>1 DEF ScopeInv
<1>7. prevented' \subseteq spent'
  BY DEF IInv
<1> QED BY <1>1, <1>5, <1>6, <1>7, StepOwes

\* The bytes and the record a scan begins with.
LEMMA SearchStarts ==
    ASSUME IInv, Scanning
    PROVE  /\ got \in Nat /\ got >= 1 /\ analyzer \in AnalyzerNames
           /\ ledger \in [Scopes -> LedgerType]
           /\ spent \subseteq Budgets
           /\ \A s \in Scopes :
                /\ ScopeInv(s) /\ ledger[s] \in LedgerType
                /\ ledger[s].cursor = Unmeasured \/ ledger[s].cursor \in 0..got
                /\ pc = "search" => ~ledger[s].cut /\ ~ledger[s].gap /\ ledger[s].details = {}
                                  /\ ~ledger[s].withheld
<1>1. pc # "done"
  BY DEF Scanning
<1>2. got \in Int /\ analyzer \in AnalyzerNames /\ ledger \in [Scopes -> LedgerType]
      /\ \A s \in Scopes : ScopeInv(s)
  BY <1>1, HandTypes
<1>3. got >= 1
  BY <1>1 DEF IInv, ScanInv, GotInv
<1> QED BY <1>2, <1>3 DEF IInv, ScopeInv

\* Only a pipe's names and its C2 passes have budgets of their own names; each
\* other analyzer of a segment has the one of its scope.
LEMMA BudgetsAre ==
    ASSUME analyzer \in AnalyzerNames
    PROVE  /\ analyzer \in SegmentUnits => analyzer \in Budgets
           /\ analyzer = "pipe" => "pipe_name" \in Budgets /\ "c2_context" \in Budgets
           /\ \A s \in Scopes : Budget(s) # "" => Budget(s) \in Budgets
<1>1. \A s \in Scopes : Budget(s) # "" => Budget(s) \in Budgets
  BY DEF Budgets
<1>2. /\ Budget("cs-beacon") = "cs-beacon" /\ Budget("yara") = "yara"
      /\ Budget("pipe_name") = "pipe_name" /\ Budget("c2_context") = "c2_context"
  BY DEF Budget
<1>3. ASSUME analyzer \in SegmentUnits PROVE analyzer \in Budgets
  BY <1>1, <1>2, <1>3, ScopesAre DEF SegmentUnits
<1>4. ASSUME analyzer = "pipe" PROVE "pipe_name" \in Budgets /\ "c2_context" \in Budgets
  BY ZenonT(30), <1>1, <1>2, <1>4, ScopesAre
<1> QED BY <1>1, <1>3, <1>4

\* The beacon markers: what the cursor stands at is what was searched.
LEMMA SearchMarkersStep == ASSUME IInv, SearchMarkers PROVE IInv'
<1> DEFINE a == "cs-beacon"
<1>1. /\ UNCHANGED <<Dump, capture, place, prevented, got, closures>>
      /\ pc = "search" /\ analyzer = "cs-beacon" /\ pc' = "close"
  BY DEF SearchMarkers
<1>2. Scanning
  BY <1>1 DEF Scanning
<1>3. got \in Nat /\ ledger \in [Scopes -> LedgerType] /\ spent \subseteq Budgets
  BY <1>2, SearchStarts
<1>4. Scopes = {"cs-beacon"} /\ "cs-beacon" \in Budgets
  BY <1>1, <1>2, SearchStarts, ScopesAre, BudgetsAre DEF SegmentUnits
<1> DEFINE old == ledger["cs-beacon"]
<1>5. old \in LedgerType
  BY <1>3, <1>4
<1>5a. /\ old.cursor = Unmeasured \/ old.cursor \in 0..got
       /\ ~old.cut /\ ~old.gap /\ old.details = {} /\ ~old.withheld
  BY <1>1, <1>2, <1>4, SearchStarts
<1>6. PICK l : /\ ledger' = [ledger EXCEPT !["cs-beacon"] = l]
               /\ \/ l = [old EXCEPT !.applied = got] /\ spent' = spent
                  \/ /\ spent' = spent \union {"cs-beacon"}
                     /\ \E c \in {Unmeasured} \union 0..got :
                          l = [old EXCEPT !.cut = TRUE, !.cursor = c,
                                          !.applied = IF c = Unmeasured THEN 0 ELSE c]
  <2>1. CASE ledger' = [ledger EXCEPT ![analyzer].applied = got] /\ UNCHANGED spent
    BY <1>1, <1>3, <1>4, <2>1
  <2>2. ASSUME spent' = spent \union {analyzer}, NEW c \in {Unmeasured} \union 0..got,
               ledger' = [ledger EXCEPT ![analyzer].cut = TRUE, ![analyzer].cursor = c,
                                        ![analyzer].applied = IF c = Unmeasured THEN 0 ELSE c]
        PROVE  \E l : /\ ledger' = [ledger EXCEPT !["cs-beacon"] = l]
                      /\ spent' = spent \union {"cs-beacon"}
                      /\ l = [old EXCEPT !.cut = TRUE, !.cursor = c,
                                          !.applied = IF c = Unmeasured THEN 0 ELSE c]
    <3> DEFINE n == IF c = Unmeasured THEN 0 ELSE c
    <3>1. ledger' = [ledger EXCEPT !["cs-beacon"].cut = TRUE, !["cs-beacon"].cursor = c,
                                   !["cs-beacon"].applied = n]
      BY <1>1, <2>2
    <3> HIDE DEF n
    <3>2. ledger' = [ledger EXCEPT !["cs-beacon"] =
                        [old EXCEPT !.cut = TRUE, !.cursor = c, !.applied = n]]
      BY <1>3, <1>4, <3>1
    <3> QED BY <1>1, <2>2, <3>2 DEF n
  <2> QED BY ZenonT(30), <2>1, <2>2 DEF SearchMarkers
<1> HIDE DEF old
<1>7. ledger'["cs-beacon"] = l
  BY <1>3, <1>4, <1>6
<1> DEFINE Same == /\ l.short = old.short /\ l.failed = old.failed /\ l.gap = old.gap
                   /\ l.details = old.details /\ l.scanned = old.scanned
                   /\ l.withheld = old.withheld
           AsFound ==
             /\ l.applied \in 0..got
             /\ l.cursor = Unmeasured \/ l.cursor \in 0..got
             /\ l.cut => l.applied = IF l.cursor = Unmeasured THEN 0 ELSE l.cursor
             /\ ~l.cut => l.applied = got
<1>8. l \in LedgerType /\ Same /\ AsFound
  <2>1. CASE l = [old EXCEPT !.applied = got] /\ spent' = spent
    BY <1>3, <1>5, <1>5a, <2>1 DEF LedgerType
  <2>2. ASSUME NEW c \in {Unmeasured} \union 0..got, NEW n, n = IF c = Unmeasured THEN 0 ELSE c,
               l = [old EXCEPT !.cut = TRUE, !.cursor = c, !.applied = n]
        PROVE  l \in LedgerType /\ Same /\ AsFound
    <3>1. c \in Int /\ n \in 0..got
      BY <1>3, <2>2 DEF Unmeasured
    <3>2. l \in LedgerType
      <4>1. n \in Int
        BY <1>3, <3>1
      <4> QED BY <1>5, <2>2, <3>1, <4>1 DEF LedgerType
    <3>3. /\ l.short = old.short /\ l.failed = old.failed /\ l.gap = old.gap
          /\ l.details = old.details /\ l.applied = n /\ l.scanned = old.scanned
          /\ l.cursor = c /\ l.cut /\ l.withheld = old.withheld
      BY <1>5, <2>2 DEF LedgerType
    <3> QED BY <2>2, <3>1, <3>2, <3>3
  <2> QED BY <1>6, <2>1, <2>2
<1>9. ledger' \in [Scopes -> LedgerType]
  BY <1>3, <1>6, <1>8
<1>10. PcInv'
  BY <1>1 DEF PcInv
<1>11. spent \subseteq spent' /\ spent' \subseteq Budgets
  BY <1>3, <1>4, <1>6
<1> QED BY <1>1, <1>2, <1>4, <1>5a, <1>7, <1>8, <1>9, <1>10, <1>11, SearchOwes DEF old

\* The YARA rules see all bytes in hand or the stop is recorded.
LEMMA MatchRulesStep == ASSUME IInv, MatchRules PROVE IInv'
<1>1. /\ UNCHANGED <<Dump, capture, place, prevented, got, closures>>
      /\ pc = "search" /\ analyzer = "yara" /\ pc' = "close"
  BY DEF MatchRules
<1>2. Scanning
  BY <1>1 DEF Scanning
<1>3. got \in Nat /\ ledger \in [Scopes -> LedgerType] /\ spent \subseteq Budgets
  BY <1>2, SearchStarts
<1>4. Scopes = {"yara"} /\ "yara" \in Budgets
  BY <1>1, <1>2, SearchStarts, ScopesAre, BudgetsAre DEF SegmentUnits
<1> DEFINE old == ledger["yara"]
<1>5. /\ old \in LedgerType /\ (old.cursor = Unmeasured \/ old.cursor \in 0..got)
      /\ ~old.withheld
  BY <1>1, <1>2, <1>3, <1>4, SearchStarts
<1>6. PICK gap \in BOOLEAN, cut \in BOOLEAN,
           details \in SUBSET {"rule_compile_failed", "match_context_unverified"} :
        /\ ledger' = [ledger EXCEPT ![analyzer].gap = gap, ![analyzer].cut = cut,
                         ![analyzer].details = details,
                         ![analyzer].applied =
                            IF gap \/ cut \/ "rule_compile_failed" \in details THEN 0 ELSE got]
        /\ spent' = IF cut THEN spent \union {analyzer} ELSE spent
  BY DEF MatchRules
<1> DEFINE n == IF gap \/ cut \/ "rule_compile_failed" \in details THEN 0 ELSE got
<1>6a. ledger' = [ledger EXCEPT ![analyzer].gap = gap, ![analyzer].cut = cut,
                         ![analyzer].details = details, ![analyzer].applied = n]
  BY <1>6
<1>12. n \in 0..got /\ (~gap /\ ~cut /\ details = {} => n = got)
  BY <1>3
<1> HIDE DEF n
<1> DEFINE l == [old EXCEPT !.gap = gap, !.cut = cut, !.details = details, !.applied = n]
<1>7. ledger' = [ledger EXCEPT !["yara"] = l]
  BY <1>1, <1>3, <1>4, <1>6a
<1>8. ledger'["yara"] = l
  BY <1>3, <1>4, <1>7
<1> HIDE DEF old
<1>9. /\ l.short = old.short /\ l.failed = old.failed /\ l.cursor = old.cursor
      /\ l.gap = gap /\ l.cut = cut /\ l.details = details /\ l.applied = n /\ ~l.withheld
  BY <1>5 DEF LedgerType
<1>10. l \in LedgerType
  <2>1. n \in Int
    BY <1>3, <1>12
  <2>2. details \in SUBSET Details
    BY DEF Details
  <2> QED BY <1>5, <2>1, <2>2 DEF LedgerType
<1> HIDE DEF l
<1>11. ledger' \in [Scopes -> LedgerType]
  BY <1>3, <1>7, <1>10
<1>13. PcInv'
  BY <1>1 DEF PcInv
<1>14. spent \subseteq spent' /\ spent' \subseteq Budgets
  BY <1>1, <1>3, <1>4, <1>6
<1> QED BY <1>1, <1>2, <1>4, <1>5, <1>8, <1>9, <1>11, <1>12, <1>13, <1>14, SearchOwes DEF old

\* The pattern scan of a module's bytes.
LEMMA ScanStringsStep == ASSUME IInv, ScanStrings PROVE IInv'
<1>1. /\ UNCHANGED <<Dump, capture, place, spent, prevented, got, closures>>
      /\ pc = "search" /\ analyzer = "stomping" /\ pc' = "close"
  BY DEF ScanStrings
<1>2. Scanning
  BY <1>1 DEF Scanning
<1>3. got \in Nat /\ ledger \in [Scopes -> LedgerType] /\ spent \subseteq Budgets
  BY <1>2, SearchStarts
<1>4. Scopes = {"stomping"}
  BY <1>1, <1>2, SearchStarts, ScopesAre
<1> DEFINE old == ledger["stomping"]
<1>5. old \in LedgerType /\ (old.cursor = Unmeasured \/ old.cursor \in 0..got)
  BY <1>1, <1>2, <1>3, <1>4, SearchStarts
<1>6. PICK withheld \in BOOLEAN :
         ledger' = [ledger EXCEPT ![analyzer].scanned = TRUE,
                      ![analyzer].applied = got, ![analyzer].withheld = withheld,
                      ![analyzer].details = IF withheld THEN {"pattern_set_withheld"} ELSE {}]
  BY DEF ScanStrings
<1> DEFINE details == IF withheld THEN {"pattern_set_withheld"} ELSE {}
<1>6a. ledger' = [ledger EXCEPT ![analyzer].scanned = TRUE, ![analyzer].applied = got,
                                ![analyzer].withheld = withheld, ![analyzer].details = details]
  BY <1>6
<1>12. (withheld => details # {}) /\ details \in SUBSET Details
  BY DEF Details
<1> HIDE DEF details
<1> DEFINE l == [old EXCEPT !.scanned = TRUE, !.applied = got, !.withheld = withheld,
                            !.details = details]
<1>7. ledger' = [ledger EXCEPT !["stomping"] = l]
  BY <1>1, <1>3, <1>4, <1>6a
<1>8. ledger'["stomping"] = l
  BY <1>3, <1>4, <1>7
<1> HIDE DEF old
<1>9. /\ l.short = old.short /\ l.failed = old.failed /\ l.cursor = old.cursor
      /\ l.details = details /\ l.applied = got /\ l.withheld = withheld
  BY <1>5 DEF LedgerType
<1>10. l \in LedgerType
  <2>1. got \in Int
    BY <1>3
  <2> QED BY <1>5, <1>12, <2>1 DEF LedgerType
<1> HIDE DEF l
<1>11. ledger' \in [Scopes -> LedgerType]
  BY <1>3, <1>7, <1>10
<1>13. PcInv'
  BY <1>1 DEF PcInv
<1> QED BY <1>1, <1>2, <1>3, <1>4, <1>5, <1>8, <1>9, <1>11, <1>12, <1>13, SearchOwes DEF old

\* The pipe names, first of the two scopes on one read.
LEMMA MatchNamesStep == ASSUME IInv, MatchNames PROVE IInv'
<1>1. /\ UNCHANGED <<Dump, capture, place, prevented, got, closures>>
      /\ pc = "search" /\ analyzer = "pipe" /\ pc' = "c2"
  BY DEF MatchNames
<1>2. Scanning
  BY <1>1 DEF Scanning
<1>3. got \in Nat /\ ledger \in [Scopes -> LedgerType] /\ spent \subseteq Budgets
  BY <1>2, SearchStarts
<1>4. Scopes = {"pipe_name", "c2_context"} /\ "pipe_name" \in Budgets
  BY <1>1, <1>2, SearchStarts, ScopesAre, BudgetsAre
<1> DEFINE examined == "pipe_name" \notin spent
<1>5. PICK cut \in BOOLEAN, capped \in BOOLEAN, leads \in BOOLEAN :
         LET stops == cut \/ ~examined
         IN /\ leads => examined /\ place.kind # "system"
            /\ capped => examined
            /\ ledger' = [s \in Scopes |->
                  [ledger[s] EXCEPT !.scanned = examined, !.leads = leads,
                      !.cut = (s = "pipe_name" /\ stops),
                      !.details = IF capped THEN {"match_cap_reached"} ELSE {},
                      !.withheld = (s = "c2_context" /\ ~leads),
                      !.applied = IF stops \/ capped THEN 0 ELSE got]]
            /\ spent' = IF cut THEN spent \union {"pipe_name"} ELSE spent
  BY DEF MatchNames
<1> DEFINE stops == cut \/ ~examined
           n == IF stops \/ capped THEN 0 ELSE got
           details == IF capped THEN {"match_cap_reached"} ELSE {}
<1>5a. ledger' = [s \in Scopes |->
                  [ledger[s] EXCEPT !.scanned = examined, !.leads = leads,
                      !.cut = (s = "pipe_name" /\ stops),
                      !.details = details, !.withheld = (s = "c2_context" /\ ~leads),
                      !.applied = n]]
  BY <1>5
<1>6. examined \in BOOLEAN /\ n \in Int /\ n \in 0..got /\ details \in SUBSET Details
      /\ stops \in BOOLEAN /\ (~stops /\ details = {} => n = got)
  BY <1>3 DEF Details
<1> HIDE DEF examined, stops, n, details
<1>7. ASSUME NEW s \in Scopes
      PROVE  /\ ledger'[s] \in LedgerType
             /\ ledger'[s].short = ledger[s].short /\ ledger'[s].failed = ledger[s].failed
             /\ ledger'[s].cursor = ledger[s].cursor /\ ledger'[s].details = details
             /\ ledger'[s].applied = n /\ (ledger'[s].cut = (s = "pipe_name" /\ stops))
             /\ (ledger'[s].withheld => s = "c2_context" /\ ~leads) /\ ledger'[s].leads = leads
  <2> DEFINE c == (s = "pipe_name" /\ stops)
             w == (s = "c2_context" /\ ~leads)
             old == ledger[s]
  <2>1. ledger'[s] = [old EXCEPT !.scanned = examined, !.leads = leads, !.cut = c,
                                 !.details = details, !.withheld = w, !.applied = n]
    BY <1>5a
  <2>2. old \in LedgerType /\ c \in BOOLEAN /\ w \in BOOLEAN
    BY <1>3
  <2> HIDE DEF c, w, old
  <2>3. ledger'[s] \in LedgerType
    BY <1>6, <2>1, <2>2 DEF LedgerType
  <2>4. /\ ledger'[s].short = old.short /\ ledger'[s].failed = old.failed
        /\ ledger'[s].cursor = old.cursor /\ ledger'[s].details = details
        /\ ledger'[s].applied = n /\ ledger'[s].cut = c
        /\ ledger'[s].withheld = w /\ ledger'[s].leads = leads
    BY <2>1, <2>2 DEF LedgerType
  <2> QED BY <2>3, <2>4 DEF c, w, old
<1>8. ledger' \in [Scopes -> LedgerType]
  <2>1. /\ DOMAIN ledger' = Scopes /\ ledger' = [s \in Scopes |-> ledger'[s]]
    BY <1>5a
  <2> QED BY <1>7, <2>1
<1>9. PcInv'
  <2>1. analyzer' = "pipe"
    BY <1>1 DEF Dump
  <2> QED BY <1>1, <2>1 DEF PcInv
<1>10. spent \subseteq spent' /\ spent' \subseteq Budgets
  BY <1>3, <1>4, <1>5
<1>11. \A s \in Scopes : ledger[s].cursor = Unmeasured \/ ledger[s].cursor \in 0..got
  BY <1>2, SearchStarts
<1>12. ASSUME NEW s \in Scopes
       PROVE  /\ s = "c2_context" => ~ledger'[s].cut
              /\ ledger'[s].withheld => s = "c2_context" /\ ~ledger'["pipe_name"].leads
              /\ ~ledger'[s].cut /\ ledger'[s].details = {}
                   /\ ~(s = "c2_context" /\ ledger'["pipe_name"].cut) => ledger'[s].applied = got
  BY <1>4, <1>6, <1>7
<1> QED BY <1>1, <1>2, <1>6, <1>7, <1>8, <1>9, <1>10, <1>11, <1>12, SearchOwes

\* The C2 context, which is cut where the pipe names were.
LEMMA GatherC2Step == ASSUME IInv, GatherC2 PROVE IInv'
<1>1. /\ UNCHANGED <<Dump, capture, place, prevented, got, closures>>
      /\ pc = "c2" /\ pc' = "close"
  BY DEF GatherC2
<1>2. Scanning
  BY <1>1 DEF Scanning
<1>3. /\ got \in Nat /\ ledger \in [Scopes -> LedgerType] /\ spent \subseteq Budgets
      /\ analyzer = "pipe" /\ got >= 1
  BY <1>1, <1>2, SearchStarts DEF IInv, PcInv
<1>4. Scopes = {"pipe_name", "c2_context"} /\ "c2_context" \in Budgets
  BY <1>2, <1>3, SearchStarts, ScopesAre, BudgetsAre
<1> DEFINE old == ledger["c2_context"]
           runs == old.leads
<1>5. PICK cut \in BOOLEAN, capped \in BOOLEAN :
         LET stops == runs /\ (cut \/ "c2_context" \in spent)
         IN /\ cut \/ capped => runs
            /\ ledger' = [ledger EXCEPT !["c2_context"].cut = stops,
                 !["c2_context"].details = @ \union (IF capped THEN {"context_only_cap_reached"} ELSE {}),
                 !["c2_context"].applied = IF stops \/ capped THEN 0 ELSE @]
            /\ spent' = IF cut THEN spent \union {"c2_context"} ELSE spent
  BY DEF GatherC2
<1> DEFINE stops == runs /\ (cut \/ "c2_context" \in spent)
           extra == IF capped THEN {"context_only_cap_reached"} ELSE {}
           details == old.details \union extra
           n == IF stops \/ capped THEN 0 ELSE old.applied
           l == [old EXCEPT !.cut = stops, !.details = details, !.applied = n]
<1>5a. ledger' = [ledger EXCEPT !["c2_context"] = l]
  <2>2. ledger' = [ledger EXCEPT !["c2_context"].cut = stops,
                      !["c2_context"].details = @ \union extra,
                      !["c2_context"].applied = IF stops \/ capped THEN 0 ELSE @]
    BY <1>5
  <2> HIDE DEF stops, extra
  <2>3. ledger' = [ledger EXCEPT !["c2_context"] =
                     [old EXCEPT !.cut = stops, !.details = old.details \union extra,
                                 !.applied = IF stops \/ capped THEN 0 ELSE old.applied]]
    BY <1>3, <1>4, <2>2 DEF LedgerType
  <2> QED BY <2>3
<1>6. /\ old \in LedgerType /\ ScopeInv("c2_context")
      /\ (old.cursor = Unmeasured \/ old.cursor \in 0..got)
  BY <1>2, <1>3, <1>4, SearchStarts
<1>7. ~old.cut /\ old.applied >= 0 /\ old.applied \in Int
      /\ (old.scanned => old.applied <= got)
      /\ (old.scanned /\ ~old.gap /\ old.details = {} /\ ~ledger["pipe_name"].cut
            => old.applied = got)
      /\ (old.withheld => old.details # {} \/ ~ledger["pipe_name"].leads)
  BY <1>1, <1>6 DEF ScopeInv, LedgerType
<1>8. ledger'["c2_context"] = l /\ ledger'["pipe_name"] = ledger["pipe_name"]
  <2> HIDE DEF l
  <2> QED BY <1>3, <1>4, <1>5a
<1>9. /\ stops \in BOOLEAN /\ n \in Int /\ details \in SUBSET Details /\ n >= 0
      /\ (old.scanned => n <= got)
      /\ (~stops /\ details = {} => n = old.applied) /\ (details = {} => old.details = {})
  <2>1. old.details \in SUBSET Details /\ old.leads \in BOOLEAN
    BY <1>6 DEF LedgerType
  <2>2. extra \in SUBSET Details /\ (extra = {} => ~capped)
    BY DEF Details
  <2>3. n = 0 \/ n = old.applied
    OBVIOUS
  <2>4. ~stops /\ ~capped => n = old.applied
    OBVIOUS
  <2> HIDE DEF n, extra, old
  <2>5. stops \in BOOLEAN
    BY <2>1
  <2> QED BY <1>3, <1>7, <2>1, <2>2, <2>3, <2>4, <2>5
<1> HIDE DEF old, n, stops, details
<1>10. /\ l \in LedgerType
       /\ l.short = old.short /\ l.failed = old.failed /\ l.cursor = old.cursor
       /\ l.gap = old.gap /\ l.scanned = old.scanned
       /\ l.cut = stops /\ l.details = details /\ l.applied = n /\ l.withheld = old.withheld
  BY <1>6, <1>9 DEF LedgerType
<1>11. ledger' \in [Scopes -> LedgerType]
  <2> HIDE DEF l
  <2> QED BY <1>3, <1>4, <1>5a, <1>10
<1> HIDE DEF l
<1>12. /\ l.scanned /\ ~l.cut /\ ~l.gap /\ l.details = {} /\ ~ledger["pipe_name"].cut
            => l.applied = got
       /\ l.scanned => l.applied <= got
       /\ l.applied >= 0
       /\ l.withheld => l.details # {} \/ ~ledger["pipe_name"].leads
  BY <1>7, <1>9, <1>10
<1>13. PcInv'
  BY <1>1 DEF PcInv
<1>14. spent \subseteq spent' /\ spent' \subseteq Budgets
  BY <1>3, <1>4, <1>5
<1>15. /\ ledger["pipe_name"].applied >= 0
       /\ (ledger["pipe_name"].scanned => ledger["pipe_name"].applied <= got)
       /\ (ledger["pipe_name"].cursor = Unmeasured \/ ledger["pipe_name"].cursor \in 0..got)
       /\ LET p == ledger["pipe_name"]
          IN /\ p.scanned /\ ~p.cut /\ ~p.gap /\ p.details = {} => p.applied = got
             /\ p.withheld => p.details # {}
  <2>1. ScopeInv("pipe_name")
    BY <1>2, <1>4, SearchStarts
  <2> QED BY <1>1, <2>1 DEF ScopeInv
<1>16. \A s \in Scopes : s = "pipe_name" \/ s = "c2_context"
  BY <1>4
<1> QED BY <1>1, <1>2, <1>3, <1>6, <1>8, <1>10, <1>11, <1>12, <1>13, <1>14, <1>15, <1>16,
           SearchOwes DEF old

\* One layer of the obfuscation hunter writes its own record and no other.
LEMMA LayerStep ==
    ASSUME IInv, Scanning, NEW scope \in Scopes, Layer(scope), analyzer = "obfuscation",
           UNCHANGED <<Dump, capture, place, prevented, got, closures>>,
           pc' \in {"entropy", "decode", "close"}, PcInv'
    PROVE  IInv'
<1>1. /\ got \in Nat /\ got >= 1 /\ ledger \in [Scopes -> LedgerType] /\ spent \subseteq Budgets
      /\ Scopes = {"sleep_mask", "entropy", "decode"}
  BY SearchStarts, ScopesAre
<1> DEFINE old     == ledger[scope]
           before  == Budget(scope) \in spent
           applies == ~Declined(scope)
           ran     == applies /\ ~before /\ (scope = "entropy" => got >= MinInput)
<1>2. PICK details \in SUBSET LayerDetails(scope), cut \in BOOLEAN :
         LET stops == applies /\ Budget(scope) # "" /\ (cut \/ before)
         IN /\ ledger' = [ledger EXCEPT ![scope].before = before, ![scope].scanned = ran,
                            ![scope].cut = stops,
                            ![scope].details = IF ran THEN details ELSE {},
                            ![scope].withheld = (scope = "decode" /\ place.kind \notin PrivateKinds),
                            ![scope].applied = IF ran /\ ~stops /\ details = {} THEN got ELSE 0]
            /\ spent' = IF stops THEN spent \union {Budget(scope)} ELSE spent
  BY DEF Layer
<1> DEFINE stops == applies /\ Budget(scope) # "" /\ (cut \/ before)
           named == IF ran THEN details ELSE {}
           n == IF ran /\ ~stops /\ details = {} THEN got ELSE 0
           w == (scope = "decode" /\ place.kind \notin PrivateKinds)
           l == [old EXCEPT !.before = before, !.scanned = ran, !.cut = stops,
                            !.details = named, !.withheld = w, !.applied = n]
<1>3. /\ before \in BOOLEAN /\ ran \in BOOLEAN /\ stops \in BOOLEAN /\ n \in Int
      /\ w \in BOOLEAN /\ n >= 0 /\ n <= got /\ (ran /\ ~stops /\ named = {} => n = got)
  <2>1. before \in BOOLEAN /\ ran \in BOOLEAN /\ stops \in BOOLEAN
    OBVIOUS
  <2>2. (ran => named = details) /\ (n = got \/ n = 0)
        /\ (ran /\ ~stops /\ details = {} => n = got)
    <3> HIDE DEF ran, stops
    <3> QED OBVIOUS
  <2>3. w \in BOOLEAN
    OBVIOUS
  <2> HIDE DEF before, ran, stops, n, named, w
  <2> QED BY <1>1, <2>1, <2>2, <2>3
<1>4. named \in SUBSET Details
  <2>1. LayerDetails(scope) \subseteq Details
    BY DEF LayerDetails, Details
  <2> QED BY <1>2, <2>1
<1>5. ledger' = [ledger EXCEPT ![scope].before = before, ![scope].scanned = ran,
                            ![scope].cut = stops, ![scope].details = named,
                            ![scope].withheld = w, ![scope].applied = n]
  BY <1>2
<1>6. spent' = spent \/ (Budget(scope) # "" /\ spent' = spent \union {Budget(scope)})
  BY <1>2
<1> HIDE DEF before, ran, stops, named, n, w
<1>7. ledger' = [ledger EXCEPT ![scope] = l]
  BY <1>1, <1>5
<1>8. old \in LedgerType
  BY <1>1
<1> HIDE DEF old
<1>9. l \in LedgerType
  BY <1>3, <1>4, <1>8 DEF LedgerType
<1>10. /\ l.short = old.short /\ l.failed = old.failed /\ l.cursor = old.cursor
       /\ l.scanned = ran /\ l.cut = stops /\ l.details = named /\ l.applied = n
       /\ l.withheld = w
  BY <1>8 DEF LedgerType
<1> HIDE DEF l
<1>11. ledger' \in [Scopes -> LedgerType]
  BY <1>1, <1>7, <1>9
<1>12. spent \subseteq spent' /\ spent' \subseteq Budgets
  <2>1. Budget(scope) # "" => Budget(scope) \in Budgets
    BY SearchStarts, BudgetsAre
  <2> QED BY <1>1, <1>6, <2>1
<1>13. ledger'[scope] = l /\ \A s \in Scopes \ {scope} : ledger'[s] = ledger[s]
  BY <1>1, <1>7
<1>14. old.cursor = Unmeasured \/ old.cursor \in 0..got
  BY SearchStarts DEF old
<1>15. ASSUME NEW s \in Scopes \ {scope}
       PROVE  LET k == ledger[s]
              IN /\ k.withheld => \/ k.details # {}
                                  \/ s = "decode" /\ place.kind \notin PrivateKinds
                 /\ k.applied >= 0 /\ (k.scanned => k.applied <= got)
                 /\ k.cursor = Unmeasured \/ k.cursor \in 0..got
                 /\ k.scanned /\ ~k.cut /\ ~k.gap /\ k.details = {} => k.applied = got
  <2>1. ScopeInv(s)
    BY SearchStarts
  <2>2. s # "c2_context" /\ analyzer \notin SegmentUnits
    BY <1>1 DEF SegmentUnits
  <2> QED BY <2>1, <2>2 DEF ScopeInv
<1>16. \A s \in Scopes : s # "c2_context"
  BY <1>1
<1>17. ASSUME NEW s \in Scopes
       PROVE  LET k == ledger'[s]
              IN  /\ (k.short <=> ledger[s].short) /\ (k.failed <=> ledger[s].failed)
                  /\ k.withheld => \/ k.details # {}
                                   \/ s = "decode" /\ place.kind \notin PrivateKinds
                  /\ k.applied >= 0 /\ (k.scanned => k.applied <= got)
                  /\ k.cursor = Unmeasured \/ k.cursor \in 0..got
                  /\ k.scanned /\ ~k.cut /\ ~k.gap /\ k.details = {} => k.applied = got
  <2>1. CASE s = scope
    BY <1>3, <1>10, <1>13, <1>14, <2>1 DEF old, w
  <2>2. CASE s # scope
    BY <1>13, <1>15, <2>2
  <2> QED BY <2>1, <2>2
<1>18. analyzer # "cs-beacon"
  OBVIOUS
<1> QED BY <1>11, <1>12, <1>16, <1>17, <1>18, SearchOwes

\* The sleep-mask search, first of three scopes on one read.
LEMMA SleepMaskStep == ASSUME IInv, SleepMask PROVE IInv'
<1>1. /\ pc = "search" /\ analyzer = "obfuscation" /\ Layer("sleep_mask") /\ pc' = "entropy"
      /\ UNCHANGED <<Dump, capture, place, prevented, got, closures>>
  BY DEF SleepMask
<1>2. Scanning /\ "sleep_mask" \in Scopes
  BY <1>1, SearchStarts, ScopesAre DEF Scanning
<1>3. PcInv'
  BY <1>1 DEF PcInv, Dump
<1> QED BY <1>1, <1>2, <1>3, LayerStep

\* The entropy windows, second of three.
LEMMA EntropyStep == ASSUME IInv, Entropy PROVE IInv'
<1>1. /\ pc = "entropy" /\ Layer("entropy") /\ pc' = "decode"
      /\ UNCHANGED <<Dump, capture, place, prevented, got, closures>>
  BY DEF Entropy
<1>2. analyzer = "obfuscation"
  BY <1>1 DEF IInv, PcInv
<1>3. Scanning /\ "entropy" \in Scopes
  BY <1>1, <1>2, SearchStarts, ScopesAre DEF Scanning
<1>4. PcInv'
  BY <1>1, <1>2 DEF PcInv, Dump
<1> QED BY <1>1, <1>2, <1>3, <1>4, LayerStep

\* The decoders, last of three.
LEMMA DecodeStep == ASSUME IInv, Decode PROVE IInv'
<1>1. /\ pc = "decode" /\ Layer("decode") /\ pc' = "close"
      /\ UNCHANGED <<Dump, capture, place, prevented, got, closures>>
  BY DEF Decode
<1>2. analyzer = "obfuscation"
  BY <1>1 DEF IInv, PcInv
<1>3. Scanning /\ "decode" \in Scopes
  BY <1>1, <1>2, SearchStarts, ScopesAre DEF Scanning
<1>4. PcInv'
  BY <1>1, <1>2 DEF PcInv, Dump
<1> QED BY <1>1, <1>2, <1>3, <1>4, LayerStep

\* A step that changes nothing changes no invariant.
LEMMA StutterIInv == ASSUME IInv, UNCHANGED vars PROVE IInv'
<1>1. /\ UNCHANGED <<table, regions, req, analyzer, pc, capture, place, spent, prevented, got,
                     ledger, closures>>
      /\ UNCHANGED <<Dump, capture, place>>
  BY DEF vars, Dump
<1>2. /\ (Given' <=> Given) /\ (PlaceInv' <=> PlaceInv) /\ Eval' = Eval /\ Scopes' = Scopes
      /\ Budgets' = Budgets /\ \A s : Declined(s)' <=> Declined(s)
  BY <1>1, Frame
<1>3. (PcInv' <=> PcInv) /\ (GotInv' <=> GotInv)
  BY <1>1, <1>2 DEF PcInv, GotInv, Unread, Scanning
<1>4. \A s \in Scopes : ScopeInv(s)' <=> ScopeInv(s)
  BY <1>1, <1>2 DEF ScopeInv, Unread
<1>5. ScanInv' <=> ScanInv
  BY <1>1, <1>2, <1>3, <1>4 DEF ScanInv
<1>6. Answer' = Answer
  <2>1. Read' = Read
    BY <1>1 DEF Read
  <2> QED BY <1>1, <1>2, <2>1 DEF Answer, Closure, Status, Targets, Untargeted, Reached, Declined,
         Gap, CaptureState, EvalTarget, RequestedTarget, BudgetTargets, Truncated, Stamped, Residual, Note
<1>7. Declines' <=> Declines
  BY <1>1 DEF Declines
<1> QED BY <1>1, <1>2, <1>3, <1>5, <1>6, <1>7 DEF IInv

\* Every step of a rescan keeps the inductive invariant.
LEMMA StepIInv == IInv /\ [Next]_vars => IInv'
<1> SUFFICES ASSUME IInv, [Next]_vars PROVE IInv'
  OBVIOUS
<1>1. CASE UNCHANGED vars
  BY <1>1, StutterIInv
<1>2. CASE Spend
  BY <1>2, SpendStep
<1>3. CASE Adapter
  <2>1. CASE NotContained \/ Resolve \/ Gate \/ NoRules \/ Close
    BY <2>1, NotContainedStep, ResolveStep, GateStep, NoRulesStep, CloseStep
  <2>2. CASE ReadSlice \/ ReadChunk \/ ReadStops
    BY <2>2, ReadSliceStep, ReadChunkStep, ReadStopsStep
  <2>3. CASE SearchMarkers \/ MatchRules \/ ScanStrings \/ MatchNames \/ GatherC2
    BY <2>3, SearchMarkersStep, MatchRulesStep, ScanStringsStep, MatchNamesStep, GatherC2Step
  <2>4. CASE SleepMask \/ Entropy \/ Decode
    BY <2>4, SleepMaskStep, EntropyStep, DecodeStep
  <2> QED BY <1>3, <2>1, <2>2, <2>3, <2>4 DEF Adapter
<1> QED BY <1>1, <1>2, <1>3 DEF Next

\* The invariant holds throughout.
LEMMA Invariance == Spec => []IInv
<1> QED BY InitIInv, StepIInv, PTL DEF Spec

(* What the closures say. *)

\* A target for m bytes from d bytes past the base: what it counts as captured reaches
\* at least to the end of what the dump holds, and its offset is the first descriptor's.
Fits(t, d, m, e) ==
    /\ d \in Nat /\ m \in Nat /\ m > 0
    /\ t.range.base = req.base + d /\ t.range.size = m
    /\ t.captured \in 0..m /\ (t.captured < m => d + t.captured >= capture.captured.size)
    /\ t.examined = e
    /\ WellFormed /\ ~capture.overlapping /\ t.captured > 0
          => t.offset = SegmentFileOffset(table, t.range.base)

\* Where no captured byte has two places, each descriptor that holds one says where the
\* first one says.
LEMMA OnePlace ==
    ASSUME Given, WellFormed, ~capture.overlapping, NEW a \in Bytes(capture.captured),
           NEW i \in Kept(table), ContainsAddress(table[i], a)
    PROVE  SegmentFileOffset(table, a) = FileOffsetAt(table[i], a)
<1> DEFINE n == capture.captured.size
<1>1. table \in Seq(Segments) /\ IsRange(req)
  BY GivenTypes
<1>2. Bytes(capture.captured) = req.base..(req.base + n - 1) /\ n \in 0..req.size
  BY CapturedBytesAre
<1>3. a \in Nat /\ a > 0 /\ a - req.base \in 0..(n - 1) /\ req.base + (a - req.base) = a
  <2> HIDE DEF n
  <2> QED BY <1>1, <1>2 DEF IsRange
<1>4. ~(Cardinality(Backers(a)) > 1)
  <2>1. capture.overlapping <=> \E x \in 0..(n - 1) : Cardinality(Backers(req.base + x)) > 1
    BY ExactWhenGiven DEF CapturedIsExact
  <2> QED BY <1>3, <2>1
<1>5. Cardinality(Backers(a)) \in Nat
  <2>1. IsFiniteSet(DOMAIN table) /\ Backers(a) \in SUBSET DOMAIN table
    BY <1>1, SegmentsAreEntries, EntryTypes DEF Backers
  <2> QED BY <2>1, FS_Subset, FS_CardinalityType
<1>6. AllKept(table) /\ Backers(a) = HeldBy(table, Kept(table), a)
  BY BackersAre
<1>7. Cardinality(HeldBy(table, Kept(table), a)) <= 1 /\ i \in HeldBy(table, Kept(table), a)
  BY <1>4, <1>5, <1>6 DEF HeldBy
<1> QED BY <1>1, <1>3, <1>6, <1>7, OffsetOfOnePlace

\* region_scan_target counts at least what the slice captured of a range that starts
\* at the base.
LEMMA RegionFits ==
    ASSUME Given, NEW r, r.base = req.base, r.size \in 1..req.size, NEW e
    PROVE  Fits(RegionScanTarget(table, r, e), 0, r.size, e)
<1> DEFINE t == RegionScanTarget(table, r, e)
           c == CapturedRangeLength(table, r.base, r.size)
           n == capture.captured.size
<1>1. table \in Seq(Segments) /\ req.base \in Nat /\ req.base > 0 /\ req.size \in Nat
  BY GivenTypes DEF IsRange
<1>2. r.size \in Nat /\ r.size > 0
  BY <1>1
<1>3. /\ t.range = r /\ t.captured = c /\ t.examined = e
      /\ t.offset = SegmentFileOffset(table, r.base)
  BY DEF RegionScanTarget, ScanTarget
<1>4. /\ c \in 0..r.size
      /\ c < r.size => HeldBy(table, DOMAIN table, req.base + c) = {}
  BY <1>1, <1>2, RangeLengthIsExact
<1>5. n \in 0..req.size /\ \A x \in 0..(n - 1) : Backers(req.base + x) # {}
  BY CapturedBytesAre, ExactWhenGiven DEF CapturedIsExact
<1> HIDE DEF t, c, n
<1>6. ASSUME c < r.size, c < n PROVE FALSE
  <2>1. PICK i \in Backers(req.base + c) : TRUE
    BY <1>4, <1>5, <1>6
  <2>2. i \in HeldBy(table, DOMAIN table, req.base + c)
    BY <2>1 DEF Backers, HeldBy
  <2> QED BY <1>4, <1>6, <2>2
<1>7. c < r.size => 0 + c >= n
  BY <1>4, <1>5, <1>6
<1>8. req.base = req.base + 0
  BY <1>1
<1> QED BY <1>2, <1>3, <1>4, <1>7, <1>8 DEF Fits, t, c, n

\* A target for the evaluated range.
LEMMA EvalTargetFits ==
    ASSUME Given, PlaceInv, NEW e
    PROVE  Fits(EvalTarget(e), 0, Eval.size, e)
<1>1. Eval.base = req.base /\ Eval.size \in 1..req.size
  BY DEF PlaceInv
<1>2. CASE analyzer \notin SegmentUnits
  BY <1>1, <1>2, RegionFits DEF EvalTarget
<1>3. CASE analyzer \in SegmentUnits
  <2> DEFINE views == Views(table)
             k == Containing(views, req.base)
             t == EvalTarget(e)
             n == capture.captured.size
  <2>1. table \in Seq(Segments) /\ req.base \in Nat /\ req.base > 0 /\ req.size \in Nat
    BY GivenTypes DEF IsRange
  <2>2. Eval.size \in Nat /\ Eval.size > 0 /\ Eval.size <= n /\ k # 0
    BY <1>1, <1>3, <2>1 DEF PlaceInv
  <2>3. /\ t.range = Eval /\ t.captured = Eval.size /\ t.examined = e
        /\ t.offset = FileOffsetAt(views[k], Eval.base)
    BY <1>3 DEF EvalTarget, ScanTarget
  <2>4. Entries(table)
    BY <2>1, SegmentsAreEntries
  <2>5. SortedBy(views, table, Kept(table))
    BY <2>4, ViewsSorted
  <2> HIDE DEF views
  <2>6. k \in 1..Len(views) /\ ContainsAddress(views[k], req.base)
    BY <2>2, <2>5, ContainingIs DEF SortedBy
  <2> HIDE DEF k
  <2>7. PICK i \in Kept(table) : views[k] = table[i]
    BY <2>5, <2>6 DEF SortedBy
  <2>8. req.base \in Bytes(capture.captured)
    <3>1. Bytes(capture.captured) = req.base..(req.base + n - 1) /\ n \in 0..req.size
      BY CapturedBytesAre
    <3> HIDE DEF n
    <3> QED BY <2>1, <2>2, <3>1
  <2>9. WellFormed /\ ~capture.overlapping
          => SegmentFileOffset(table, req.base) = FileOffsetAt(table[i], req.base)
    BY <2>6, <2>7, <2>8, OnePlace
  <2>10. req.base = req.base + 0 /\ t.captured \in 0..Eval.size /\ ~(t.captured < Eval.size)
    BY <2>1, <2>2, <2>3
  <2> HIDE DEF t, n
  <2> QED BY <1>1, <2>2, <2>3, <2>7, <2>9, <2>10 DEF Fits, t
<1> QED BY <1>2, <1>3

\* A target for the whole request.
LEMMA RequestedTargetFits ==
    ASSUME Given, NEW e
    PROVE  Fits(RequestedTarget(e), 0, req.size, e)
<1>1. req.base \in Nat /\ req.size \in 1..req.size /\ req.size \in Nat /\ req.size > 0
  BY GivenTypes DEF IsRange
<1>2. CASE analyzer \notin SegmentUnits
  BY <1>1, <1>2, RegionFits DEF RequestedTarget
<1>3. CASE analyzer \in SegmentUnits
  <2> DEFINE t == RequestedTarget(e)
             n == capture.captured.size
  <2>1. /\ t.range = req /\ t.captured = n /\ t.examined = e /\ t.offset = capture.offset
    BY <1>3 DEF RequestedTarget, ScanTarget
  <2>2. n \in 0..req.size
    BY CapturedBytesAre
  <2>3. WellFormed /\ ~capture.overlapping => SegmentFileOffset(table, req.base) = capture.offset
    BY ExactWhenGiven DEF CapturedIsExact
  <2> HIDE DEF t, n
  <2>4. req.base = req.base + 0 /\ 0 + n >= n
    BY <1>1, <2>2
  <2> QED BY <1>1, <2>1, <2>2, <2>3, <2>4 DEF Fits, t, n
<1> QED BY <1>2, <1>3

\* A target for what follows a cursor in the request, from the slice's own tiles.
LEMMA SuffixFits ==
    ASSUME Given, NEW c \in Nat, c < req.size,
           NEW t, LET suffix  == SuffixAfter(req, c)
                      backing == Containing(capture.segments, suffix.base)
                  IN t = ScanTarget(suffix,
                            IF backing = 0 THEN Unknown
                                ELSE FileOffsetAt(capture.segments[backing], suffix.base),
                            Max({0, capture.captured.size - c}), 0)
    PROVE  Fits(t, c, req.size - c, 0)
<1> DEFINE n == capture.captured.size
           b == req.base + c
           tiles == capture.segments
           k == Containing(tiles, b)
<1>1. table \in Seq(Segments) /\ IsRange(req) /\ req.base \in Nat /\ req.base > 0 /\ req.size \in Nat
  BY GivenTypes DEF IsRange
<1>2. /\ t.range.base = b /\ t.range.size = req.size - c /\ t.examined = 0
      /\ t.captured = Max({0, n - c})
      /\ t.offset = IF k = 0 THEN Unknown ELSE FileOffsetAt(tiles[k], b)
  BY DEF ScanTarget, SuffixAfter, VirtualRange
<1>3. n \in 0..req.size /\ Bytes(capture.captured) = req.base..(req.base + n - 1)
  BY CapturedBytesAre
<1>4. /\ Len(tiles) \in Nat /\ DOMAIN tiles = 1..Len(tiles)
      /\ \A j \in DOMAIN tiles : \E i \in Kept(table) : PartOf(tiles[j], table[i])
      /\ \A a \in req.base..(req.base + n - 1) :
            \E j \in DOMAIN tiles : ContainsAddress(tiles[j], a)
  BY <1>1, SliceIsExact DEF Given
<1> HIDE DEF n, tiles
<1>5. t.captured = IF 0 <= n - c THEN n - c ELSE 0
  <2>1. n - c \in Int
    BY <1>3, <1>1
  <2> QED BY <1>2, <2>1, MaxOfTwo
<1>6. t.captured \in 0..(req.size - c) /\ (t.captured < req.size - c => c + t.captured >= n)
  BY <1>1, <1>3, <1>5
<1>7. ASSUME WellFormed, ~capture.overlapping, t.captured > 0
      PROVE  t.offset = SegmentFileOffset(table, b)
  <2>1. b \in req.base..(req.base + n - 1)
    BY <1>1, <1>3, <1>5, <1>7
  <2>2. PICK j \in DOMAIN tiles : ContainsAddress(tiles[j], b)
    BY <1>4, <2>1
  <2>3. k \in 1..Len(tiles) /\ ContainsAddress(tiles[k], b)
    BY <1>4, <2>2, ContainingIs DEF Holds
  <2>4. PICK i \in Kept(table) : PartOf(tiles[k], table[i])
    BY <1>4, <2>3
  <2>5. table[i] \in Segments
    BY <1>1 DEF Kept
  <2> HIDE DEF k
  <2>6. b \in Bytes(tiles[k])
    BY SMTT(30), <1>1, <2>3, <2>4 DEF PartOf, Bytes, ContainsAddress, End
  <2>7. ContainsAddress(table[i], b) /\ FileOffsetAt(tiles[k], b) = FileOffsetAt(table[i], b)
    BY <2>4, <2>5, <2>6, PartPlaces
  <2>8. SegmentFileOffset(table, b) = FileOffsetAt(table[i], b)
    BY <1>3, <1>7, <2>1, <2>7, OnePlace
  <2>9. k # 0
    BY <1>4, <2>3
  <2> QED BY <1>2, <2>7, <2>8, <2>9
<1>8. req.size - c \in Nat /\ req.size - c > 0
  BY <1>1
<1> QED BY <1>2, <1>6, <1>7, <1>8 DEF Fits, n

\* with_examined_extent changes what is examined and nothing else.
LEMMA StampedFits ==
    ASSUME NEW r, NEW o, NEW c, NEW e, NEW d, NEW m, Fits(ScanTarget(r, o, c, e), d, m, e),
           NEW x \in Int
    PROVE  /\ c \in Nat
           /\ Fits(Stamped(ScanTarget(r, o, c, e), x), d, m, IF x <= c THEN x ELSE c)
<1> DEFINE t == ScanTarget(r, o, c, e)
<1>1. t.range = r /\ t.offset = o /\ t.captured = c /\ t.examined = e
  BY DEF ScanTarget
<1>2. c \in Nat
  BY <1>1 DEF Fits
<1>3. Min({x, c}) = IF x <= c THEN x ELSE c
  BY <1>2, MinOfTwo
<1>4. /\ Stamped(t, x).range = r /\ Stamped(t, x).offset = o /\ Stamped(t, x).captured = c
      /\ Stamped(t, x).examined = IF x <= c THEN x ELSE c
  BY <1>3 DEF Stamped, ScanTarget
<1> QED BY <1>1, <1>2, <1>4 DEF Fits

\* What a target that was stamped says.
LEMMA StampedTargets ==
    ASSUME Given, PlaceInv, NEW x \in Nat
    PROVE  /\ \E c \in Nat : Fits(Stamped(EvalTarget(Unmeasured), x), 0, Eval.size,
                                  IF x <= c THEN x ELSE c)
                             /\ Stamped(EvalTarget(Unmeasured), x).captured = c
           /\ \E c \in Nat : Fits(Stamped(RequestedTarget(Unmeasured), x), 0, req.size,
                                  IF x <= c THEN x ELSE c)
                             /\ Stamped(RequestedTarget(Unmeasured), x).captured = c
<1>1. PICK r, o, c : EvalTarget(Unmeasured) = ScanTarget(r, o, c, Unmeasured)
  BY DEF EvalTarget, RegionScanTarget
<1>2. PICK rr, oo, cc : RequestedTarget(Unmeasured) = ScanTarget(rr, oo, cc, Unmeasured)
  BY DEF RequestedTarget, RegionScanTarget
<1>3. c \in Nat /\ Fits(Stamped(EvalTarget(Unmeasured), x), 0, Eval.size, IF x <= c THEN x ELSE c)
  BY <1>1, EvalTargetFits, StampedFits
<1>4. cc \in Nat /\ Fits(Stamped(RequestedTarget(Unmeasured), x), 0, req.size,
                         IF x <= cc THEN x ELSE cc)
  BY <1>2, RequestedTargetFits, StampedFits
<1>5. /\ Stamped(EvalTarget(Unmeasured), x).captured = c
      /\ Stamped(RequestedTarget(Unmeasured), x).captured = cc
  BY <1>1, <1>2 DEF Stamped, ScanTarget
<1> QED BY <1>3, <1>4, <1>5

\* A target the code could name: its extents nest.
Nested(t) == t.captured <= t.range.size /\ t.examined <= t.captured

\* A target that fits and examined no more than it counts as captured nests.
LEMMA FitsNests ==
    ASSUME NEW t, NEW d, NEW m, NEW e, Fits(t, d, m, e), e <= t.captured
    PROVE  Nested(t)
  BY DEF Fits, Nested

\* Every target a closure names nests.
LEMMA TargetsNest ==
    ASSUME Given, PlaceInv, GotInv, pc = "done", NEW s \in Scopes, ScopeInv(s),
           NEW t \in Targets(s)
    PROVE  Nested(t)
<1> DEFINE l == ledger[s]
<1>1. Eval.size \in Nat /\ got \in Int /\ got >= -1 /\ got <= Eval.size /\ Eval.size <= req.size
      /\ req.size \in Nat /\ req.size > 0
  BY GivenTypes DEF PlaceInv, GotInv, Unmeasured, IsRange
<1>2. \A x \in Nat : /\ Nested(Stamped(EvalTarget(Unmeasured), x))
                     /\ Nested(Stamped(RequestedTarget(Unmeasured), x))
  <2> SUFFICES ASSUME NEW x \in Nat
               PROVE  /\ Nested(Stamped(EvalTarget(Unmeasured), x))
                      /\ Nested(Stamped(RequestedTarget(Unmeasured), x))
    OBVIOUS
  <2>1. \A c \in Nat : (IF x <= c THEN x ELSE c) <= c
    OBVIOUS
  <2> QED BY <2>1, StampedTargets, FitsNests
<1>3. Nested(EvalTarget(Unmeasured)) /\ Nested(EvalTarget(0))
  <2>1. Fits(EvalTarget(-1), 0, Eval.size, -1) /\ Fits(EvalTarget(0), 0, Eval.size, 0)
    BY EvalTargetFits
  <2>2. EvalTarget(-1).captured >= -1 /\ EvalTarget(0).captured >= 0
    BY <2>1, <1>1 DEF Fits
  <2> QED BY <2>1, <2>2, FitsNests DEF Unmeasured
<1>4. ASSUME Read = 0, t = UnexaminedSuffix(capture, 0) PROVE Nested(t)
  <2>1. capture.requested = req
    BY CapturedBytesAre
  <2>2. Fits(t, 0, req.size - 0, 0)
    BY <1>1, <1>4, <2>1, SuffixFits DEF UnexaminedSuffix
  <2>3. 0 <= t.captured
    BY <1>1, <2>2 DEF Fits
  <2> QED BY <2>2, <2>3, FitsNests
<1>5. ASSUME NEW c \in 0..got, t \in Residual(c) PROVE Nested(t)
  <2>1. Min({c, req.size}) = c
    BY <1>1, MinOfTwo
  <2>2. SuffixAfter(req, c).size = req.size - c
    BY DEF SuffixAfter, VirtualRange
  <2>3. c \in Nat /\ c < req.size
    BY <1>1, <1>5, <2>1, <2>2 DEF Residual
  <2>4. Fits(t, c, req.size - c, 0)
    BY <1>5, <2>1, <2>3, SuffixFits DEF Residual
  <2>5. 0 <= t.captured
    BY <1>1, <2>3, <2>4 DEF Fits
  <2> QED BY <2>4, <2>5, FitsNests
<1>6. ASSUME analyzer = "cs-beacon", NEW c \in 0..got PROVE Nested(EvalTarget(c))
  <2>1. Fits(EvalTarget(c), 0, Eval.size, c)
    BY EvalTargetFits
  <2>2. EvalTarget(c).captured = Eval.size
    BY <1>6 DEF EvalTarget, ScanTarget, SegmentUnits
  <2>3. c <= EvalTarget(c).captured
    BY <1>1, <2>2
  <2> QED BY <2>1, <2>3, FitsNests
<1>7. l.cursor = Unmeasured \/ l.cursor \in 0..got
  BY DEF ScopeInv
<1>8. ASSUME t \in BudgetTargets(s) PROVE Nested(t)
  <2>1. \/ Read = 0 /\ t = UnexaminedSuffix(capture, 0)
        \/ /\ analyzer = "cs-beacon" /\ l.cursor # Unmeasured
           /\ t \in Residual(l.cursor) \/ t = EvalTarget(l.cursor)
        \/ t = EvalTarget(0) \/ t = EvalTarget(Unmeasured)
    BY <1>8 DEF BudgetTargets
  <2> QED BY <1>3, <1>4, <1>5, <1>6, <1>7, <2>1
<1>9. \/ t = Stamped(EvalTarget(Unmeasured), 0)
      \/ t = Stamped(EvalTarget(Unmeasured), got)
      \/ t = Truncated \/ t = EvalTarget(Unmeasured) \/ t \in BudgetTargets(s)
  BY DEF Targets
<1>10. t = Stamped(EvalTarget(Unmeasured), got) => Nested(t)
  <2> SUFFICES ASSUME t = Stamped(EvalTarget(Unmeasured), got) PROVE Nested(t)
    OBVIOUS
  <2>1. PICK r, o, c : EvalTarget(Unmeasured) = ScanTarget(r, o, c, Unmeasured)
    BY DEF EvalTarget, RegionScanTarget
  <2>2. c \in Nat /\ Fits(t, 0, Eval.size, IF got <= c THEN got ELSE c)
    BY <1>1, <2>1, EvalTargetFits, StampedFits
  <2>3. t.captured = c
    BY <2>1 DEF Stamped, ScanTarget
  <2>4. (IF got <= c THEN got ELSE c) <= t.captured
    BY <1>1, <2>2, <2>3
  <2> QED BY <2>2, <2>4, FitsNests
<1>11. Nested(Truncated)
  BY <1>1, <1>2 DEF Truncated
<1> HIDE DEF l
<1> QED BY <1>2, <1>3, <1>8, <1>9, <1>10, <1>11

\* What is known of a scan whose adapter has answered.
LEMMA Answered ==
    ASSUME IInv, pc = "done", ~Declines
    PROVE  /\ Given /\ PlaceInv /\ GotInv /\ closures = Answer /\ analyzer \in AnalyzerNames
           /\ ledger \in [Scopes -> LedgerType] /\ \A s \in Scopes : ScopeInv(s)
           /\ DOMAIN closures = DOMAIN Granted[analyzer]
           /\ \A k \in DOMAIN closures :
                /\ Granted[analyzer][k] \in Scopes
                /\ closures[k] = LET scope == Granted[analyzer][k]
                                 IN IF Declined(scope)
                                    THEN Closure(scope, "not_applicable", {}, FALSE, Unmeasured, "none")
                                    ELSE Closure(scope, Status(scope), Targets(scope),
                                                 Untargeted(scope),
                                                 IF Reached(scope) THEN Read ELSE Unmeasured, Note(scope))
<1>1. Given /\ ScanInv /\ closures = Answer
  BY DEF IInv
<1>2. analyzer \in AnalyzerNames
  BY <1>1, GivenTypes
<1>3. PlaceInv /\ GotInv /\ ledger \in [Scopes -> LedgerType] /\ \A s \in Scopes : ScopeInv(s)
  BY <1>1 DEF ScanInv
<1>4. DOMAIN closures = DOMAIN Granted[analyzer]
  BY <1>1 DEF Answer
<1>5. \A k \in DOMAIN closures : Granted[analyzer][k] \in Scopes
  BY <1>2, <1>4, ScopesAre
<1> QED BY <1>1, <1>2, <1>3, <1>4, <1>5 DEF Answer

\* The status and the read of a closure fit each other.
LEMMA ClosureFits ==
    ASSUME IInv, pc = "done", ~Declines, NEW k \in DOMAIN closures
    PROVE  LET c == closures[k]
           IN  /\ c.status \in {"complete", "partial", "not_evaluated", "not_applicable"}
               /\ (c.status \in {"complete", "partial"}) = (c.read # Unmeasured)
               /\ c.read # Unmeasured => c.state # "none" /\ c.read \in 1..c.captured
               /\ \A t \in c.targets : Nested(t)
<1> DEFINE s == Granted[analyzer][k]
           c == closures[k]
<1>1. /\ Given /\ PlaceInv /\ GotInv /\ s \in Scopes /\ ScopeInv(s)
      /\ closures[k] = IF Declined(s) THEN Closure(s, "not_applicable", {}, FALSE, Unmeasured, "none")
                       ELSE Closure(s, Status(s), Targets(s), Untargeted(s),
                                    IF Reached(s) THEN Read ELSE Unmeasured, Note(s))
  BY Answered
<1> HIDE DEF s
<1>2. CASE Declined(s)
  <2>1. c.status = "not_applicable" /\ c.read = Unmeasured /\ c.targets = {}
    BY <1>1, <1>2 DEF Closure
  <2> HIDE DEF c
  <2> QED BY <2>1 DEF c
<1>3. CASE ~Declined(s)
  <2>1. /\ c.status = Status(s) /\ c.targets = Targets(s)
        /\ c.read = (IF Reached(s) THEN Read ELSE Unmeasured)
        /\ c.captured = capture.captured.size /\ c.state = CaptureState(capture)
    BY <1>1, <1>3 DEF Closure
  <2>2. Status(s) = IF ~Reached(s) THEN "not_evaluated"
                    ELSE IF Gap(s) THEN "partial" ELSE "complete"
    BY <1>3 DEF Status
  <2>3. \A t \in Targets(s) : Nested(t)
    BY <1>1, TargetsNest
  <2>4. capture.captured.size \in Nat /\ got \in Int /\ got <= capture.captured.size
    BY <1>1, CapturedBytesAre DEF GotInv, Unread
  <2>5. Reached(s) => got >= 1
    BY <1>1 DEF Reached, ScopeInv
  <2>6. Reached(s) => Read = got /\ got \in 1..capture.captured.size /\ Read # Unmeasured
    BY <2>4, <2>5 DEF Read, Unmeasured
  <2>7. Reached(s) => CaptureState(capture) # "none"
    BY <2>4, <2>5 DEF CaptureState
  <2> HIDE DEF c
  <2> QED BY <2>1, <2>2, <2>3, <2>6, <2>7 DEF c
<1> QED BY <1>2, <1>3

\* The answer is well formed.
LEMMA TypesHold == IInv => TypeOK
<1> SUFFICES ASSUME IInv PROVE TypeOK
  OBVIOUS
<1>1. /\ pc \in {"resolve", "gate", "read", "search", "c2", "entropy", "decode", "close", "done"}
      /\ spent \subseteq Budgets /\ prevented \subseteq spent /\ Given
  BY DEF IInv, PcInv
<1>2. req.size \in Nat /\ req.size > 0
  BY <1>1, GivenTypes DEF IsRange
<1>3. CASE pc # "done"
  <2>1. closures = <<>> /\ DOMAIN closures = {}
    BY <1>3 DEF IInv
  <2>2. got \in Int /\ got >= -1 /\ (pc # "resolve" => got <= Eval.size /\ Eval.size <= req.size
                                                        /\ Eval.size \in Nat)
    BY <1>3, HandTypes
  <2>3. pc = "resolve" => got = -1
    BY <1>3 DEF IInv, ScanInv, GotInv, Unmeasured
  <2>4. Read <= req.size
    BY <1>2, <2>2, <2>3 DEF Read, Unmeasured
  <2> QED BY <1>1, <1>3, <2>1, <2>2, <2>4 DEF TypeOK
<1>4. CASE pc = "done" /\ Declines
  <2>1. got = -1 /\ Read = 0
    BY <1>4 DEF Declines, Read, Unmeasured
  <2> QED BY <1>1, <1>2, <1>4, <2>1 DEF TypeOK, Declines
<1>5. CASE pc = "done" /\ ~Declines
  <2>1. PlaceInv /\ GotInv /\ DOMAIN closures = DOMAIN Granted[analyzer]
    BY <1>5, Answered
  <2>2. got \in Int /\ got <= Eval.size /\ Eval.size \in Nat /\ Eval.size <= req.size
    BY <1>2, <1>5, <2>1 DEF PlaceInv, GotInv
  <2>3. Read <= req.size
    BY <1>2, <2>2 DEF Read
  <2>4. \A k \in DOMAIN closures :
         LET c == closures[k]
         IN /\ c.status \in {"complete", "partial", "not_evaluated", "not_applicable"}
            /\ (c.status \in {"complete", "partial"}) = (c.read # Unmeasured)
            /\ c.read # Unmeasured => c.state # "none" /\ c.read \in 1..c.captured
            /\ \A t \in c.targets : t.captured <= t.range.size /\ t.examined <= t.captured
    BY <1>5, ClosureFits DEF Nested
  <2> QED BY <1>1, <2>1, <2>2, <2>3, <2>4 DEF TypeOK
<1> QED BY <1>3, <1>4, <1>5

\* What holds of a closure whose scope was evaluated.
LEMMA EvaluatedIs ==
    ASSUME IInv, NEW k \in Evaluated
    PROVE  LET s == closures[k].scope
               l == ledger[s]
           IN  /\ Given /\ PlaceInv /\ closures = Answer /\ pc = "done" /\ analyzer \in AnalyzerNames
               /\ s \in Scopes /\ ~Declined(s) /\ Reached(s) /\ l \in LedgerType
               /\ closures[k].status = (IF Gap(s) THEN "partial" ELSE "complete")
               /\ closures[k].targets = Targets(s) /\ closures[k].untargeted = Untargeted(s)
               /\ got \in 1..Eval.size /\ got <= capture.captured.size /\ Read = got
               /\ l.scanned /\ ~l.failed /\ (l.short <=> got < Eval.size)
               /\ l.applied \in 0..got /\ (l.cursor = Unmeasured \/ l.cursor \in 0..got)
               /\ analyzer = "cs-beacon" /\ l.cut
                     => l.applied = IF l.cursor = Unmeasured THEN 0 ELSE l.cursor
               /\ ~l.cut /\ ~l.gap /\ l.details = {}
                    /\ ~(s = "c2_context" /\ ledger["pipe_name"].cut) => l.applied = got
               /\ l.details = {} => Claimed(s) = l.applied
<1> DEFINE s == Granted[analyzer][k]
           l == ledger[s]
<1>1. k \in DOMAIN closures /\ closures[k].status \in {"complete", "partial"}
  BY DEF Evaluated
<1>2. pc = "done" /\ ~Declines
  <2>1. closures # <<>>
    BY <1>1
  <2> QED BY <1>1, <2>1 DEF IInv, Declines
<1>3. /\ Given /\ PlaceInv /\ GotInv /\ s \in Scopes /\ ScopeInv(s) /\ closures = Answer
      /\ analyzer \in AnalyzerNames /\ ledger \in [Scopes -> LedgerType]
      /\ closures[k] = IF Declined(s) THEN Closure(s, "not_applicable", {}, FALSE, Unmeasured, "none")
                       ELSE Closure(s, Status(s), Targets(s), Untargeted(s),
                                    IF Reached(s) THEN Read ELSE Unmeasured, Note(s))
  BY <1>1, <1>2, Answered
<1> HIDE DEF s
<1>4. ~Declined(s)
  <2> SUFFICES ASSUME Declined(s) PROVE FALSE
    OBVIOUS
  <2>1. closures[k].status = "not_applicable"
    BY <1>3 DEF Closure
  <2> QED BY <1>1, <2>1
<1>5. /\ closures[k].scope = s /\ closures[k].status = Status(s)
      /\ closures[k].targets = Targets(s) /\ closures[k].untargeted = Untargeted(s)
  BY <1>3, <1>4 DEF Closure
<1>6. Reached(s) /\ Status(s) = IF Gap(s) THEN "partial" ELSE "complete"
  BY <1>1, <1>4, <1>5 DEF Status
<1>7. l.scanned /\ l \in LedgerType
  BY <1>3, <1>6 DEF Reached
<1>8. got >= 1 /\ got \in Int /\ got <= Eval.size /\ got <= capture.captured.size
  BY <1>2, <1>3, <1>7 DEF ScopeInv, GotInv, Unread
<1>9. Eval.size \in Nat
  BY <1>3, GivenTypes DEF PlaceInv, IsRange
<1>10. Read = got
  BY <1>8 DEF Read, Unmeasured
<1>11. /\ ~l.failed /\ (l.short <=> got < Eval.size)
       /\ l.applied >= 0 /\ l.applied <= got /\ (l.cursor = Unmeasured \/ l.cursor \in 0..got)
       /\ analyzer = "cs-beacon" /\ l.cut
             => l.applied = IF l.cursor = Unmeasured THEN 0 ELSE l.cursor
       /\ ~l.cut /\ ~l.gap /\ l.details = {}
            /\ ~(s = "c2_context" /\ ledger["pipe_name"].cut) => l.applied = got
  BY <1>2, <1>3, <1>4, <1>7, <1>8 DEF ScopeInv, Unread
<1>12. l.applied \in 0..got
  BY <1>7, <1>8, <1>11 DEF LedgerType
<1>13. got \in 1..Eval.size
  BY <1>8, <1>9
<1>14. ASSUME l.details = {} PROVE Claimed(s) = l.applied
  <2>1. l.withheld => \/ s = "decode" /\ place.kind \notin PrivateKinds
                      \/ s = "c2_context" /\ ~ledger["pipe_name"].leads
    BY <1>3, <1>14 DEF ScopeInv
  <2>2. CASE ~l.withheld
    BY <2>2 DEF Claimed, Searched
  <2>3. CASE s = "decode" /\ place.kind \notin PrivateKinds
    <3>1. Note(s) = "xor_not_applied"
      BY <1>6, <2>3 DEF Note
    <3>2. closures[k].note = "xor_not_applied"
      BY <1>3, <1>4, <3>1 DEF Closure
    <3> QED BY <1>1, <2>3, <3>2 DEF Claimed, Disclosed
  <2>4. CASE s = "c2_context" /\ ~ledger["pipe_name"].leads
    <3>1. analyzer = "pipe"
      BY <1>3, <2>4, ScopesAre DEF AnalyzerNames
    <3>2. DOMAIN Granted[analyzer] = {1, 2} /\ Granted[analyzer][1] = "pipe_name"
      BY <1>3, <3>1, ScopesAre
    <3>3. ~Declined("pipe_name")
      <4>1. Accepts("pipe_name") = Accepts("c2_context")
        BY DEF Accepts
      <4>2. ~Declined("c2_context")
        BY <1>4, <2>4
      <4> QED BY <4>1, <4>2 DEF Declined
    <3>4. Note("pipe_name") = "no_names_retained"
      BY <2>4 DEF Note
    <3>5. 1 \in DOMAIN closures /\ closures[1].note = "no_names_retained"
      BY <1>3, <3>2, <3>3, <3>4 DEF Answer, Closure
    <3> QED BY <2>4, <3>5 DEF Claimed, Disclosed
  <2> QED BY <2>1, <2>2, <2>3, <2>4
<1> HIDE DEF l
<1> QED BY <1>2, <1>3, <1>4, <1>5, <1>6, <1>7, <1>8, <1>10, <1>11, <1>12, <1>13, <1>14 DEF l

\* A complete scope searched all it had in hand, and that was the whole request.
LEMMA CompleteWhenInv == IInv => CompleteIsWhole
<1> SUFFICES ASSUME IInv, NEW k \in DOMAIN closures, closures[k].status = "complete"
             PROVE  /\ \A a \in Bytes(req) : Cardinality(Backers(a)) = 1
                    /\ Claimed(closures[k].scope) = req.size
                    /\ closures[k].targets = {} /\ ~closures[k].untargeted
  BY DEF CompleteIsWhole
<1> DEFINE s == closures[k].scope
           l == ledger[s]
           n == capture.captured.size
<1>1. k \in Evaluated
  BY DEF Evaluated
<1>2. /\ Given /\ PlaceInv /\ closures[k].status = (IF Gap(s) THEN "partial" ELSE "complete")
      /\ closures[k].targets = Targets(s) /\ closures[k].untargeted = Untargeted(s)
      /\ got \in 1..Eval.size /\ ~l.failed /\ (l.short <=> got < Eval.size)
      /\ ~l.cut /\ ~l.gap /\ l.details = {}
                    /\ ~(s = "c2_context" /\ ledger["pipe_name"].cut) => l.applied = got
      /\ l.details = {} => Claimed(s) = l.applied
  BY <1>1, EvaluatedIs
<1> HIDE DEF s, l
<1>3. ~Gap(s)
  BY <1>2
<1>4. /\ CaptureState(capture) = "complete" /\ ~place.boundary.truncated
      /\ ~l.short /\ ~l.cut /\ ~l.gap /\ l.details = {} /\ ~capture.overlapping
      /\ ~(s = "c2_context" /\ ledger["pipe_name"].cut)
  BY <1>3 DEF Gap, l
<1>5. n = req.size
  <2>1. capture.requested = req
    BY <1>2, CapturedBytesAre
  <2> QED BY <1>4, <2>1 DEF CaptureState
<1>6. Eval.size = req.size /\ got = Eval.size
  <2>1. req.size \in Nat
    BY <1>2, GivenTypes DEF IsRange
  <2>2. Eval.size \in 1..req.size /\ place.boundary.truncated = (Eval.size < req.size)
    BY <1>2 DEF PlaceInv
  <2>3. ~(Eval.size < req.size)
    BY <1>4, <2>2
  <2> QED BY <1>2, <1>4, <2>1, <2>2, <2>3
<1>7. ASSUME NEW a \in Bytes(req) PROVE Cardinality(Backers(a)) = 1
  <2>1. table \in Seq(Segments) /\ IsRange(req)
    BY <1>2, GivenTypes
  <2>2. req.base \in Int /\ req.size \in Int /\ a \in req.base..(req.base + req.size - 1)
    BY <2>1 DEF IsRange, Bytes, End
  <2>3. a - req.base \in 0..(n - 1) /\ req.base + (a - req.base) = a
    BY <1>5, <2>2
  <2>4. Backers(a) # {} /\ ~(Cardinality(Backers(a)) > 1)
    <3> HIDE DEF n
    <3>1. /\ \A x \in 0..(n - 1) : Backers(req.base + x) # {}
          /\ capture.overlapping <=> \E x \in 0..(n - 1) : Cardinality(Backers(req.base + x)) > 1
      BY <1>2, ExactWhenGiven DEF CapturedIsExact, n
    <3> QED BY <1>4, <2>3, <3>1
  <2>5. IsFiniteSet(Backers(a))
    <3>1. IsFiniteSet(DOMAIN table) /\ Backers(a) \in SUBSET DOMAIN table
      BY <2>1, SegmentsAreEntries, EntryTypes DEF Backers
    <3> QED BY <3>1, FS_Subset
  <2>6. Cardinality(Backers(a)) \in Nat /\ Cardinality(Backers(a)) # 0
    BY <2>4, <2>5, FS_CardinalityType, FS_EmptySet
  <2> QED BY <2>4, <2>6
<1>8. Targets(s) = {}
  BY <1>2, <1>4 DEF Targets, l
<1>9. ~Untargeted(s)
  BY <1>4 DEF Untargeted, l
<1> QED BY <1>2, <1>4, <1>6, <1>7, <1>8, <1>9 DEF s, l

\* The bytes a target that fits leaves unexamined.
LEMMA UnexaminedOf ==
    ASSUME Given, NEW t, NEW d, NEW m, NEW e \in Int, Fits(t, d, m, e), NEW x \in Nat
    PROVE  req.base + x \in Unexamined(t)
             <=> /\ d <= x /\ x < d + t.captured
                 /\ e = Unmeasured \/ x >= d + e
<1>1. req.base \in Nat
  BY GivenTypes DEF IsRange
<1>2. d \in Nat /\ t.captured \in Nat /\ t.range.base = req.base + d /\ t.examined = e
  BY DEF Fits
<1> QED BY <1>1, <1>2 DEF Unexamined

\* A target whose range reaches a captured byte that it leaves unexamined names it.
LEMMA Named ==
    ASSUME Given, NEW t, NEW d, NEW m, NEW e \in Int, Fits(t, d, m, e),
           NEW x \in 0..(capture.captured.size - 1), d <= x, x < d + m,
           e = Unmeasured \/ x >= d + e
    PROVE  req.base + x \in Unexamined(t)
<1>1. capture.captured.size \in Nat
  BY CapturedBytesAre, GivenTypes DEF IsRange
<1>2. /\ d \in Nat /\ m \in Nat /\ t.captured \in 0..m
      /\ (t.captured < m => d + t.captured >= capture.captured.size)
  BY DEF Fits
<1>3. x < d + t.captured /\ x \in Nat
  BY <1>1, <1>2
<1> QED BY <1>3, UnexaminedOf

\* A byte past what a scope searched is in a target, or the gap has no place.
LEMMA AnsweredWhenInv == IInv => EveryByteAnswered
<1> SUFFICES ASSUME IInv, NEW k \in Evaluated, NEW a \in Bytes(capture.captured)
             PROVE  \/ a < req.base + Claimed(closures[k].scope)
                    \/ closures[k].untargeted
                    \/ \E j \in DOMAIN closures : \E t \in closures[j].targets : a \in Unexamined(t)
  BY DEF EveryByteAnswered
<1> DEFINE s == closures[k].scope
           l == ledger[s]
           n == capture.captured.size
           x == a - req.base
           Answers == \E j \in DOMAIN closures : \E t \in closures[j].targets : a \in Unexamined(t)
<1>1. /\ Given /\ PlaceInv /\ closures = Answer /\ analyzer \in AnalyzerNames
      /\ s \in Scopes /\ ~Declined(s) /\ Reached(s) /\ l \in LedgerType
      /\ closures[k].targets = Targets(s) /\ closures[k].untargeted = Untargeted(s)
      /\ got \in 1..Eval.size /\ got <= n /\ Read = got /\ pc = "done"
      /\ (l.short <=> got < Eval.size)
      /\ l.applied \in 0..got /\ (l.cursor = Unmeasured \/ l.cursor \in 0..got)
      /\ analyzer = "cs-beacon" /\ l.cut
            => l.applied = IF l.cursor = Unmeasured THEN 0 ELSE l.cursor
      /\ ~l.cut /\ ~l.gap /\ l.details = {}
           /\ ~(s = "c2_context" /\ ledger["pipe_name"].cut) => l.applied = got
      /\ l.details = {} => Claimed(s) = l.applied
  BY EvaluatedIs
<1>2. k \in DOMAIN closures
  BY DEF Evaluated
<1> HIDE DEF s, l
<1>3. /\ req.base \in Nat /\ req.size \in Nat /\ n \in 0..req.size
      /\ Bytes(capture.captured) = req.base..(req.base + n - 1)
  BY <1>1, GivenTypes, CapturedBytesAre DEF IsRange
<1> HIDE DEF n
<1>4. x \in 0..(n - 1) /\ a = req.base + x
  BY <1>3
<1>5. Eval.size \in 1..req.size /\ place.boundary.truncated = (Eval.size < req.size)
  BY <1>1 DEF PlaceInv
<1>6. got \in Nat /\ got >= 1 /\ Eval.size \in Nat /\ x \in Nat /\ x < n /\ x < req.size
  BY <1>1, <1>3, <1>4, <1>5
<1> HIDE DEF x
<1>7. \A t \in Targets(s) : a \in Unexamined(t) => Answers
  BY <1>1, <1>2
<1>8. \A t, d, m, e : e \in Int /\ Fits(t, d, m, e) /\ d <= x /\ x < d + m
                        /\ (e = Unmeasured \/ x >= d + e) => a \in Unexamined(t)
  BY <1>1, <1>4, Named DEF n
<1> HIDE DEF Answers
<1>9. CASE x >= Eval.size
  <2>1. Truncated \in Targets(s)
    <3>1. Eval.size < req.size
      BY <1>3, <1>5, <1>6, <1>9
    <3>2. place.boundary.truncated
      BY <1>5, <3>1
    <3> QED BY <1>1, <3>2 DEF Targets
  <2>2. PICK c \in Nat : Fits(Truncated, 0, req.size, IF Eval.size <= c THEN Eval.size ELSE c)
    BY <1>1, <1>6, StampedTargets DEF Truncated
  <2> DEFINE e == IF Eval.size <= c THEN Eval.size ELSE c
  <2>3. e \in Int /\ x >= 0 + e /\ 0 <= x /\ x < 0 + req.size
    BY <1>3, <1>6, <1>9
  <2> HIDE DEF e
  <2>4. a \in Unexamined(Truncated)
    BY <1>8, <2>2, <2>3 DEF e
  <2> QED BY <1>7, <2>1, <2>4 DEF Answers
<1>10. CASE got <= x /\ x < Eval.size
  <2> DEFINE t == Stamped(EvalTarget(Unmeasured), got)
  <2>1. t \in Targets(s)
    <3>1. l.short
      BY <1>1, <1>6, <1>10
    <3> QED BY <3>1 DEF Targets, l
  <2>2. PICK c \in Nat : Fits(t, 0, Eval.size, IF got <= c THEN got ELSE c)
    BY <1>1, <1>6, StampedTargets
  <2> DEFINE e == IF got <= c THEN got ELSE c
  <2>3. e \in Int /\ x >= 0 + e /\ 0 <= x /\ x < 0 + Eval.size
    BY <1>6, <1>10
  <2> HIDE DEF e, t
  <2>4. a \in Unexamined(t)
    BY <1>8, <2>2, <2>3 DEF e
  <2> QED BY <1>7, <2>1, <2>4 DEF Answers
<1>11. CASE x < got
  <2>1. x < Eval.size
    BY <1>1, <1>6, <1>11
  <2>2. a \in Unexamined(EvalTarget(Unmeasured))
    <3>1. Fits(EvalTarget(Unmeasured), 0, Eval.size, Unmeasured)
      BY <1>1, EvalTargetFits
    <3>2. Unmeasured \in Int /\ 0 <= x /\ x < 0 + Eval.size
      BY <1>6, <2>1 DEF Unmeasured
    <3> QED BY <1>8, <3>1, <3>2
  <2>3. CASE l.details # {}
    BY <1>1, <2>3 DEF Untargeted, l, s
  <2>4. CASE l.gap
    <3>1. EvalTarget(Unmeasured) \in Targets(s)
      BY <2>4 DEF Targets, l
    <3> QED BY <1>7, <2>2, <3>1 DEF Answers
  <2>5. CASE l.cut /\ l.details = {}
    <3>1. BudgetTargets(s) \subseteq Targets(s)
      BY <2>5 DEF Targets, l
    <3>2. CASE analyzer = "obfuscation"
      BY <1>1, <2>5, <3>2 DEF Untargeted, l, s
    <3>3. CASE analyzer = "cs-beacon" /\ l.cursor # Unmeasured
      <4>1. l.applied = l.cursor /\ l.cursor \in 0..got
        BY <1>1, <2>5, <3>3
      <4>2. CASE x < l.cursor
        <5>1. a < req.base + l.applied
          BY <1>3, <1>4, <1>6, <4>1, <4>2
        <5> QED BY <1>1, <2>5, <5>1 DEF l, s
      <4>3. CASE l.cursor <= x
        <5> DEFINE c == l.cursor
        <5>1. c \in Nat /\ c < req.size
          BY <1>3, <1>6, <4>1, <4>3
        <5>2. Min({c, req.size}) = c
          BY <1>3, <5>1, MinOfTwo
        <5>3. SuffixAfter(req, c).size = req.size - c /\ req.size - c # 0
          BY <1>3, <5>1 DEF SuffixAfter, VirtualRange
        <5> HIDE DEF c
        <5>4. PICK t \in Residual(c) : Fits(t, c, req.size - c, 0)
          BY <1>1, <5>1, <5>2, <5>3, SuffixFits DEF Residual
        <5>5. c <= x /\ x < c + (req.size - c) /\ x >= c + 0 /\ 0 \in Int
          BY <1>3, <1>6, <4>3, <5>1 DEF c
        <5>6. a \in Unexamined(t)
          BY <1>8, <5>4, <5>5
        <5>7. t \in BudgetTargets(s)
          <6>1. Read # 0
            BY <1>1, <1>6
          <6>2. BudgetTargets(s) = LET residual == Residual(c)
                                   IN IF residual # {} THEN residual ELSE {EvalTarget(c)}
            BY <3>3, <6>1 DEF BudgetTargets, l, c
          <6> QED BY <5>4, <6>2
        <5> QED BY <1>7, <3>1, <5>6, <5>7 DEF Answers
      <4> QED BY <1>6, <4>1, <4>2, <4>3
    <3>4. CASE analyzer # "obfuscation" /\ ~(analyzer = "cs-beacon" /\ l.cursor # Unmeasured)
      <4>1. Read # 0 /\ got # Unmeasured
        BY <1>1, <1>6 DEF Unmeasured
      <4>2. EvalTarget(Unmeasured) \in BudgetTargets(s)
        BY <3>4, <4>1 DEF BudgetTargets, l
      <4> QED BY <1>7, <2>2, <3>1, <4>2 DEF Answers
    <3> QED BY <3>2, <3>3, <3>4
  <2>6. CASE s = "c2_context" /\ ledger["pipe_name"].cut
    <3>1. analyzer = "pipe"
      BY <1>1, <2>6, ScopesAre DEF AnalyzerNames
    <3>2. "pipe_name" \in Scopes /\ DOMAIN Granted[analyzer] = {1, 2}
          /\ Granted[analyzer][1] = "pipe_name"
      BY <1>1, <3>1, ScopesAre
    <3>3. ~Declined("pipe_name")
      <4>1. Accepts("pipe_name") = Accepts("c2_context")
        BY DEF Accepts
      <4>2. ~Declined("c2_context")
        BY <1>1, <2>6
      <4> QED BY <4>1, <4>2 DEF Declined
    <3>4. 1 \in DOMAIN closures /\ closures[1].targets = Targets("pipe_name")
      BY <1>1, <3>2, <3>3 DEF Answer, Closure
    <3>5. EvalTarget(Unmeasured) \in BudgetTargets("pipe_name")
      <4>1. Read # 0 /\ got # Unmeasured
        BY <1>1, <1>6 DEF Unmeasured
      <4> QED BY <3>1, <4>1 DEF BudgetTargets
    <3>6. EvalTarget(Unmeasured) \in Targets("pipe_name")
      BY <2>6, <3>5 DEF Targets
    <3> QED BY <2>2, <3>4, <3>6 DEF Answers
  <2>7. CASE l.applied = got /\ l.details = {}
    <3>1. a < req.base + l.applied
      BY <1>3, <1>4, <1>6, <1>11, <2>7
    <3> QED BY <1>1, <2>7, <3>1 DEF l, s
  <2> QED BY <1>1, <2>3, <2>4, <2>5, <2>6, <2>7
<1> QED BY <1>6, <1>9, <1>10, <1>11 DEF Answers

\* A target that fits says where the dump keeps it, and what it measures as unexamined
\* starts where it says.
LEMMA FitsTell ==
    ASSUME Given, NEW t, NEW d, NEW m, NEW e \in Int, Fits(t, d, m, e), NEW done \in Nat,
           e # Unmeasured => \A x \in Nat : x >= d + e /\ x < d + t.captured => x >= done
    PROVE  /\ t.examined # Unmeasured => \A a \in Unexamined(t) : a >= req.base + done
           /\ WellFormed /\ ~capture.overlapping /\ t.range.size > 0 /\ t.captured > 0 =>
                t.offset = SegmentFileOffset(table, t.range.base)
<1>1. t.examined = e /\ d \in Nat /\ t.captured \in Nat /\ t.range.base = req.base + d
  BY DEF Fits
<1>2. req.base \in Nat
  BY GivenTypes DEF IsRange
<1>3. ASSUME e # Unmeasured, NEW a \in Unexamined(t) PROVE a >= req.base + done
  <2>1. a \in Int /\ a >= req.base + d
    BY <1>1, <1>2 DEF Unexamined
  <2>2. a - req.base \in Nat /\ req.base + (a - req.base) = a
    BY <1>1, <1>2, <2>1
  <2>3. a - req.base >= d + e /\ a - req.base < d + t.captured
    BY <1>1, <1>2, <1>3, <2>1 DEF Unexamined
  <2>4. a - req.base >= done
    BY <1>3, <2>2, <2>3
  <2> QED BY <1>2, <2>1, <2>4
<1> QED BY <1>1, <1>3 DEF Fits

\* A target's unexamined part begins where its scope had got to.
LEMMA NamedWhenInv == IInv => NamedIsUnread
<1> DEFINE Tells(t, done) ==
             /\ t.examined # Unmeasured => \A a \in Unexamined(t) : a >= req.base + done
             /\ WellFormed /\ ~capture.overlapping /\ t.range.size > 0 /\ t.captured > 0 =>
                  t.offset = SegmentFileOffset(table, t.range.base)
<1> SUFFICES ASSUME IInv, NEW k \in Evaluated, NEW t \in closures[k].targets
             PROVE  Tells(t, ledger[closures[k].scope].applied)
  BY DEF NamedIsUnread
<1> DEFINE s == closures[k].scope
           l == ledger[s]
<1>1. /\ Given /\ PlaceInv /\ closures[k].targets = Targets(s)
      /\ got \in 1..Eval.size /\ Read = got /\ ~l.failed
      /\ l.applied \in 0..got /\ (l.cursor = Unmeasured \/ l.cursor \in 0..got)
      /\ analyzer = "cs-beacon" /\ l.cut
            => l.applied = IF l.cursor = Unmeasured THEN 0 ELSE l.cursor
  BY EvaluatedIs
<1> HIDE DEF s, l
<1>2. Eval.size \in 1..req.size /\ req.size \in Nat /\ req.size > 0
  BY <1>1, GivenTypes DEF PlaceInv, IsRange
<1>3. /\ got \in Nat /\ got >= 1 /\ Eval.size \in Nat /\ got <= Eval.size /\ Eval.size <= req.size
      /\ l.applied \in Nat /\ l.applied <= got
  BY <1>1, <1>2
<1> DEFINE done == l.applied
<1>4. done \in Nat
  BY <1>3
<1>5. \A d, m, e : e \in Int /\ Fits(t, d, m, e)
                    /\ (e # Unmeasured
                          => \A x \in Nat : x >= d + e /\ x < d + t.captured => x >= done)
                    => Tells(t, done)
  BY <1>1, <1>4, FitsTell
<1> HIDE DEF Tells, done
<1>6. t = Stamped(EvalTarget(Unmeasured), got) => Tells(t, done)
  <2> SUFFICES ASSUME t = Stamped(EvalTarget(Unmeasured), got) PROVE Tells(t, done)
    OBVIOUS
  <2>1. PICK c \in Nat : /\ Fits(t, 0, Eval.size, IF got <= c THEN got ELSE c)
                         /\ t.captured = c
    BY <1>1, <1>3, StampedTargets
  <2> DEFINE e == IF got <= c THEN got ELSE c
  <2>2. e \in Int /\ \A x \in Nat : x >= 0 + e /\ x < 0 + t.captured => x >= done
    BY <1>3, <2>1 DEF done
  <2> HIDE DEF e
  <2>3. Fits(t, 0, Eval.size, e)
    BY <2>1 DEF e
  <2> QED BY <1>5, <2>2, <2>3
<1>7. t = Truncated => Tells(t, done)
  <2> SUFFICES ASSUME t = Truncated PROVE Tells(t, done)
    OBVIOUS
  <2>1. PICK c \in Nat : /\ Fits(t, 0, req.size, IF Eval.size <= c THEN Eval.size ELSE c)
                         /\ t.captured = c
    BY <1>1, <1>3, StampedTargets DEF Truncated
  <2> DEFINE e == IF Eval.size <= c THEN Eval.size ELSE c
  <2>2. e \in Int /\ \A x \in Nat : x >= 0 + e /\ x < 0 + t.captured => x >= done
    BY <1>3, <2>1 DEF done
  <2> HIDE DEF e
  <2>3. Fits(t, 0, req.size, e)
    BY <2>1 DEF e
  <2> QED BY <1>5, <2>2, <2>3
<1>8. t = EvalTarget(Unmeasured) => Tells(t, done)
  <2> SUFFICES ASSUME t = EvalTarget(Unmeasured) PROVE Tells(t, done)
    OBVIOUS
  <2>1. Fits(t, 0, Eval.size, Unmeasured)
    BY <1>1, EvalTargetFits
  <2> QED BY <1>5, <2>1 DEF Unmeasured
<1>9. ASSUME l.cut, t \in BudgetTargets(s) PROVE Tells(t, done)
  <2>1. Read # 0 /\ got # Unmeasured
    BY <1>1, <1>3 DEF Unmeasured
  <2>2. \/ t = EvalTarget(Unmeasured)
        \/ /\ analyzer = "cs-beacon" /\ l.cursor # Unmeasured
           /\ t \in Residual(l.cursor) \/ t = EvalTarget(l.cursor)
    BY <1>9, <2>1 DEF BudgetTargets, l
  <2>3. CASE analyzer = "cs-beacon" /\ l.cursor # Unmeasured
    <3> DEFINE c == l.cursor
    <3>1. done = c /\ c \in 0..got /\ c \in Nat
      BY <1>1, <1>3, <1>9, <2>3 DEF done
    <3>2. ASSUME t = EvalTarget(c) PROVE Tells(t, done)
      <4>1. Fits(t, 0, Eval.size, c)
        BY <1>1, <3>2, EvalTargetFits
      <4>2. \A x \in Nat : x >= 0 + c /\ x < 0 + t.captured => x >= done
        BY <3>1
      <4> QED BY <1>5, <3>1, <4>1, <4>2
    <3>3. ASSUME t \in Residual(c) PROVE Tells(t, done)
      <4>1. Min({c, req.size}) = c
        BY <1>2, <1>3, <3>1, MinOfTwo
      <4>2. SuffixAfter(req, c).size = req.size - c
        BY DEF SuffixAfter, VirtualRange
      <4>3. c < req.size
        BY <1>2, <1>3, <3>1, <3>3, <4>1, <4>2 DEF Residual
      <4>4. Fits(t, c, req.size - c, 0)
        BY <1>1, <3>1, <3>3, <4>1, <4>3, SuffixFits DEF Residual
      <4>5. \A x \in Nat : x >= c + 0 /\ x < c + t.captured => x >= done
        BY <3>1
      <4> QED BY <1>5, <4>4, <4>5
    <3> QED BY <1>8, <2>2, <3>2, <3>3
  <2> QED BY <1>8, <2>2, <2>3
<1>10. \/ t = Stamped(EvalTarget(Unmeasured), got) \/ t = Truncated
       \/ t = EvalTarget(Unmeasured) \/ (l.cut /\ t \in BudgetTargets(s))
  BY <1>1 DEF Targets, l
<1>11. Tells(t, done)
  BY <1>6, <1>7, <1>8, <1>9, <1>10
<1> QED BY <1>11 DEF done, l, s

\* Every answer of a rescan is one ObservationClosure's constructor accepts, in the
\* order of the granted scopes: its read and its status fit each other and its targets'
\* extents nest (the adapters of dumpex.hunt.*.targeted).
THEOREM TypeCorrect == Spec => []TypeOK
<1> QED BY Invariance, TypesHold, PTL

\* A scope that calls a request complete has looked at each of its bytes, with every
\* pattern but those the same answer says were not applied (the XOR sub-layer outside
\* private memory, the C2 patterns without a pipe name), and the dump holds each of them
\* in one place (the status the adapters' closures carry).
THEOREM CompleteMeansWhole == Spec => []CompleteIsWhole
<1> QED BY Invariance, CompleteWhenInv, PTL

\* Whatever stops a rescan, no captured byte goes unsearched in silence: a closure names
\* it, states a gap, or says which patterns were not applied to it and the others were
\* (the _limitations and the measurements of the adapters).
THEOREM NoByteUnanswered == Spec => []EveryByteAnswered
<1> QED BY Invariance, AnsweredWhenInv, PTL

\* What a closure measures as unexamined is what its scope has not finished with, at the
\* place in the file the dump keeps it (with_examined_extent, _budget_residual_targets,
\* region_scan_target).
THEOREM TargetsAreUnread == Spec => []NamedIsUnread
<1> QED BY Invariance, NamedWhenInv, PTL
==============================================================================
