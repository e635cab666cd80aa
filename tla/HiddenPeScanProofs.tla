-------------------------- MODULE HiddenPeScanProofs --------------------------
(***************************************************************************)
(* For any regions, markers, window sizes, limits and read results: the    *)
(* hidden-PE search of HiddenPeScan hands each marker over once, names the *)
(* bytes it did not search and no others, and stays inside the limits of   *)
(* the whole hunt.                                                         *)
(***************************************************************************)
EXTENDS HiddenPeScan, SizesProofs

Searching == pc \in {"read", "probe", "search"}
InRegion  == Searching \/ pc = "close"

\* The markers of the region, and the history, are what they are declared to be.
DataType ==
    /\ looked \in [1..Len(regions) -> SUBSET Nat]
    /\ \A q \in 1..Len(regions) : \E e \in 0..regions[q] : looked[q] = 0..(e - 1)
    /\ marks \subseteq Nat /\ found \in [marks -> {0, 1}] /\ handed \in Nat
    /\ InRegion => r <= Len(regions) /\ \A x \in marks : x + MarkerLen <= Size

WindowEnd == IF outer + Window <= Size THEN outer + Window ELSE Size

\* A retry covers one window and starts inside it.
Retrying == InRegion /\ InRetry => outer < Size /\ outer <= inner.pos /\ inner.end = WindowEnd

\* The end of a whole piece: a full read, or the end of the span.
PieceEnd == LET w == IF InRetry THEN Degraded ELSE Window
            IN  IF Pos + w <= End THEN Pos + w ELSE End

\* The bytes being searched are those the loops asked for.
PieceFits ==
    /\ pc = "probe" => InRetry /\ Pos < End
    /\ pc = "search" =>
         /\ piece.pos = Pos /\ Pos < End /\ piece.pos + piece.len <= Size
         /\ \/ piece.from = piece.pos
            \/ piece.pos <= piece.from /\ piece.from < piece.pos + piece.len
         /\ piece.then = "advance" => piece.pos + piece.len = PieceEnd
         /\ piece.then = "short" => piece.pos + piece.len < Size
         /\ piece.then = "budget" => piece.len > 0

\* What was searched is exactly the bytes before `examined`, and the loops are
\* nowhere ahead of them; at offset 0 nothing has been searched.
Seen ==
    /\ InRegion => looked[r] = 0..(gaps.examined - 1) /\ gaps.examined <= Size
    /\ Searching => /\ Pos <= gaps.examined \/ (End <= Pos /\ End <= gaps.examined)
                    /\ ~gaps.not_started /\ (Pos = 0 => gaps.examined = 0)
    /\ pc = "close" /\ gaps.not_started => gaps.examined = 0
    /\ \A q \in 1..Len(regions) : q > r \/ (q = r /\ pc = "region") => looked[q] = {}

\* A marker has been handed over if the loops are past it, else not yet.
Passed(x) == IF pc = "search" THEN x < piece.from
             ELSE IF InRetry THEN x < inner.pos /\ x + 1 < inner.end
             ELSE x < outer

Once == Searching => \A x \in marks : found[x] = 1 <=> Passed(x)

NoGapYet == ~gaps.read_failed /\ ~gaps.short_read /\ ~gaps.truncated

\* A region left without a gap was searched to its end.
AtEnd == pc = "close" /\ NoGapYet => gaps.examined = Size /\ \A x \in marks : found[x] = 1

Covered(q) == \A x \in Bytes(q) \ looked[q] : \E t \in GapsOf(q) : t.examined = Unknown \/ x \in Named(t)

\* The regions behind the search have their gaps, and those are real.
Reported ==
    /\ \A t \in targets : t.region < r
    /\ \A q \in 1..(r - 1) : Covered(q)
    /\ RemainderIsExact /\ NotStartedIsTrue
    /\ \A t \in targets : t.examined # Unknown => t.examined < regions[t.region]
    /\ Ended => r = Len(regions) + 1

Extents == [q \in 1..Len(regions) |-> Cardinality(looked[q])]
InHand  == IF pc = "search" THEN piece.len ELSE 0

\* Each byte searched was paid for, each marker handed over drew a validation.
Spent ==
    /\ budget.bytes >= 0
    /\ Total(Extents, Len(regions)) + budget.bytes + InHand <= limits.total_bytes
    /\ handed + budget.validations <= limits.validations_total
    /\ handed <= limits.validations_total
    /\ EvidenceAccounted

IInv == /\ Typed /\ DataType /\ Retrying /\ PieceFits /\ Seen /\ Once /\ AtEnd /\ Reported /\ Spent
------------------------------------------------------------------------------
BudgetRecord == [reads: Int, bytes: Int, region_validations: Int, validations: Int,
                 validated: Nat, unvalidated: Nat, validated_dropped: Nat, unvalidated_dropped: Nat,
                 last: BudgetKinds \union {Unknown}]

GapsRecord == [read_failed: BOOLEAN, short_read: BOOLEAN, truncated: BOOLEAN,
               not_started: BOOLEAN, examined: Nat, kind: BudgetKinds \union {Unknown}]

PieceRecord == [pos: Nat, len: Nat, from: Nat, then: {"advance", "short", "budget", "probed"}]

TargetRecord == [region: 1..Len(regions),
                 code: {"read_failed", "short_read", "truncated", "not_started"},
                 examined: Nat \union {Unknown}, kind: BudgetKinds \union {Unknown}]

LEMMA MinOfNaturals ==
    ASSUME NEW T, T \subseteq Nat, T # {}
    PROVE  Min(T) \in T /\ \A y \in T : Min(T) <= y
BY LeastNatural DEF Min

LEMMA Bounds ==
    ASSUME Typed
    PROVE  /\ regions \in Seq(Nat) /\ Len(regions) \in Nat
           /\ \A q \in 1..Len(regions) : regions[q] \in Nat /\ regions[q] > 0
           /\ r \in Nat /\ r >= 1 /\ r <= Len(regions) + 1
           /\ Window \in Nat /\ Degraded \in Nat /\ ValidateMax \in Nat
           /\ Degraded > 1 /\ Window > Degraded /\ ValidateMax > 0
           /\ outer \in Nat /\ inner.pos \in Nat /\ inner.end \in Nat
           /\ piece.pos \in Nat /\ piece.len \in Nat /\ piece.from \in Nat
           /\ piece.then \in {"advance", "short", "budget", "probed"}
           /\ gaps.examined \in Nat /\ gaps.not_started \in BOOLEAN
           /\ gaps.read_failed \in BOOLEAN /\ gaps.short_read \in BOOLEAN /\ gaps.truncated \in BOOLEAN
           /\ Unknown \notin Nat
<1>1. regions \in Seq(Nat \ {0}) /\ r \in 1..(Len(regions) + 1)
  BY HiddenPeAssumption DEF Typed
<1>2. regions \in Seq(Nat) /\ Len(regions) \in Nat
      /\ \A q \in 1..Len(regions) : regions[q] \in Nat /\ regions[q] > 0
  BY <1>1
<1>3. /\ Window \in Nat /\ Degraded \in Nat /\ ValidateMax \in Nat
      /\ Degraded > 1 /\ Window > Degraded /\ ValidateMax > 0 /\ Unknown \notin Nat
  BY HiddenPeAssumption DEF MarkerLen
<1>4. /\ outer \in Nat /\ inner.pos \in Nat /\ inner.end \in Nat
      /\ piece.pos \in Nat /\ piece.len \in Nat /\ piece.from \in Nat
      /\ piece.then \in {"advance", "short", "budget", "probed"}
  BY DEF Typed
<1>5. /\ gaps.examined \in Nat /\ gaps.not_started \in BOOLEAN
      /\ gaps.read_failed \in BOOLEAN /\ gaps.short_read \in BOOLEAN /\ gaps.truncated \in BOOLEAN
  BY DEF Typed
<1>6. r \in Nat /\ r >= 1 /\ r <= Len(regions) + 1
  BY <1>1, <1>2
<1> QED BY <1>2, <1>3, <1>4, <1>5, <1>6

LEMMA BudgetFields ==
    ASSUME Typed
    PROVE  /\ budget.reads \in Int /\ budget.bytes \in Int /\ budget.region_validations \in Int
           /\ budget.validations \in Int /\ budget.validated \in Nat /\ budget.unvalidated \in Nat
           /\ budget.validated_dropped \in Nat /\ budget.unvalidated_dropped \in Nat
           /\ budget.last \in BudgetKinds \union {Unknown}
           /\ limits.total_bytes \in Nat /\ limits.reads_per_region \in Nat
           /\ limits.validations_per_region \in Nat /\ limits.validations_total \in Nat
           /\ limits.validated \in Nat /\ limits.unvalidated \in Nat
<1>1. limits \in Limit
  BY HiddenPeAssumption DEF Typed
<1>2. /\ limits.total_bytes \in Nat /\ limits.reads_per_region \in Nat
      /\ limits.validations_per_region \in Nat /\ limits.validations_total \in Nat
      /\ limits.validated \in Nat /\ limits.unvalidated \in Nat
  BY <1>1 DEF Limit
<1>3. /\ budget.reads \in Int /\ budget.bytes \in Int /\ budget.region_validations \in Int
      /\ budget.validations \in Int /\ budget.validated \in Nat /\ budget.unvalidated \in Nat
      /\ budget.validated_dropped \in Nat /\ budget.unvalidated_dropped \in Nat
      /\ budget.last \in BudgetKinds \union {Unknown}
  BY DEF Typed
<1> QED BY <1>2, <1>3

\* Windows and pieces advance by their size less the overlap.
LEMMA Steps ==
    /\ StepOf(Window) = Window - 1 /\ StepOf(Degraded) = Degraded - 1
    /\ MarkerLen = 2
<1>1. Window \in Nat /\ Degraded \in Nat /\ Degraded > 1 /\ Window > Degraded
  BY HiddenPeAssumption DEF MarkerLen
<1>2. Max({1, Window - 1}) = Window - 1 /\ Max({1, Degraded - 1}) = Degraded - 1
  <2>1. Window - 1 \in Int /\ Degraded - 1 \in Int /\ 1 <= Window - 1 /\ 1 <= Degraded - 1
    BY <1>1
  <2> QED BY <2>1, MaxOfTwo
<1>3. Overlap = 1
  BY DEF Overlap, MarkerLen
<1> QED BY <1>2, <1>3 DEF StepOf, MarkerLen

\* Where the loops are inside a region.
LEMMA SpanBounds ==
    ASSUME Typed, DataType, Retrying, InRegion
    PROVE  /\ r \in 1..Len(regions) /\ Size \in Nat /\ Size > 0 /\ Size = regions[r]
           /\ Pos \in Nat /\ End \in Nat /\ End <= Size
           /\ InRetry => /\ outer < Size /\ outer <= inner.pos /\ inner.end = WindowEnd
                         /\ Pos = inner.pos /\ End = inner.end
           /\ ~InRetry => Pos = outer /\ End = Size
           /\ WindowEnd \in Nat /\ WindowEnd <= Size /\ (outer < Size => outer < WindowEnd)
           /\ \A x \in marks : x \in Nat /\ x + 2 <= Size
<1>1. r \in 1..Len(regions) /\ Size \in Nat /\ Size > 0 /\ Size = regions[r]
  BY SMTT(30), Bounds DEF DataType, Size
<1>2. WindowEnd \in Nat /\ WindowEnd <= Size /\ (outer < Size => outer < WindowEnd)
  <2>1. Window \in Nat /\ Window > 1 /\ outer \in Nat
    BY Bounds
  <2> HIDE DEF Size
  <2> QED BY <1>1, <2>1 DEF WindowEnd
<1>3. InRetry => /\ outer < Size /\ outer <= inner.pos /\ inner.end = WindowEnd
                 /\ Pos = inner.pos /\ End = inner.end
  BY DEF Retrying, Pos, End
<1>4. ~InRetry => Pos = outer /\ End = Size
  BY DEF Pos, End
<1>5. Pos \in Nat /\ End \in Nat /\ End <= Size
  <2>1. outer \in Nat /\ inner.pos \in Nat
    BY Bounds
  <2>2. CASE InRetry
    <3>1. Pos = inner.pos /\ End = WindowEnd
      BY <1>3, <2>2
    <3> HIDE DEF InRetry, Size
    <3> QED BY <1>2, <2>1, <3>1
  <2>3. CASE ~InRetry
    <3>1. Pos = outer /\ End = Size
      BY <1>4, <2>3
    <3>2. Size \in Nat
      BY <1>1
    <3> HIDE DEF InRetry, Size
    <3> QED BY <2>1, <3>1, <3>2
  <2> QED BY <2>2, <2>3
<1>6. \A x \in marks : x \in Nat /\ x + 2 <= Size
  BY Steps DEF DataType
<1> QED BY <1>1, <1>2, <1>3, <1>4, <1>5, <1>6

------------------------------------------------------------------------------
\* A list whose one entry grows by d has a total that grows by d.
LEMMA TotalEntry ==
    ASSUME NEW a \in Seq(Nat), NEW b \in Seq(Nat), Len(a) = Len(b), NEW k \in 1..Len(a), NEW d \in Nat,
           b[k] = a[k] + d, \A n \in 1..Len(a) : n # k => b[n] = a[n]
    PROVE  Total(b, Len(b)) = Total(a, Len(a)) + d
<1> DEFINE S == {n \in Nat : n <= Len(a) => Total(b, n) = Total(a, n) + (IF n < k THEN 0 ELSE d)}
<1>0. Len(a) \in Nat /\ k \in Nat /\ k >= 1 /\ k <= Len(a)
  OBVIOUS
<1>1. 0 \in S
  BY <1>0, TotalDefined
<1>2. ASSUME NEW n \in Nat, n \in S PROVE n + 1 \in S
  <2> SUFFICES ASSUME n + 1 <= Len(a)
               PROVE  Total(b, n + 1) = Total(a, n + 1) + (IF n + 1 < k THEN 0 ELSE d)
    OBVIOUS
  <2>1. n + 1 \in 1..Len(a) /\ (n + 1) - 1 = n /\ n \in 0..Len(a) /\ n <= Len(a)
    BY <1>0
  <2>2. Total(b, n) = Total(a, n) + (IF n < k THEN 0 ELSE d)
    BY <1>2, <2>1
  <2>3. Total(a, n + 1) = Total(a, n) + a[n + 1] /\ Total(b, n + 1) = Total(b, n) + b[n + 1]
    BY <2>1, TotalDefined
  <2>4. Total(a, n) \in Nat /\ Total(b, n) \in Nat /\ a[n + 1] \in Nat /\ b[n + 1] \in Nat
    <3>1. n \in 0..Len(b) /\ n + 1 \in 1..Len(b)
      BY <2>1
    <3>2. Total(a, n) \in Nat /\ Total(b, n) \in Nat
      BY <2>1, <3>1, TotalDefined
    <3>3. a[n + 1] \in Nat /\ b[n + 1] \in Nat
      BY SMTT(30), <2>1, <3>1
    <3> QED BY <3>2, <3>3
  <2>5. CASE n + 1 = k
    <3>1. b[n + 1] = a[n + 1] + d
      BY <2>5
    <3>2. n < k /\ ~(n + 1 < k)
      BY <2>5
    <3>3. Total(b, n) = Total(a, n)
      BY <2>2, <2>4, <3>2
    <3>4. Total(b, n + 1) = Total(a, n + 1) + d
      BY SMTT(30), <2>3, <2>4, <3>1, <3>3
    <3> QED BY <3>2, <3>4
  <2>6. CASE n + 1 # k
    <3>1. b[n + 1] = a[n + 1]
      BY <2>1, <2>6
    <3> QED BY SMTT(30), <2>2, <2>3, <2>4, <2>6, <3>1, <1>0
  <2> QED BY <2>5, <2>6
<1> HIDE DEF S
<1>3. \A n \in Nat : n \in S
  BY <1>1, <1>2, SetInduction
<1> QED BY <1>0, <1>3 DEF S

\* How many bytes of each region were searched.
LEMMA ExtentsAre ==
    ASSUME Typed, DataType
    PROVE  /\ Extents \in Seq(Nat) /\ Len(Extents) = Len(regions)
           /\ \A q \in 1..Len(regions) : \A e \in Nat :
                looked[q] = 0..(e - 1) => Extents[q] = e
           /\ Total(Extents, Len(regions)) \in Nat
<1>1. \A e \in Nat : Cardinality(0..(e - 1)) = e
  <2> SUFFICES ASSUME NEW e \in Nat PROVE Cardinality(0..(e - 1)) = e
    OBVIOUS
  <2>1. 0 \in Int /\ e - 1 \in Int
    OBVIOUS
  <2> QED BY <2>1, FS_Interval
<1>2. Len(regions) \in Nat
  BY Bounds
<1>3. \A q \in 1..Len(regions) : Cardinality(looked[q]) \in Nat
  <2> SUFFICES ASSUME NEW q \in 1..Len(regions) PROVE Cardinality(looked[q]) \in Nat
    OBVIOUS
  <2>1. PICK e \in 0..regions[q] : looked[q] = 0..(e - 1)
    BY DEF DataType
  <2>2. e \in Nat
    BY Bounds
  <2> QED BY <1>1, <2>1, <2>2
<1>4. Extents \in Seq(Nat) /\ Len(Extents) = Len(regions)
  BY <1>2, <1>3 DEF Extents
<1>5. \A q \in 1..Len(regions) : Extents[q] = Cardinality(looked[q])
  BY DEF Extents
<1>6. Total(Extents, Len(regions)) \in Nat
  BY <1>2, <1>4, TotalDefined
<1> QED BY <1>1, <1>4, <1>5, <1>6
------------------------------------------------------------------------------
SameSlots(b) ==
    /\ b.validations = budget.validations /\ b.region_validations = budget.region_validations
    /\ b.validated = budget.validated /\ b.unvalidated = budget.unvalidated
    /\ b.validated_dropped = budget.validated_dropped
    /\ b.unvalidated_dropped = budget.unvalidated_dropped

\* A step that costs n bytes and nothing else.
Paid(n) == /\ budget' \in BudgetRecord /\ SameSlots(budget')
           /\ budget'.bytes = budget.bytes - n /\ budget'.bytes >= 0

\* What a read may return, and what it costs.
LEMMA ReadsEffect ==
    ASSUME Typed, budget.bytes >= 0, NEW want \in Nat, want > 0, NEW result \in Reads(want)
    PROVE  /\ result.n \in Nat /\ result.n <= want
           /\ result.status \in {"budget", "failed", "ok", "short"}
           /\ result.status = "failed" => result.n = 0
           /\ result.status = "ok" => result.n = want
           /\ result.status = "short" => result.n < want
           /\ result.b \in BudgetRecord /\ SameSlots(result.b)
           /\ result.b.bytes = budget.bytes - result.n /\ result.b.bytes >= 0
<1> DEFINE b      == [budget EXCEPT !.reads = @ - 1]
           capped == Min({want, budget.bytes})
<1>1. b \in BudgetRecord /\ SameSlots(b) /\ b.bytes = budget.bytes
  <2>1. budget.reads - 1 \in Int /\ budget \in BudgetRecord
    BY SMTT(30), BudgetFields DEF Typed, BudgetRecord
  <2>2. PICK d \in Int : d = budget.reads - 1
    BY <2>1
  <2>3. b = [budget EXCEPT !.reads = d]
    BY <2>2
  <2> HIDE DEF b
  <2> QED BY <2>1, <2>3 DEF BudgetRecord, SameSlots
<1>2. capped \in Nat /\ capped <= want /\ capped <= budget.bytes
  <2>1. budget.bytes \in Int
    BY BudgetFields
  <2>2. Min({want, budget.bytes}) = IF want <= budget.bytes THEN want ELSE budget.bytes
    BY <2>1, MinOfTwo
  <2> QED BY <2>1, <2>2
<1>3. \A n \in Nat : n <= budget.bytes =>
         /\ [b EXCEPT !.bytes = @ - n] \in BudgetRecord /\ SameSlots([b EXCEPT !.bytes = @ - n])
         /\ [b EXCEPT !.bytes = @ - n].bytes = budget.bytes - n
  <2> SUFFICES ASSUME NEW n \in Nat, n <= budget.bytes
               PROVE  /\ [b EXCEPT !.bytes = budget.bytes - n] \in BudgetRecord
                      /\ SameSlots([b EXCEPT !.bytes = budget.bytes - n])
                      /\ [b EXCEPT !.bytes = budget.bytes - n].bytes = budget.bytes - n
    <3> HIDE DEF b
    <3> QED BY <1>1
  <2>1. budget.bytes - n \in Int
    BY BudgetFields
  <2>2. PICK d \in Int : d = budget.bytes - n
    BY <2>1
  <2> HIDE DEF b
  <2>3. [b EXCEPT !.bytes = d] \in BudgetRecord /\ [b EXCEPT !.bytes = d].bytes = d
    BY <1>1 DEF BudgetRecord
  <2>4. SameSlots([b EXCEPT !.bytes = d])
    BY <1>1 DEF BudgetRecord, SameSlots
  <2> QED BY <2>2, <2>3, <2>4
<1>4. \A k \in BudgetKinds :
         /\ [b EXCEPT !.last = k] \in BudgetRecord /\ SameSlots([b EXCEPT !.last = k])
         /\ [b EXCEPT !.last = k].bytes = budget.bytes
  <2> HIDE DEF b
  <2> QED BY <1>1 DEF BudgetRecord, SameSlots
<1>5. "reads_per_region" \in BudgetKinds /\ "total_bytes" \in BudgetKinds
  BY DEF BudgetKinds
<1>6. \/ result = [n |-> 0, status |-> "budget", b |-> [b EXCEPT !.last = "reads_per_region"]]
      \/ result = [n |-> 0, status |-> "budget", b |-> [b EXCEPT !.last = "total_bytes"]]
      \/ result = [n |-> 0, status |-> "failed", b |-> b]
      \/ \E n \in 0..capped :
           result = [n |-> n, status |-> IF capped < want THEN "budget" ELSE IF n = want THEN "ok" ELSE "short",
                     b |-> [b EXCEPT !.bytes = @ - n]]
  BY <1>1 DEF Reads
<1>7. budget.bytes \in Int
  BY BudgetFields
<1> HIDE DEF b, capped
<1>8. CASE \/ result = [n |-> 0, status |-> "budget", b |-> [b EXCEPT !.last = "reads_per_region"]]
           \/ result = [n |-> 0, status |-> "budget", b |-> [b EXCEPT !.last = "total_bytes"]]
  <2>1. PICK k \in BudgetKinds : result = [n |-> 0, status |-> "budget", b |-> [b EXCEPT !.last = k]]
    BY <1>5, <1>8
  <2>2. result.n = 0 /\ result.status = "budget" /\ result.b = [b EXCEPT !.last = k]
    BY <2>1
  <2>3. result.b \in BudgetRecord /\ SameSlots(result.b) /\ result.b.bytes = budget.bytes
    BY <1>4, <2>2
  <2>4. budget.bytes - 0 = budget.bytes
    BY <1>7
  <2> QED BY <2>2, <2>3, <2>4
<1>9. CASE result = [n |-> 0, status |-> "failed", b |-> b]
  BY <1>1, <1>7, <1>9
<1>10. CASE \E n \in 0..capped :
              result = [n |-> n, status |-> IF capped < want THEN "budget" ELSE IF n = want THEN "ok" ELSE "short",
                        b |-> [b EXCEPT !.bytes = @ - n]]
  <2>1. PICK n \in 0..capped :
              result = [n |-> n, status |-> IF capped < want THEN "budget" ELSE IF n = want THEN "ok" ELSE "short",
                        b |-> [b EXCEPT !.bytes = @ - n]]
    BY <1>10
  <2>2. n \in Nat /\ n <= want /\ n <= budget.bytes
    BY <1>2, <1>7, <2>1
  <2>3. result.n = n /\ result.b = [b EXCEPT !.bytes = @ - n]
        /\ result.status = (IF capped < want THEN "budget" ELSE IF n = want THEN "ok" ELSE "short")
    BY <2>1
  <2>4. result.b \in BudgetRecord /\ SameSlots(result.b)
        /\ result.b.bytes = budget.bytes - n /\ result.b.bytes >= 0
    BY <1>3, <1>7, <2>2, <2>3
  <2> QED BY <2>2, <2>3, <2>4
<1> QED BY <1>6, <1>8, <1>9, <1>10

\* What was paid for covers what was searched and what is in hand.
LEMMA SpentStays ==
    ASSUME Typed, DataType, Spent, NEW n \in Nat, Paid(n),
           InHand \in Nat, InHand' \in Nat, InHand' <= InHand + n,
           UNCHANGED <<regions, limits, looked, handed>>
    PROVE  Spent'
<1>1. Extents' = Extents
  BY DEF Extents
<1>2. Total(Extents, Len(regions)) \in Nat
  BY ExtentsAre
<1>3. Total(Extents, Len(regions))' = Total(Extents, Len(regions))
  BY <1>1 DEF Total
<1>4. /\ budget'.bytes >= 0 /\ budget'.bytes = budget.bytes - n /\ budget'.bytes \in Int
      /\ budget'.validations = budget.validations
  BY DEF Paid, SameSlots, BudgetRecord
<1>5. EvidenceAccounted'
  BY DEF Spent, EvidenceAccounted, Paid, SameSlots
<1>6. Total(Extents, Len(regions))' + budget'.bytes + InHand' <= limits.total_bytes
  <2>1. Total(Extents, Len(regions)) + budget.bytes + InHand <= limits.total_bytes
    BY DEF Spent
  <2>2. budget.bytes \in Int /\ limits.total_bytes \in Nat
    BY BudgetFields
  <2> QED BY SMTT(30), <1>2, <1>3, <1>4, <2>1, <2>2
<1>7. handed' + budget'.validations <= limits'.validations_total /\ handed' <= limits'.validations_total
  BY <1>4 DEF Spent
<1> QED BY <1>4, <1>5, <1>6, <1>7 DEF Spent

\* Searching the bytes from p to m of the current region adds what is new in them.
LEMMA LookedGrows ==
    ASSUME Typed, DataType, r <= Len(regions), looked[r] = 0..(gaps.examined - 1), gaps.examined <= Size,
           NEW p \in Nat, NEW m \in Nat, p <= gaps.examined, p <= m, m <= Size,
           looked' = [looked EXCEPT ![r] = @ \union (p..(m - 1))], UNCHANGED regions
    PROVE  LET e == IF gaps.examined <= m THEN m ELSE gaps.examined
           IN  /\ e \in Nat /\ e <= Size /\ e = Max({gaps.examined, m})
               /\ looked'[r] = 0..(e - 1)
               /\ looked' \in [1..Len(regions) -> SUBSET Nat]
               /\ \A q \in 1..Len(regions) : \E x \in 0..regions[q] : looked'[q] = 0..(x - 1)
               /\ \A q \in 1..Len(regions) : q # r => looked'[q] = looked[q]
               /\ Total(Extents, Len(regions))' = Total(Extents, Len(regions)) + (e - gaps.examined)
<1> DEFINE e == IF gaps.examined <= m THEN m ELSE gaps.examined
<1>0. r \in 1..Len(regions) /\ gaps.examined \in Nat /\ Size \in Nat /\ Size = regions[r]
  <2>1. r \in Nat /\ r >= 1 /\ Len(regions) \in Nat /\ gaps.examined \in Nat
    BY Bounds
  <2>2. r \in 1..Len(regions)
    BY <2>1
  <2>3. regions[r] \in Nat
    BY <2>2, Bounds
  <2> QED BY <2>1, <2>2, <2>3 DEF Size
<1>1. e \in Nat /\ e <= Size /\ e >= gaps.examined
  BY <1>0
<1>2. e = Max({gaps.examined, m})
  BY <1>0, MaxOfTwo
<1>3. looked'[r] = 0..(e - 1)
  <2>1. looked'[r] = (0..(gaps.examined - 1)) \union (p..(m - 1))
    BY <1>0 DEF DataType
  <2>2. (0..(gaps.examined - 1)) \union (p..(m - 1)) = 0..(e - 1)
    BY <1>0
  <2> QED BY <2>1, <2>2
<1>4. \A q \in 1..Len(regions) : q # r => looked'[q] = looked[q]
  BY DEF DataType
<1> HIDE DEF e
<1>5. looked' \in [1..Len(regions) -> SUBSET Nat]
  <2>1. p..(m - 1) \in SUBSET Nat
    OBVIOUS
  <2> QED BY <2>1 DEF DataType
<1>6. \A q \in 1..Len(regions) : \E x \in 0..regions[q] : looked'[q] = 0..(x - 1)
  <2> SUFFICES ASSUME NEW q \in 1..Len(regions) PROVE \E x \in 0..regions[q] : looked'[q] = 0..(x - 1)
    OBVIOUS
  <2>1. CASE q = r
    <3>1. e \in 0..regions[q]
      BY <1>0, <1>1, <2>1
    <3> QED BY <1>3, <2>1, <3>1
  <2>2. CASE q # r
    BY <1>4, <2>2 DEF DataType
  <2> QED BY <2>1, <2>2
<1>7. Total(Extents, Len(regions))' = Total(Extents, Len(regions)) + (e - gaps.examined)
  <2> DEFINE a == Extents
             b == [q \in 1..Len(regions) |-> Cardinality(looked'[q])]
  <2>1. Extents' = b
    BY DEF Extents
  <2>2. a \in Seq(Nat) /\ Len(a) = Len(regions) /\ a[r] = gaps.examined
    BY <1>0, ExtentsAre
  <2>3. Cardinality(0..(e - 1)) = e
    <3>1. 0 \in Int /\ e - 1 \in Int
      BY <1>1
    <3> QED BY <1>1, <3>1, FS_Interval
  <2>4. b[r] = e
    BY <1>0, <1>3, <2>3
  <2>5. \A q \in 1..Len(regions) : q # r => b[q] = a[q]
    BY <1>4 DEF Extents
  <2>6. Len(regions) \in Nat
    BY Bounds
  <2>7. \A q \in 1..Len(regions) : b[q] \in Nat
    <3> SUFFICES ASSUME NEW q \in 1..Len(regions) PROVE b[q] \in Nat
      OBVIOUS
    <3>1. a[q] \in Nat
      <4> HIDE DEF a
      <4> QED BY <2>2
    <3> HIDE DEF a, b
    <3> QED BY <1>1, <2>4, <2>5, <3>1
  <2>8. b \in Seq(Nat) /\ Len(b) = Len(regions)
    <3>1. b \in [1..Len(regions) -> Nat]
      BY <2>7
    <3> HIDE DEF b
    <3> QED BY <2>6, <3>1
  <2>9. e - gaps.examined \in Nat /\ b[r] = a[r] + (e - gaps.examined)
    <3> HIDE DEF a, b
    <3> QED BY SMTT(30), <1>0, <1>1, <2>2, <2>4
  <2> HIDE DEF a, b
  <2>10. Total(b, Len(b)) = Total(a, Len(a)) + (e - gaps.examined)
    <3>1. r \in 1..Len(a) /\ Len(a) = Len(b) /\ a \in Seq(Nat) /\ b \in Seq(Nat)
      BY <1>0, <2>2, <2>8
    <3>2. \A q \in 1..Len(a) : q # r => b[q] = a[q]
      BY <2>2, <2>5
    <3> QED BY <2>9, <3>1, <3>2, TotalEntry
  <2>11. Total(Extents, Len(regions))' = Total(b, Len(regions))
    BY <2>1 DEF Total
  <2> QED BY <2>2, <2>8, <2>10, <2>11 DEF a
<1> QED BY <1>1, <1>2, <1>3, <1>4, <1>5, <1>6, <1>7 DEF e

\* While a region is searched, the report of those behind it stands.
LEMMA ReportStands ==
    ASSUME Typed, Reported, UNCHANGED <<regions, r, targets>>, pc' \notin {"done", "raised"},
           \A q \in 1..Len(regions) : q # r => looked'[q] = looked[q]
    PROVE  Reported'
<1>1. \A t \in targets : t.region < r /\ t.region \in 1..Len(regions) /\ looked'[t.region] = looked[t.region]
  <2>1. \A t \in targets : t.region < r /\ t.region \in 1..Len(regions)
    BY DEF Reported, Typed
  <2>2. r \in Nat /\ Len(regions) \in Nat
    BY Bounds
  <2>3. \A t \in targets : t.region # r
    BY <2>1, <2>2
  <2> QED BY <2>1, <2>3
<1>2. \A t : Named(t)' = Named(t)
  BY DEF Named
<1>3. RemainderIsExact' /\ NotStartedIsTrue'
  BY <1>1, <1>2 DEF Reported, RemainderIsExact, NotStartedIsTrue, Bytes
<1>4. ASSUME NEW q \in 1..(r - 1) PROVE Covered(q)'
  <2>1. looked'[q] = looked[q]
    <3>1. r \in Nat /\ Len(regions) \in Nat /\ r <= Len(regions) + 1
      BY Bounds
    <3>2. q \in 1..Len(regions) /\ q # r
      BY <3>1
    <3> QED BY <3>2
  <2>2. Covered(q)
    BY DEF Reported
  <2> QED BY <2>1, <2>2, <1>2 DEF Covered, Bytes, GapsOf
<1> QED BY <1>1, <1>3, <1>4 DEF Reported, Ended
LEMMA SpanStands ==
    ASSUME UNCHANGED <<regions, r, outer, inner>>
    PROVE  /\ Size' = Size /\ Pos' = Pos /\ End' = End /\ InRetry' = InRetry
           /\ WindowEnd' = WindowEnd /\ PieceEnd' = PieceEnd
BY DEF Size, Pos, End, InRetry, WindowEnd, PieceEnd

\* What every step inside a region, but those that change the markers or the
\* history, leaves alone.
LEMMA DataStands ==
    ASSUME DataType, InRegion, UNCHANGED <<regions, r, marks, looked, found, handed>>
    PROVE  DataType'
<1>1. Size' = Size
  BY DEF Size
<1> QED BY <1>1 DEF DataType

------------------------------------------------------------------------------
THEOREM InitHolds == Init => IInv
<1> SUFFICES ASSUME Init PROVE IInv
  OBVIOUS
<1>1. /\ regions \in Hunts /\ limits \in Limits /\ r = 1 /\ pc = "region"
      /\ marks = {} /\ outer = 0 /\ inner = NoSpan /\ piece = NoPiece
      /\ gaps = NoGaps /\ targets = {}
      /\ looked = [q \in 1..Len(regions) |-> {}] /\ found = [x \in {} |-> 0] /\ handed = 0
      /\ budget = [reads |-> 0, bytes |-> limits.total_bytes,
                   region_validations |-> 0, validations |-> limits.validations_total,
                   validated |-> limits.validated, unvalidated |-> limits.unvalidated,
                   validated_dropped |-> 0, unvalidated_dropped |-> 0, last |-> Unknown]
  BY DEF Init
<1>2. Len(regions) \in Nat /\ \A q \in 1..Len(regions) : regions[q] \in Nat /\ regions[q] > 0
  <2>1. regions \in Seq(Nat \ {0})
    BY <1>1, HiddenPeAssumption
  <2> QED BY <2>1
<1>3. limits \in Limit
  BY <1>1, HiddenPeAssumption
<1>4. Typed
  <2>1. inner \in [pos: Nat, end: Nat]
    BY <1>1 DEF NoSpan
  <2>2. piece \in PieceRecord
    BY <1>1 DEF NoPiece, PieceRecord
  <2>3. gaps \in GapsRecord
    BY <1>1 DEF NoGaps, GapsRecord
  <2>4. budget \in BudgetRecord
    BY <1>1, <1>3 DEF BudgetRecord, Limit
  <2> QED BY <1>1, <1>2, <2>1, <2>2, <2>3, <2>4 DEF Typed, PieceRecord, GapsRecord, BudgetRecord
<1>5. DataType
  <2>1. \A q \in 1..Len(regions) : looked[q] = 0..(0 - 1) /\ 0 \in 0..regions[q]
    BY <1>1, <1>2
  <2> QED BY <1>1, <2>1 DEF DataType, InRegion, Searching
<1>6. Retrying /\ PieceFits /\ Once /\ AtEnd
  BY <1>1 DEF Retrying, PieceFits, Once, AtEnd, InRegion, Searching
<1>7. Seen
  BY <1>1 DEF Seen, InRegion, Searching
<1>8. Reported
  BY <1>1 DEF Reported, RemainderIsExact, NotStartedIsTrue, Ended
<1>9. Spent
  <2>1. Total(Extents, Len(regions)) = 0
    <3>1. Extents \in Seq(Nat) /\ Len(Extents) = Len(regions) /\ \A q \in 1..Len(regions) : Extents[q] = 0
      <4>1. \A q \in 1..Len(regions) : looked[q] = 0..(0 - 1)
        BY <1>1
      <4> QED BY <1>4, <1>5, <4>1, ExtentsAre
    <3> DEFINE S == {n \in Nat : n <= Len(regions) => Total(Extents, n) = 0}
    <3>2. 0 \in S
      BY <3>1, TotalDefined
    <3>3. ASSUME NEW n \in Nat, n \in S PROVE n + 1 \in S
      <4> SUFFICES ASSUME n + 1 <= Len(regions) PROVE Total(Extents, n + 1) = 0
        OBVIOUS
      <4>1. n + 1 \in 1..Len(regions) /\ (n + 1) - 1 = n /\ Total(Extents, n) = 0
        BY <1>2, <3>3
      <4>2. Total(Extents, n + 1) = Total(Extents, n) + Extents[n + 1]
        BY <3>1, <4>1, TotalDefined
      <4> QED BY <3>1, <4>1, <4>2
    <3> HIDE DEF S
    <3>4. \A n \in Nat : n \in S
      BY <3>2, <3>3, SetInduction
    <3> QED BY <1>2, <3>4 DEF S
  <2>2. /\ limits.total_bytes \in Nat /\ limits.validations_total \in Nat
        /\ limits.validated \in Nat /\ limits.unvalidated \in Nat
    BY <1>3 DEF Limit
  <2>3. EvidenceAccounted
    BY <1>1, <2>2 DEF EvidenceAccounted
  <2>4. InHand = 0
    BY <1>1 DEF InHand
  <2> QED BY <1>1, <2>1, <2>2, <2>3, <2>4 DEF Spent
<1> QED BY <1>4, <1>5, <1>6, <1>7, <1>8, <1>9 DEF IInv

\* The loops leave the region: at its end, or where a budget or a read stops them.
LEMMA LeaveKeeps ==
    ASSUME IInv, pc \in {"read", "probe"}, pc' = "close", NEW n \in Nat, Paid(n),
           gaps' \in GapsRecord, gaps'.examined = gaps.examined,
           gaps'.not_started => Pos = 0,
           NoGapYet' => ~InRetry /\ End <= Pos,
           UNCHANGED <<regions, limits, r, marks, outer, inner, piece, targets, looked, found, handed>>
    PROVE  IInv'
<1>0. Typed /\ DataType /\ Retrying /\ InRegion /\ Searching
  BY DEF IInv, InRegion, Searching
<1>1. Typed'
  BY <1>0 DEF Typed, Paid, BudgetRecord, GapsRecord
<1>2. DataType'
  BY <1>0, DataStands
<1>3. Retrying'
  BY <1>0, SpanStands DEF Retrying
<1>4. PieceFits' /\ Once'
  BY DEF PieceFits, Once, Searching
<1>5. Seen'
  BY <1>0, SpanStands DEF IInv, Seen, Searching, InRegion
<1>6. AtEnd'
  <2> SUFFICES ASSUME NoGapYet' PROVE gaps'.examined = Size /\ \A x \in marks : found[x] = 1
    BY SpanStands DEF AtEnd
  <2>1. ~InRetry /\ End <= Pos /\ pc # "search"
    <3>1. pc # "search"
      OBVIOUS
    <3> QED BY <3>1
  <2>2. /\ Size \in Nat /\ Pos = outer /\ End = Size /\ outer \in Nat /\ gaps.examined \in Nat
        /\ \A x \in marks : x \in Nat /\ x + 2 <= Size
    BY <1>0, <2>1, SpanBounds, Bounds
  <2>3. gaps.examined = Size
    <3>1. gaps.examined <= Size /\ (Pos <= gaps.examined \/ End <= gaps.examined)
      BY <1>0 DEF IInv, Seen
    <3> QED BY <2>1, <2>2, <3>1
  <2>4. ASSUME NEW x \in marks PROVE found[x] = 1
    <3>1. x < outer
      BY <2>1, <2>2
    <3>2. Passed(x)
      BY <2>1, <3>1 DEF Passed
    <3> QED BY <1>0, <3>2 DEF IInv, Once
  <2> QED BY <2>3, <2>4
<1>7. Reported'
  BY <1>0, ReportStands DEF IInv
<1>8. Spent'
  <2>1. InHand = 0 /\ InHand' = 0 /\ 0 \in Nat /\ 0 <= 0 + n
    BY DEF InHand
  <2> QED BY <1>0, <2>1, SpentStays DEF IInv
<1> QED BY <1>1, <1>2, <1>3, <1>4, <1>5, <1>6, <1>7, <1>8 DEF IInv

\* Bytes that came back are searched.
LEMMA SearchKeeps ==
    ASSUME IInv, pc \in {"read", "probe"}, Pos < End, NEW n \in Nat, Paid(n), Pos + n <= Size,
           NEW then \in {"advance", "short", "budget", "probed"},
           then = "advance" => Pos + n = PieceEnd,
           then = "short" => Pos + n < Size,
           then = "budget" => n > 0,
           Search(Pos, n, then),
           UNCHANGED <<regions, limits, r, marks, outer, inner, gaps, targets, looked, found, handed>>
    PROVE  IInv'
<1>0. Typed /\ DataType /\ Retrying /\ InRegion /\ Searching
  BY DEF IInv, InRegion, Searching
<1>1. piece' = [pos |-> Pos, len |-> n, from |-> Pos, then |-> then] /\ pc' = "search"
  BY DEF Search
<1>2. Pos \in Nat /\ End \in Nat
  BY <1>0, SpanBounds
<1>3. Typed'
  <2>1. piece' \in PieceRecord
    BY <1>1, <1>2 DEF PieceRecord
  <2> QED BY <1>0, <1>1, <2>1 DEF Typed, Paid, BudgetRecord, PieceRecord
<1>4. DataType'
  BY <1>0, DataStands
<1>5. Retrying'
  BY <1>0, SpanStands DEF Retrying
<1>6. PieceFits'
  BY <1>1, SpanStands DEF PieceFits
<1>7. Seen'
  BY <1>0, <1>1, SpanStands DEF IInv, Seen, Searching, InRegion
<1>8. Once'
  <2> SUFFICES ASSUME NEW x \in marks PROVE found[x] = 1 <=> x < Pos
    BY <1>1 DEF Once, Passed
  <2>1. found[x] = 1 <=> Passed(x)
    BY <1>0 DEF IInv, Once
  <2>2. x \in Nat
    BY <1>0 DEF DataType
  <2>3. CASE InRetry
    <3>1. Pos = inner.pos /\ End = inner.end
      BY <2>3 DEF Pos, End
    <3>2. Passed(x) <=> x < inner.pos /\ x + 1 < inner.end
      BY <2>3 DEF Passed
    <3> QED BY <1>2, <2>1, <2>2, <3>1, <3>2
  <2>4. CASE ~InRetry
    BY <2>1, <2>4 DEF Passed, Pos
  <2> QED BY <2>3, <2>4
<1>9. AtEnd'
  BY <1>1 DEF AtEnd
<1>10. Reported'
  BY <1>0, <1>1, ReportStands DEF IInv
<1>11. Spent'
  <2>1. InHand = 0 /\ InHand' = n /\ 0 \in Nat /\ n <= 0 + n
    BY <1>1 DEF InHand
  <2> QED BY <1>0, <2>1, SpentStays DEF IInv
<1> QED BY <1>3, <1>4, <1>5, <1>6, <1>7, <1>8, <1>9, <1>10, <1>11 DEF IInv
\* A budget stop leaves what was examined and says that the region was cut.
LEMMA StopEffect ==
    ASSUME NEW g \in GapsRecord, NEW b \in BudgetRecord, NEW pos \in Nat, NEW n \in Nat
    PROVE  /\ StopOnBudget(g, b, pos, n) \in GapsRecord
           /\ StopOnBudget(g, b, pos, n).examined = g.examined
           /\ StopOnBudget(g, b, pos, n).truncated
           /\ StopOnBudget(g, b, pos, n).not_started = (pos = 0 /\ n = 0)
<1>1. PICK k \in BudgetKinds \union {Unknown} : k = IF b.last = Unknown THEN g.kind ELSE b.last
  BY DEF GapsRecord, BudgetRecord
<1>2. PICK z \in BOOLEAN : z = (pos = 0 /\ n = 0)
  OBVIOUS
<1>3. StopOnBudget(g, b, pos, n) = [g EXCEPT !.truncated = TRUE, !.kind = k, !.not_started = z]
  BY <1>1, <1>2 DEF StopOnBudget
<1>4. /\ [g EXCEPT !.truncated = TRUE, !.kind = k, !.not_started = z] \in GapsRecord
      /\ [g EXCEPT !.truncated = TRUE, !.kind = k, !.not_started = z].examined = g.examined
      /\ [g EXCEPT !.truncated = TRUE, !.kind = k, !.not_started = z].truncated
      /\ [g EXCEPT !.truncated = TRUE, !.kind = k, !.not_started = z].not_started = z
  BY DEF GapsRecord
<1> QED BY <1>2, <1>3, <1>4

LEMMA FailEffect ==
    ASSUME Typed
    PROVE  /\ [gaps EXCEPT !.short_read = TRUE] \in GapsRecord
           /\ [gaps EXCEPT !.read_failed = TRUE] \in GapsRecord
           /\ [gaps EXCEPT !.short_read = TRUE].examined = gaps.examined
           /\ [gaps EXCEPT !.read_failed = TRUE].examined = gaps.examined
           /\ [gaps EXCEPT !.short_read = TRUE].not_started = gaps.not_started
           /\ [gaps EXCEPT !.read_failed = TRUE].not_started = gaps.not_started
           /\ [gaps EXCEPT !.short_read = TRUE].short_read
           /\ [gaps EXCEPT !.read_failed = TRUE].read_failed
           /\ gaps \in GapsRecord
<1>1. gaps \in GapsRecord
  BY DEF Typed, GapsRecord
<1> QED BY <1>1 DEF GapsRecord

LEMMA StartRegionKeeps == ASSUME IInv, StartRegion PROVE IInv'
<1>0. Typed /\ r \in 1..Len(regions) /\ pc = "region"
  BY Bounds DEF IInv, StartRegion
<1>1. /\ pc' = "read" /\ marks' \in Contents(Size) /\ found' = [x \in marks' |-> 0]
      /\ outer' = 0 /\ inner' = NoSpan /\ gaps' = NoGaps
      /\ UNCHANGED <<regions, limits, r, piece, targets, looked, handed>>
      /\ budget' = [budget EXCEPT !.reads = limits.reads_per_region,
                                  !.region_validations = limits.validations_per_region]
  BY DEF StartRegion
<1>2. /\ budget' \in BudgetRecord /\ budget'.bytes = budget.bytes /\ budget'.validations = budget.validations
      /\ budget'.validated = budget.validated /\ budget'.unvalidated = budget.unvalidated
      /\ budget'.validated_dropped = budget.validated_dropped
      /\ budget'.unvalidated_dropped = budget.unvalidated_dropped
  <2>1. budget \in BudgetRecord
    BY <1>0 DEF Typed, BudgetRecord
  <2>2. limits.reads_per_region \in Int /\ limits.validations_per_region \in Int
    BY <1>0, BudgetFields
  <2> QED BY <1>1, <2>1, <2>2 DEF BudgetRecord
<1>3. Typed'
  <2>1. inner' \in [pos: Nat, end: Nat] /\ gaps' \in GapsRecord
    BY <1>1 DEF NoSpan, NoGaps, GapsRecord
  <2> QED BY <1>0, <1>1, <1>2, <2>1 DEF Typed, BudgetRecord, GapsRecord
<1>4. Size \in Nat /\ Size' = Size
  BY <1>0, <1>1, Bounds DEF Size
<1>5. \A x \in marks' : x \in Nat /\ x + 2 <= Size
  <2>1. \A x \in marks' : x \in 0..(Size - 2)
    BY <1>1, Steps DEF Contents
  <2> QED BY <1>4, <2>1
<1>6. DataType'
  <2>1. marks' \subseteq Nat /\ \A x \in marks' : x + MarkerLen <= Size'
    BY <1>4, <1>5, Steps
  <2>2. found' \in [marks' -> {0, 1}]
    BY <1>1
  <2>3. r <= Len(regions)
    BY <1>0, Bounds
  <2> QED BY <1>1, <2>1, <2>2, <2>3 DEF IInv, DataType
<1>7. ~InRetry' /\ Pos' = 0
  BY <1>1 DEF InRetry, Pos
<1>8. Retrying' /\ PieceFits' /\ AtEnd'
  BY <1>1, <1>7 DEF Retrying, PieceFits, AtEnd
<1>9. Seen'
  <2>1. looked[r] = {} /\ \A q \in 1..Len(regions) : q > r => looked[q] = {}
    BY <1>0 DEF IInv, Seen
  <2>2. looked[r] = 0..(0 - 1) /\ gaps'.examined = 0 /\ ~gaps'.not_started
    BY <1>1, <2>1 DEF NoGaps
  <2> QED BY <1>1, <1>4, <1>7, <2>1, <2>2 DEF Seen, Searching, InRegion
<1>10. Once'
  <2> SUFFICES ASSUME NEW x \in marks' PROVE found'[x] = 1 <=> x < 0
    BY <1>1, <1>7 DEF Once, Passed
  <2>1. found'[x] = 0 /\ ~(x < 0)
    BY <1>1, <1>5
  <2> QED BY <2>1
<1>11. Reported'
  BY <1>0, <1>1, ReportStands DEF IInv
<1>12. Spent'
  <2>1. Extents' = Extents /\ InHand' = 0 /\ InHand = 0
    BY <1>0, <1>1 DEF Extents, InHand
  <2>2. Total(Extents, Len(regions))' = Total(Extents, Len(regions))
    BY <1>1, <2>1 DEF Total
  <2> QED BY <1>1, <1>2, <2>1, <2>2 DEF IInv, Spent, EvidenceAccounted
<1> QED BY <1>3, <1>6, <1>8, <1>9, <1>10, <1>11, <1>12 DEF IInv

\* A window that cannot be read is retried from its start.
LEMMA RetryKeeps ==
    ASSUME IInv, pc = "read", Pos < End, ~InRetry, NEW want \in Nat, Pos + want = PieceEnd, Paid(0),
           inner' = [pos |-> outer, end |-> outer + want],
           UNCHANGED <<regions, limits, r, pc, marks, outer, piece, gaps, targets, looked, found, handed>>
    PROVE  IInv'
<1>0. Typed /\ DataType /\ Retrying /\ InRegion /\ Searching
  BY DEF IInv, InRegion, Searching
<1>1. /\ Pos = outer /\ End = Size /\ outer \in Nat /\ Size \in Nat /\ outer < Size
      /\ outer < WindowEnd /\ WindowEnd <= Size
      /\ Size' = Size /\ WindowEnd' = WindowEnd
  BY <1>0, SpanBounds DEF Size, WindowEnd
<1>2. outer + want = WindowEnd
  BY <1>1 DEF PieceEnd, WindowEnd
<1>3. inner'.pos = outer /\ inner'.end = WindowEnd /\ inner' \in [pos: Nat, end: Nat]
  BY <1>1, <1>2
<1>4. InRetry' /\ Pos' = outer /\ End' = WindowEnd
  <2>1. inner' # NoSpan
    <3>1. inner'.end # 0
      BY <1>1, <1>3
    <3> QED BY <3>1 DEF NoSpan
  <2> QED BY <1>3, <2>1 DEF InRetry, Pos, End
<1>5. Typed'
  BY <1>0, <1>3 DEF Typed, Paid, BudgetRecord
<1>6. DataType'
  BY <1>0, DataStands
<1>7. Retrying'
  BY <1>1, <1>3 DEF Retrying
<1>8. PieceFits' /\ AtEnd'
  BY DEF PieceFits, AtEnd
<1>9. Seen'
  <2>1. Pos <= gaps.examined
    <3>1. gaps.examined \in Nat
      BY <1>0, Bounds
    <3> QED BY <1>0, <1>1, <3>1 DEF IInv, Seen
  <2>2. /\ looked[r] = 0..(gaps.examined - 1) /\ gaps.examined <= Size /\ ~gaps.not_started
        /\ Pos = 0 => gaps.examined = 0
        /\ \A q \in 1..Len(regions) : q > r => looked[q] = {}
    BY <1>0 DEF IInv, Seen
  <2> QED BY <1>1, <1>4, <2>1, <2>2 DEF Seen, Searching, InRegion
<1>10. Once'
  <2> SUFFICES ASSUME NEW x \in marks PROVE found[x] = 1 <=> x < outer /\ x + 1 < WindowEnd
    BY <1>3, <1>4 DEF Once, Passed
  <2>1. found[x] = 1 <=> x < outer
    BY <1>0 DEF IInv, Once, Passed
  <2>2. x \in Nat
    BY <1>0 DEF DataType
  <2>3. WindowEnd \in Nat
    BY <1>0, SpanBounds
  <2> QED BY <1>1, <2>1, <2>2, <2>3
<1>11. Reported'
  BY <1>0, ReportStands DEF IInv
<1>12. Spent'
  <2>1. InHand = 0 /\ InHand' = 0 /\ 0 \in Nat /\ 0 <= 0 + 0
    BY DEF InHand
  <2> QED BY <1>0, <2>1, SpentStays DEF IInv
<1> QED BY <1>5, <1>6, <1>7, <1>8, <1>9, <1>10, <1>11, <1>12 DEF IInv

\* A piece that cannot be read either is probed for the marker.
LEMMA ToProbeKeeps ==
    ASSUME IInv, pc = "read", Pos < End, InRetry, Paid(0), pc' = "probe",
           UNCHANGED <<regions, limits, r, marks, outer, inner, piece, gaps, targets, looked, found, handed>>
    PROVE  IInv'
<1>0. Typed /\ DataType /\ Retrying /\ InRegion /\ Searching
  BY DEF IInv, InRegion, Searching
<1>1. Typed'
  BY <1>0 DEF Typed, Paid, BudgetRecord
<1>2. DataType'
  BY <1>0, DataStands
<1>3. Retrying' /\ PieceFits' /\ AtEnd'
  BY <1>0, SpanStands DEF Retrying, PieceFits, AtEnd
<1>4. Seen'
  BY <1>0, SpanStands DEF IInv, Seen, Searching, InRegion
<1>5. Once'
  BY <1>0, SpanStands DEF IInv, Once, Passed, Searching
<1>6. Reported'
  BY <1>0, ReportStands DEF IInv
<1>7. Spent'
  <2>1. InHand = 0 /\ InHand' = 0 /\ 0 \in Nat /\ 0 <= 0 + 0
    BY DEF InHand
  <2> QED BY <1>0, <2>1, SpentStays DEF IInv
<1> QED BY <1>1, <1>2, <1>3, <1>4, <1>5, <1>6, <1>7 DEF IInv

LEMMA ReadPieceKeeps == ASSUME IInv, ReadPiece PROVE IInv'
<1>0. Typed /\ DataType /\ Retrying /\ InRegion /\ Searching /\ pc = "read" /\ Pos < End /\ budget.bytes >= 0
  BY DEF IInv, InRegion, Searching, ReadPiece, Spent
<1> DEFINE w    == IF InRetry THEN Degraded ELSE Window
           want == Min({w, End - Pos})
<1>1. /\ Pos \in Nat /\ End \in Nat /\ Size \in Nat /\ End <= Size
      /\ ~InRetry => Pos = outer
  BY <1>0, SpanBounds
<1>2. want \in Nat /\ want > 0 /\ Pos + want = PieceEnd /\ Pos + want <= End
  <2>1. w \in Nat /\ w > 0 /\ End - Pos \in Nat /\ End - Pos > 0
    BY <1>0, <1>1, Bounds
  <2>2. want = IF w <= End - Pos THEN w ELSE End - Pos
    BY <2>1, MinOfTwo
  <2>3. PieceEnd = IF Pos + w <= End THEN Pos + w ELSE End
    BY DEF PieceEnd
  <2> HIDE DEF w, want
  <2> QED BY <1>0, <1>1, <2>1, <2>2, <2>3
<1>3. PICK result \in Reads(want) :
             /\ budget' = result.b
             /\ CASE result.status = "budget" /\ result.n = 0 ->
                       /\ gaps' = StopOnBudget(gaps, result.b, Pos, 0)
                       /\ pc' = "close" /\ UNCHANGED <<inner, piece>>
                  [] result.status = "budget" /\ result.n > 0 ->
                       Search(Pos, result.n, "budget") /\ UNCHANGED <<gaps, inner>>
                  [] result.status = "failed" /\ ~InRetry ->
                       /\ inner' = [pos |-> outer, end |-> outer + want]
                       /\ UNCHANGED <<gaps, pc, piece>>
                  [] result.status = "failed" /\ InRetry ->
                       pc' = "probe" /\ UNCHANGED <<gaps, inner, piece>>
                  [] result.status \in {"ok", "short"} ->
                       /\ Search(Pos, result.n, IF result.status = "ok" THEN "advance" ELSE "short")
                       /\ UNCHANGED <<gaps, inner>>
  BY DEF ReadPiece
<1>4. UNCHANGED <<regions, limits, r, marks, outer, targets, looked, found, handed>>
  BY DEF ReadPiece
<1> HIDE DEF w, want
<1>5. /\ result.n \in Nat /\ result.n <= want
      /\ result.status \in {"budget", "failed", "ok", "short"}
      /\ result.status = "failed" => result.n = 0
      /\ result.status = "ok" => result.n = want
      /\ result.status = "short" => result.n < want
      /\ result.b \in BudgetRecord /\ Paid(result.n)
  <2>1. /\ result.n \in Nat /\ result.n <= want
        /\ result.status \in {"budget", "failed", "ok", "short"}
        /\ result.status = "failed" => result.n = 0
        /\ result.status = "ok" => result.n = want
        /\ result.status = "short" => result.n < want
        /\ result.b \in BudgetRecord /\ SameSlots(result.b)
        /\ result.b.bytes = budget.bytes - result.n /\ result.b.bytes >= 0
    BY <1>0, <1>2, ReadsEffect
  <2> QED BY <1>3, <2>1 DEF Paid
<1>6. Pos + result.n <= Size /\ (result.n < want => Pos + result.n < Size)
  BY <1>1, <1>2, <1>5
<1>7. CASE result.status = "budget" /\ result.n = 0
  <2>1. gaps' = StopOnBudget(gaps, result.b, Pos, 0) /\ pc' = "close" /\ UNCHANGED <<inner, piece>>
    BY <1>3, <1>7
  <2>2. gaps \in GapsRecord
    BY <1>0, FailEffect
  <2>3. /\ gaps' \in GapsRecord /\ gaps'.examined = gaps.examined /\ gaps'.truncated
        /\ gaps'.not_started = (Pos = 0 /\ 0 = 0)
    <3>1. 0 \in Nat
      OBVIOUS
    <3> QED BY <1>1, <1>5, <2>1, <2>2, <3>1, StopEffect
  <2>4. ~NoGapYet' /\ (gaps'.not_started => Pos = 0)
    BY <2>3 DEF NoGapYet
  <2> QED BY <1>0, <1>4, <1>5, <2>1, <2>3, <2>4, LeaveKeeps
<1>8. CASE result.status = "budget" /\ result.n > 0
  <2>1. Search(Pos, result.n, "budget") /\ UNCHANGED <<gaps, inner>>
    <3>1. result.n # 0
      BY <1>5, <1>8
    <3> QED BY <1>3, <1>8, <3>1
  <2> QED BY <1>0, <1>4, <1>5, <1>6, <1>8, <2>1, SearchKeeps
<1>9. CASE result.status = "failed" /\ ~InRetry
  <2>1. inner' = [pos |-> outer, end |-> outer + want] /\ UNCHANGED <<gaps, pc, piece>>
    BY <1>3, <1>9
  <2> QED BY <1>0, <1>2, <1>4, <1>5, <1>9, <2>1, RetryKeeps
<1>10. CASE result.status = "failed" /\ InRetry
  <2>1. pc' = "probe" /\ UNCHANGED <<gaps, inner, piece>>
    BY <1>3, <1>10
  <2> QED BY <1>0, <1>4, <1>5, <1>10, <2>1, ToProbeKeeps
<1>11. CASE result.status = "ok"
  <2>1. Search(Pos, result.n, "advance") /\ UNCHANGED <<gaps, inner>>
    BY <1>3, <1>11
  <2>2. Pos + result.n = PieceEnd
    BY <1>2, <1>5, <1>11
  <2> QED BY <1>0, <1>4, <1>5, <1>6, <2>1, <2>2, SearchKeeps
<1>12. CASE result.status = "short"
  <2>1. Search(Pos, result.n, "short") /\ UNCHANGED <<gaps, inner>>
    BY <1>3, <1>12
  <2> QED BY <1>0, <1>4, <1>5, <1>6, <1>12, <2>1, SearchKeeps
<1>13. result.n = 0 \/ result.n > 0
  BY <1>5
<1> QED BY <1>5, <1>7, <1>8, <1>9, <1>10, <1>11, <1>12, <1>13
LEMMA ProbeKeeps == ASSUME IInv, Probe PROVE IInv'
<1>0. /\ Typed /\ DataType /\ Retrying /\ InRegion /\ Searching /\ pc = "probe"
      /\ InRetry /\ Pos < End /\ budget.bytes >= 0 /\ ~gaps.not_started
  BY DEF IInv, InRegion, Searching, Probe, Spent, PieceFits, Seen
<1> DEFINE want == Min({MarkerLen, Size - Pos})
<1>1. Pos \in Nat /\ End \in Nat /\ Size \in Nat /\ End <= Size
  BY <1>0, SpanBounds
<1>2. want \in Nat /\ want > 0 /\ Pos + want <= Size
  <2>1. Size - Pos \in Nat /\ Size - Pos > 0
    BY <1>0, <1>1
  <2>2. want = IF 2 <= Size - Pos THEN 2 ELSE Size - Pos
    BY <2>1, Steps, MinOfTwo
  <2> HIDE DEF want
  <2> QED BY <1>1, <2>1, <2>2
<1>3. PICK result \in Reads(want) :
             /\ budget' = result.b
             /\ CASE result.status = "budget" /\ result.n = 0 ->
                       gaps' = StopOnBudget(gaps, result.b, Pos, 0) /\ pc' = "close" /\ UNCHANGED piece
                  [] result.status = "budget" /\ result.n > 0 ->
                       Search(Pos, result.n, "budget") /\ UNCHANGED gaps
                  [] result.status = "ok" -> Search(Pos, result.n, "probed") /\ UNCHANGED gaps
                  [] result.status = "short" ->
                       gaps' = [gaps EXCEPT !.short_read = TRUE] /\ pc' = "close" /\ UNCHANGED piece
                  [] result.status = "failed" ->
                       gaps' = [gaps EXCEPT !.read_failed = TRUE] /\ pc' = "close" /\ UNCHANGED piece
  BY DEF Probe
<1>4. UNCHANGED <<regions, limits, r, marks, outer, inner, targets, looked, found, handed>>
  BY DEF Probe
<1> HIDE DEF want
<1>5. /\ result.n \in Nat /\ result.n <= want
      /\ result.status \in {"budget", "failed", "ok", "short"}
      /\ result.b \in BudgetRecord /\ Paid(result.n)
  <2>1. /\ result.n \in Nat /\ result.n <= want
        /\ result.status \in {"budget", "failed", "ok", "short"}
        /\ result.b \in BudgetRecord /\ SameSlots(result.b)
        /\ result.b.bytes = budget.bytes - result.n /\ result.b.bytes >= 0
    BY <1>0, <1>2, ReadsEffect
  <2> QED BY <1>3, <2>1 DEF Paid
<1>6. Pos + result.n <= Size
  BY <1>1, <1>2, <1>5
<1>7. CASE result.status = "budget" /\ result.n = 0
  <2>1. gaps' = StopOnBudget(gaps, result.b, Pos, 0) /\ pc' = "close" /\ UNCHANGED piece
    BY <1>3, <1>7
  <2>2. gaps \in GapsRecord
    BY <1>0, FailEffect
  <2>3. /\ gaps' \in GapsRecord /\ gaps'.examined = gaps.examined /\ gaps'.truncated
        /\ gaps'.not_started = (Pos = 0 /\ 0 = 0)
    <3>1. 0 \in Nat
      OBVIOUS
    <3> QED BY <1>1, <1>5, <2>1, <2>2, <3>1, StopEffect
  <2>4. ~NoGapYet' /\ (gaps'.not_started => Pos = 0)
    BY <2>3 DEF NoGapYet
  <2> QED BY <1>0, <1>4, <1>5, <2>1, <2>3, <2>4, LeaveKeeps
<1>8. CASE result.status = "budget" /\ result.n > 0
  <2>1. Search(Pos, result.n, "budget") /\ UNCHANGED gaps
    <3>1. result.n # 0
      BY <1>5, <1>8
    <3> QED BY <1>3, <1>8, <3>1
  <2> QED BY <1>0, <1>4, <1>5, <1>6, <1>8, <2>1, SearchKeeps
<1>9. CASE result.status = "ok"
  <2>1. Search(Pos, result.n, "probed") /\ UNCHANGED gaps
    BY <1>3, <1>9
  <2> QED BY <1>0, <1>4, <1>5, <1>6, <2>1, SearchKeeps
<1>10. CASE result.status = "short"
  <2>1. gaps' = [gaps EXCEPT !.short_read = TRUE] /\ pc' = "close" /\ UNCHANGED piece
    BY <1>3, <1>10
  <2>2. /\ gaps' \in GapsRecord /\ gaps'.examined = gaps.examined /\ gaps'.short_read
        /\ gaps'.not_started = gaps.not_started
    BY <1>0, <2>1, FailEffect
  <2>3. ~NoGapYet' /\ ~gaps'.not_started
    BY <1>0, <2>2 DEF NoGapYet
  <2> QED BY <1>0, <1>4, <1>5, <2>1, <2>2, <2>3, LeaveKeeps
<1>11. CASE result.status = "failed"
  <2>1. gaps' = [gaps EXCEPT !.read_failed = TRUE] /\ pc' = "close" /\ UNCHANGED piece
    BY <1>3, <1>11
  <2>2. /\ gaps' \in GapsRecord /\ gaps'.examined = gaps.examined /\ gaps'.read_failed
        /\ gaps'.not_started = gaps.not_started
    BY <1>0, <2>1, FailEffect
  <2>3. ~NoGapYet' /\ ~gaps'.not_started
    BY <1>0, <2>2 DEF NoGapYet
  <2> QED BY <1>0, <1>4, <1>5, <2>1, <2>2, <2>3, LeaveKeeps
<1>12. result.n = 0 \/ result.n > 0
  BY <1>5
<1> QED BY <1>5, <1>7, <1>8, <1>9, <1>10, <1>11, <1>12

\* A step that leaves the budget alone costs nothing.
LEMMA FreeStep == ASSUME Typed, budget.bytes >= 0, UNCHANGED budget PROVE Paid(0)
<1>1. budget \in BudgetRecord
  BY DEF Typed, BudgetRecord
<1>2. budget.bytes - 0 = budget.bytes
  BY BudgetFields
<1> QED BY <1>1, <1>2 DEF Paid, SameSlots

LEMMA SpanDoneKeeps == ASSUME IInv, SpanDone PROVE IInv'
<1>1. /\ Typed /\ pc = "read" /\ ~InRetry /\ End <= Pos /\ budget.bytes >= 0 /\ ~gaps.not_started
  <2>1. Typed /\ DataType /\ Retrying /\ InRegion /\ Searching
    BY DEF IInv, InRegion, Searching, SpanDone
  <2>2. Pos \in Nat /\ End \in Nat
    BY <2>1, SpanBounds
  <2> QED BY <2>1, <2>2 DEF IInv, SpanDone, Spent, Seen
<1>2. /\ pc' = "close"
      /\ UNCHANGED <<regions, limits, r, marks, outer, inner, piece, budget, gaps, targets, looked, found, handed>>
  BY DEF SpanDone
<1>3. Paid(0) /\ 0 \in Nat
  BY <1>1, <1>2, FreeStep
<1>4. gaps' \in GapsRecord
  BY <1>1, <1>2, FailEffect
<1> QED BY <1>1, <1>2, <1>3, <1>4, LeaveKeeps

LEMMA RetryDoneKeeps == ASSUME IInv, RetryDone PROVE IInv'
<1>0. /\ Typed /\ DataType /\ Retrying /\ InRegion /\ Searching /\ pc = "read" /\ InRetry
      /\ budget.bytes >= 0
  BY DEF IInv, InRegion, Searching, RetryDone, Spent
<1>1. /\ outer' = outer + (Window - 1) /\ inner' = NoSpan
      /\ UNCHANGED <<regions, limits, r, pc, marks, piece, budget, gaps, targets, looked, found, handed>>
  BY Steps DEF RetryDone
<1>2. /\ Pos = inner.pos /\ End = inner.end /\ inner.end = WindowEnd /\ outer < Size
      /\ Pos \in Nat /\ End \in Nat /\ Size \in Nat /\ Size > 0
      /\ \A x \in marks : x \in Nat /\ x + 2 <= Size
  BY <1>0, SpanBounds
<1>3. End <= Pos
  BY <1>2 DEF RetryDone
<1>4. outer \in Nat /\ Window \in Nat /\ Window > 2 /\ gaps.examined \in Nat
  BY <1>0, Bounds
<1>5. ~InRetry' /\ Pos' = outer + (Window - 1) /\ Size' = Size /\ End' = Size
  BY <1>1 DEF InRetry, Pos, Size, End
<1>6. \/ End = outer + Window /\ outer + Window <= Size
      \/ End = Size /\ Size < outer + Window
  <2>1. outer + Window <= Size \/ Size < outer + Window
    BY <1>2, <1>4
  <2> QED BY <1>2, <2>1 DEF WindowEnd
<1>7. Typed'
  <2>1. outer' \in Nat
    BY <1>1, <1>4
  <2>2. inner' \in [pos: Nat, end: Nat]
    BY <1>1 DEF NoSpan
  <2> QED BY <1>0, <1>1, <2>1, <2>2 DEF Typed
<1>8. DataType'
  BY <1>0, <1>1, DataStands
<1>9. Retrying' /\ PieceFits' /\ AtEnd'
  BY <1>0, <1>1, <1>5 DEF Retrying, PieceFits, AtEnd
<1>10. Seen'
  <2>1. /\ looked[r] = 0..(gaps.examined - 1) /\ gaps.examined <= Size /\ ~gaps.not_started
        /\ \A q \in 1..Len(regions) : q > r => looked[q] = {}
        /\ Pos <= gaps.examined \/ End <= gaps.examined
    BY <1>0 DEF IInv, Seen
  <2>2. End <= gaps.examined
    BY <1>2, <1>3, <1>4, <2>1
  <2>3. Pos' <= gaps.examined \/ (Size <= Pos' /\ Size <= gaps.examined)
    BY <1>2, <1>4, <1>5, <1>6, <2>2
  <2>4. Pos' # 0
    BY <1>4, <1>5
  <2> QED BY <1>0, <1>1, <1>5, <2>1, <2>3, <2>4 DEF Seen, Searching, InRegion
<1>11. Once'
  <2> SUFFICES ASSUME NEW x \in marks PROVE found[x] = 1 <=> x < outer + (Window - 1)
    BY <1>0, <1>1, <1>5 DEF Once, Passed
  <2>1. found[x] = 1 <=> x < inner.pos /\ x + 1 < inner.end
    BY <1>0 DEF IInv, Once, Passed
  <2>2. x \in Nat /\ x + 2 <= Size
    BY <1>2
  <2>3. found[x] = 1 <=> x + 1 < End
    <3>1. found[x] = 1 <=> x < Pos /\ x + 1 < End
      BY <1>2, <2>1
    <3> QED BY <1>2, <1>3, <2>2, <3>1
  <2>4. x + 1 < End <=> x < outer + (Window - 1)
    BY <1>2, <1>4, <1>6, <2>2
  <2> QED BY <2>3, <2>4
<1>12. Reported'
  BY <1>0, <1>1, ReportStands DEF IInv
<1>13. Spent'
  <2>1. InHand = 0 /\ InHand' = 0 /\ 0 \in Nat /\ 0 <= 0 + 0
    BY <1>0, <1>1 DEF InHand
  <2>2. Paid(0)
    BY <1>0, <1>1, FreeStep
  <2> QED BY <1>0, <1>1, <2>1, <2>2, SpentStays DEF IInv
<1> QED BY <1>7, <1>8, <1>9, <1>10, <1>11, <1>12, <1>13 DEF IInv

------------------------------------------------------------------------------
\* The next marker of the piece: none before it is still to come.
LEMMA NextMarker ==
    ASSUME IInv, pc = "search", Ahead # {}
    PROVE  LET x == Min(Ahead)
           IN  /\ x \in marks /\ x \in Nat /\ piece.from <= x /\ x + 2 <= piece.pos + piece.len
               /\ piece.pos <= x /\ x < Size /\ found[x] = 0
               /\ \A y \in marks : piece.from <= y => x <= y
<1> DEFINE x == Min(Ahead)
<1>0. Typed /\ DataType /\ Retrying /\ InRegion /\ Searching
  BY DEF IInv, InRegion, Searching
<1>1. Ahead \subseteq marks /\ marks \subseteq Nat
  BY <1>0 DEF Ahead, DataType
<1>2. x \in Ahead /\ \A y \in Ahead : x <= y
  BY <1>1, MinOfNaturals
<1> HIDE DEF x
<1>3. x \in marks /\ x \in Nat /\ piece.from <= x /\ x + 2 <= piece.pos + piece.len
  BY <1>1, <1>2, Steps DEF Ahead
<1>4. piece.pos \in Nat /\ piece.len \in Nat /\ piece.from \in Nat /\ Size \in Nat
  BY <1>0, Bounds, SpanBounds
<1>5. piece.pos <= piece.from /\ piece.pos + piece.len <= Size
  BY <1>4 DEF IInv, PieceFits
<1>6. piece.pos <= x /\ x < Size
  BY <1>3, <1>4, <1>5
<1>7. found[x] = 0
  <2>1. ~(x < piece.from)
    BY <1>3, <1>4
  <2>2. found[x] # 1
    BY <1>0, <1>3, <2>1 DEF IInv, Once, Passed
  <2> QED BY <1>0, <1>3, <2>2 DEF DataType
<1>8. ASSUME NEW y \in marks, piece.from <= y PROVE x <= y
  <2> SUFFICES ASSUME y < x PROVE FALSE
    BY <1>1, <1>3
  <2>1. y \in Nat /\ y + 2 <= piece.pos + piece.len
    BY <1>1, <1>3, <1>4
  <2>2. y \in Ahead
    BY <1>8, <2>1, Steps DEF Ahead
  <2> QED BY <1>2, <1>3, <2>1, <2>2
<1> QED BY <1>3, <1>6, <1>7, <1>8 DEF x

\* What is counted as searched was in hand, and is no longer.
LEMMA SpentGrows ==
    ASSUME Typed, DataType, Spent, NEW d \in Nat, d <= InHand, InHand \in Nat, InHand' = 0,
           Total(Extents, Len(regions))' = Total(Extents, Len(regions)) + d,
           budget'.bytes = budget.bytes, budget'.validations \in Int,
           budget'.validations <= budget.validations,
           budget'.validated = budget.validated, budget'.unvalidated = budget.unvalidated,
           budget'.validated_dropped = budget.validated_dropped,
           budget'.unvalidated_dropped = budget.unvalidated_dropped,
           UNCHANGED <<limits, handed>>
    PROVE  Spent'
<1>1. /\ budget.bytes \in Int /\ budget.validations \in Int /\ handed \in Nat
      /\ limits.total_bytes \in Nat /\ limits.validations_total \in Nat
      /\ Total(Extents, Len(regions)) \in Nat
  <2>1. handed \in Nat
    BY DEF DataType
  <2>2. budget.bytes \in Int /\ budget.validations \in Int
        /\ limits.total_bytes \in Nat /\ limits.validations_total \in Nat
    BY BudgetFields
  <2> QED BY <2>1, <2>2, ExtentsAre
<1>2. /\ budget.bytes >= 0 /\ Total(Extents, Len(regions)) + budget.bytes + InHand <= limits.total_bytes
      /\ handed + budget.validations <= limits.validations_total /\ handed <= limits.validations_total
      /\ EvidenceAccounted
  BY DEF Spent
<1>3. Total(Extents, Len(regions))' + budget'.bytes + InHand' <= limits'.total_bytes
  BY SMTT(30), <1>1, <1>2
<1>4. handed' + budget'.validations <= limits'.validations_total
  BY SMTT(30), <1>1, <1>2
<1>5. EvidenceAccounted'
  BY <1>2 DEF EvidenceAccounted
<1>6. budget'.bytes >= 0 /\ handed' <= limits'.validations_total
  BY <1>2
<1> QED BY <1>3, <1>4, <1>5, <1>6 DEF Spent

LEMMA OutOfValidationsKeeps == ASSUME IInv, OutOfValidations PROVE IInv'
<1>0. /\ Typed /\ DataType /\ Retrying /\ InRegion /\ Searching /\ pc = "search" /\ Ahead # {}
  BY DEF IInv, InRegion, Searching, OutOfValidations
<1> DEFINE x == Min(Ahead)
           b == [budget EXCEPT !.validations = @ - 1, !.region_validations = @ - 1]
<1>1. /\ pc' = "close" /\ Exhausted(b) # Unknown /\ budget' = [b EXCEPT !.last = Exhausted(b)]
      /\ gaps' = [gaps EXCEPT !.examined = Max({@, x}), !.truncated = TRUE, !.kind = Exhausted(b)]
      /\ looked' = [looked EXCEPT ![r] = @ \union (piece.pos..(x - 1))]
      /\ UNCHANGED <<regions, limits, r, marks, outer, inner, piece, targets, found, handed>>
  BY DEF OutOfValidations
<1>2. /\ x \in Nat /\ x + 2 <= piece.pos + piece.len /\ piece.pos <= x /\ x < Size
  BY <1>0, NextMarker
<1>3. budget \in BudgetRecord
  BY <1>0 DEF Typed, BudgetRecord
<1>4. PICK k \in BudgetKinds \union {Unknown} : k = Exhausted(b)
  BY DEF Exhausted, BudgetKinds
<1>5. PICK v \in Int, z \in Int : v = budget.validations - 1 /\ z = budget.region_validations - 1
  BY <1>0, BudgetFields
<1>6. budget' = [budget EXCEPT !.validations = v, !.region_validations = z, !.last = k]
  <2>1. b = [budget EXCEPT !.validations = v, !.region_validations = z]
    BY <1>5
  <2> HIDE DEF b
  <2> QED BY <1>1, <1>3, <1>4, <2>1 DEF BudgetRecord
<1> HIDE DEF b, x
<1>7. /\ budget' \in BudgetRecord /\ budget'.bytes = budget.bytes /\ budget'.validations = v
      /\ budget'.validated = budget.validated /\ budget'.unvalidated = budget.unvalidated
      /\ budget'.validated_dropped = budget.validated_dropped
      /\ budget'.unvalidated_dropped = budget.unvalidated_dropped
  BY <1>3, <1>6 DEF BudgetRecord
<1>8. /\ gaps.examined \in Nat /\ piece.pos \in Nat /\ piece.len \in Nat /\ Size \in Nat /\ Pos \in Nat
      /\ End \in Nat /\ r <= Len(regions)
  BY <1>0, Bounds, SpanBounds DEF DataType
<1>9. /\ looked[r] = 0..(gaps.examined - 1) /\ gaps.examined <= Size /\ ~gaps.not_started
      /\ piece.pos <= gaps.examined
      /\ \A q \in 1..Len(regions) : q > r => looked[q] = {}
  <2>1. piece.pos = Pos /\ Pos < End
    BY <1>0 DEF IInv, PieceFits
  <2>2. /\ looked[r] = 0..(gaps.examined - 1) /\ gaps.examined <= Size /\ ~gaps.not_started
        /\ Pos <= gaps.examined \/ End <= Pos
        /\ \A q \in 1..Len(regions) : q > r => looked[q] = {}
    BY <1>0 DEF IInv, Seen
  <2> QED BY <1>8, <2>1, <2>2
<1> DEFINE e == IF gaps.examined <= x THEN x ELSE gaps.examined
<1>10. x <= Size
  BY <1>2, <1>8
<1>11. /\ e \in Nat /\ e <= Size /\ e = Max({gaps.examined, x})
       /\ looked'[r] = 0..(e - 1)
       /\ looked' \in [1..Len(regions) -> SUBSET Nat]
       /\ \A q \in 1..Len(regions) : \E y \in 0..regions[q] : looked'[q] = 0..(y - 1)
       /\ \A q \in 1..Len(regions) : q # r => looked'[q] = looked[q]
       /\ Total(Extents, Len(regions))' = Total(Extents, Len(regions)) + (e - gaps.examined)
  BY <1>0, <1>1, <1>2, <1>8, <1>9, <1>10, LookedGrows
<1>12. e - gaps.examined \in Nat /\ e - gaps.examined <= piece.len
  BY SMTT(30), <1>2, <1>8, <1>9
<1> HIDE DEF e
<1>13. /\ gaps' \in GapsRecord /\ gaps'.examined = e /\ gaps'.truncated
       /\ gaps'.not_started = gaps.not_started
  <2>1. gaps' = [gaps EXCEPT !.examined = e, !.truncated = TRUE, !.kind = k]
    BY <1>1, <1>4, <1>11
  <2>2. gaps \in GapsRecord
    BY <1>0, FailEffect
  <2> QED BY <1>11, <2>1, <2>2 DEF GapsRecord
<1>14. Typed'
  BY <1>0, <1>1, <1>7, <1>13 DEF Typed, BudgetRecord, GapsRecord
<1>15. Size' = Size
  BY <1>1 DEF Size
<1>16. DataType'
  BY <1>0, <1>1, <1>11, <1>15 DEF DataType
<1>17. Retrying' /\ PieceFits' /\ Once' /\ AtEnd'
  BY <1>0, <1>1, <1>13, SpanStands DEF Retrying, PieceFits, Once, AtEnd, Searching, NoGapYet
<1>18. Seen'
  <2>1. \A q \in 1..Len(regions) : q > r => looked'[q] = {}
    <3>1. \A q \in 1..Len(regions) : q > r => q # r
      BY <1>8, <1>0, Bounds
    <3> QED BY <1>9, <1>11, <3>1
  <2> QED BY <1>1, <1>9, <1>11, <1>13, <1>15, <2>1 DEF Seen, Searching, InRegion
<1>19. Reported'
  BY <1>0, <1>1, <1>11, ReportStands DEF IInv
<1>20. Spent'
  <2>1. InHand = piece.len /\ InHand' = 0
    BY <1>0, <1>1 DEF InHand
  <2>2. v <= budget.validations
    BY <1>0, <1>5, BudgetFields
  <2>3. UNCHANGED <<limits, handed>>
    BY <1>1
  <2> QED BY <1>0, <1>7, <1>8, <1>11, <1>12, <2>1, <2>2, <2>3, SpentGrows DEF IInv
<1> QED BY <1>14, <1>16, <1>17, <1>18, <1>19, <1>20 DEF IInv
\* A header takes a slot of its own pool or is counted as dropped.
LEMMA KeepEffect ==
    ASSUME NEW b \in BudgetRecord, NEW valid \in BOOLEAN,
           b.validated_dropped > 0 => b.validated = 0,
           b.unvalidated_dropped > 0 => b.unvalidated = 0
    PROVE  LET k == Keep(b, valid)
           IN  /\ k \in BudgetRecord /\ k.bytes = b.bytes /\ k.validations = b.validations
               /\ k.validated_dropped > 0 => k.validated = 0
               /\ k.unvalidated_dropped > 0 => k.unvalidated = 0
               /\ (b.validated - k.validated) + (b.unvalidated - k.unvalidated)
                    + (k.validated_dropped - b.validated_dropped)
                    + (k.unvalidated_dropped - b.unvalidated_dropped) = 1
<1>1. /\ b.validated \in Nat /\ b.unvalidated \in Nat
      /\ b.validated_dropped \in Nat /\ b.unvalidated_dropped \in Nat
  BY DEF BudgetRecord
<1>2. CASE valid /\ b.validated > 0
  <2>1. PICK v \in Nat : v = b.validated - 1
    BY <1>1, <1>2
  <2>2. Keep(b, valid) = [b EXCEPT !.validated = v]
    BY <1>2, <2>1 DEF Keep
  <2>3. /\ [b EXCEPT !.validated = v] \in BudgetRecord
        /\ [b EXCEPT !.validated = v].validated = v
        /\ [b EXCEPT !.validated = v].bytes = b.bytes
        /\ [b EXCEPT !.validated = v].validations = b.validations
        /\ [b EXCEPT !.validated = v].unvalidated = b.unvalidated
        /\ [b EXCEPT !.validated = v].validated_dropped = b.validated_dropped
        /\ [b EXCEPT !.validated = v].unvalidated_dropped = b.unvalidated_dropped
    BY DEF BudgetRecord
  <2>4. (b.validated - v) + (b.unvalidated - b.unvalidated) + (b.validated_dropped - b.validated_dropped)
          + (b.unvalidated_dropped - b.unvalidated_dropped) = 1
    BY <1>1, <2>1
  <2>5. b.validated_dropped > 0 => v = 0
    BY <1>1, <1>2
  <2> QED BY <2>2, <2>3, <2>4, <2>5
<1>3. CASE ~valid /\ b.unvalidated > 0
  <2>1. PICK v \in Nat : v = b.unvalidated - 1
    BY <1>1, <1>3
  <2>2. Keep(b, valid) = [b EXCEPT !.unvalidated = v]
    BY <1>3, <2>1 DEF Keep
  <2>3. /\ [b EXCEPT !.unvalidated = v] \in BudgetRecord
        /\ [b EXCEPT !.unvalidated = v].unvalidated = v
        /\ [b EXCEPT !.unvalidated = v].bytes = b.bytes
        /\ [b EXCEPT !.unvalidated = v].validations = b.validations
        /\ [b EXCEPT !.unvalidated = v].validated = b.validated
        /\ [b EXCEPT !.unvalidated = v].validated_dropped = b.validated_dropped
        /\ [b EXCEPT !.unvalidated = v].unvalidated_dropped = b.unvalidated_dropped
    BY DEF BudgetRecord
  <2>4. (b.validated - b.validated) + (b.unvalidated - v) + (b.validated_dropped - b.validated_dropped)
          + (b.unvalidated_dropped - b.unvalidated_dropped) = 1
    BY <1>1, <2>1
  <2>5. b.unvalidated_dropped > 0 => v = 0
    BY <1>1, <1>3
  <2> QED BY <2>2, <2>3, <2>4, <2>5
<1>4. CASE valid /\ ~(b.validated > 0)
  <2>1. PICK v \in Nat : v = b.validated_dropped + 1
    BY <1>1
  <2>2. Keep(b, valid) = [b EXCEPT !.validated_dropped = v]
    BY <1>4, <2>1 DEF Keep
  <2>3. /\ [b EXCEPT !.validated_dropped = v] \in BudgetRecord
        /\ [b EXCEPT !.validated_dropped = v].validated_dropped = v
        /\ [b EXCEPT !.validated_dropped = v].bytes = b.bytes
        /\ [b EXCEPT !.validated_dropped = v].validations = b.validations
        /\ [b EXCEPT !.validated_dropped = v].validated = b.validated
        /\ [b EXCEPT !.validated_dropped = v].unvalidated = b.unvalidated
        /\ [b EXCEPT !.validated_dropped = v].unvalidated_dropped = b.unvalidated_dropped
    BY DEF BudgetRecord
  <2>4. (b.validated - b.validated) + (b.unvalidated - b.unvalidated) + (v - b.validated_dropped)
          + (b.unvalidated_dropped - b.unvalidated_dropped) = 1
    BY <1>1, <2>1
  <2>5. b.validated = 0
    BY <1>1, <1>4
  <2> QED BY <2>2, <2>3, <2>4, <2>5
<1>5. CASE ~valid /\ ~(b.unvalidated > 0)
  <2>1. PICK v \in Nat : v = b.unvalidated_dropped + 1
    BY <1>1
  <2>2. Keep(b, valid) = [b EXCEPT !.unvalidated_dropped = v]
    BY <1>5, <2>1 DEF Keep
  <2>3. /\ [b EXCEPT !.unvalidated_dropped = v] \in BudgetRecord
        /\ [b EXCEPT !.unvalidated_dropped = v].unvalidated_dropped = v
        /\ [b EXCEPT !.unvalidated_dropped = v].bytes = b.bytes
        /\ [b EXCEPT !.unvalidated_dropped = v].validations = b.validations
        /\ [b EXCEPT !.unvalidated_dropped = v].validated = b.validated
        /\ [b EXCEPT !.unvalidated_dropped = v].unvalidated = b.unvalidated
        /\ [b EXCEPT !.unvalidated_dropped = v].validated_dropped = b.validated_dropped
    BY DEF BudgetRecord
  <2>4. (b.validated - b.validated) + (b.unvalidated - b.unvalidated)
          + (b.validated_dropped - b.validated_dropped) + (v - b.unvalidated_dropped) = 1
    BY <1>1, <2>1
  <2>5. b.unvalidated = 0
    BY <1>1, <1>5
  <2> QED BY <2>2, <2>3, <2>4, <2>5
<1> QED BY <1>2, <1>3, <1>4, <1>5

LEMMA CandidateKeeps == ASSUME IInv, Candidate PROVE IInv'
<1>0. /\ Typed /\ DataType /\ Retrying /\ InRegion /\ Searching /\ pc = "search" /\ Ahead # {}
      /\ budget.bytes >= 0
  BY DEF IInv, InRegion, Searching, Candidate, Spent
<1> DEFINE x    == Min(Ahead)
           want == Min({ValidateMax, Size - x})
           b    == [budget EXCEPT !.validations = @ - 1, !.region_validations = @ - 1]
           have == Min({ValidateMax, piece.pos + piece.len - x})
<1>1. Exhausted(b) = Unknown
  BY DEF Candidate
<1>2. PICK valid \in BOOLEAN :
        \E result \in IF have >= want THEN {[n |-> want, status |-> "ok", b |-> budget]} ELSE Reads(want) :
                /\ budget' = Keep([result.b EXCEPT !.validations = b.validations,
                                                   !.region_validations = b.region_validations],
                                  valid)
                /\ gaps' = [gaps EXCEPT
                              !.read_failed = @ \/ result.status = "failed",
                              !.short_read = @ \/ result.status = "short",
                              !.truncated = @ \/ result.status = "budget",
                              !.kind = IF result.status = "budget" /\ result.b.last # Unknown
                                       THEN result.b.last ELSE @]
  BY DEF Candidate
<1>3. PICK result \in IF have >= want THEN {[n |-> want, status |-> "ok", b |-> budget]} ELSE Reads(want) :
                /\ budget' = Keep([result.b EXCEPT !.validations = b.validations,
                                                   !.region_validations = b.region_validations],
                                  valid)
                /\ gaps' = [gaps EXCEPT
                              !.read_failed = @ \/ result.status = "failed",
                              !.short_read = @ \/ result.status = "short",
                              !.truncated = @ \/ result.status = "budget",
                              !.kind = IF result.status = "budget" /\ result.b.last # Unknown
                                       THEN result.b.last ELSE @]
  BY <1>2
<1>4. /\ found' = [found EXCEPT ![x] = @ + 1] /\ handed' = handed + 1
      /\ piece' = [piece EXCEPT !.from = x + 1]
      /\ UNCHANGED <<regions, limits, r, pc, marks, outer, inner, targets, looked>>
  BY DEF Candidate
<1>5. /\ x \in marks /\ x \in Nat /\ piece.from <= x /\ x + 2 <= piece.pos + piece.len
      /\ piece.pos <= x /\ x < Size /\ found[x] = 0
      /\ \A y \in marks : piece.from <= y => x <= y
  BY <1>0, NextMarker
<1>6. budget \in BudgetRecord
  BY <1>0 DEF Typed, BudgetRecord
<1>7. PICK v \in Int, z \in Int : v = budget.validations - 1 /\ z = budget.region_validations - 1
  BY <1>0, BudgetFields
<1>8. b.validations = v /\ b.region_validations = z
  BY <1>6, <1>7 DEF BudgetRecord
<1>9. v >= 0
  <2>1. "validations_total" # Unknown
    BY HiddenPeAssumption DEF BudgetKinds
  <2>2. ~(v < 0)
    BY <1>1, <1>8, <2>1 DEF Exhausted
  <2> QED BY <2>2
<1>10. want \in Nat /\ want > 0
  <2>1. Size \in Nat /\ Size - x \in Nat /\ Size - x > 0
    BY <1>0, <1>5, SpanBounds
  <2>2. ValidateMax \in Nat /\ ValidateMax > 0
    BY <1>0, Bounds
  <2>3. want = IF ValidateMax <= Size - x THEN ValidateMax ELSE Size - x
    BY <2>1, <2>2, MinOfTwo
  <2> HIDE DEF want, x
  <2> QED BY <2>1, <2>2, <2>3
<1> HIDE DEF x, b, want, have
<1>11. /\ result.b \in BudgetRecord /\ SameSlots(result.b)
       /\ result.b.bytes >= 0 /\ result.b.bytes <= budget.bytes
  <2>1. CASE have >= want
    <3>1. result.b = budget
      BY <1>3, <2>1
    <3>2. budget.bytes \in Int
      BY <1>0, BudgetFields
    <3> QED BY <1>0, <1>6, <3>1, <3>2 DEF SameSlots
  <2>2. CASE ~(have >= want)
    <3>1. result \in Reads(want)
      BY <1>3, <2>2
    <3>2. /\ result.b \in BudgetRecord /\ SameSlots(result.b) /\ result.n \in Nat
          /\ result.b.bytes = budget.bytes - result.n /\ result.b.bytes >= 0
      BY <1>0, <1>10, <3>1, ReadsEffect
    <3>3. budget.bytes \in Int
      BY <1>0, BudgetFields
    <3> QED BY <3>2, <3>3
  <2> QED BY <2>1, <2>2
<1> DEFINE c == [result.b EXCEPT !.validations = v, !.region_validations = z]
<1>12. /\ c \in BudgetRecord /\ c.bytes = result.b.bytes /\ c.validations = v
       /\ c.validated = budget.validated /\ c.unvalidated = budget.unvalidated
       /\ c.validated_dropped = budget.validated_dropped
       /\ c.unvalidated_dropped = budget.unvalidated_dropped
  BY <1>11 DEF BudgetRecord, SameSlots
<1>13. budget' = Keep(c, valid)
  BY <1>3, <1>8
<1> HIDE DEF c
<1>14. EvidenceAccounted
  BY DEF IInv, Spent
<1>15. /\ budget' \in BudgetRecord /\ budget'.bytes = c.bytes /\ budget'.validations = c.validations
       /\ budget'.validated_dropped > 0 => budget'.validated = 0
       /\ budget'.unvalidated_dropped > 0 => budget'.unvalidated = 0
       /\ (c.validated - budget'.validated) + (c.unvalidated - budget'.unvalidated)
            + (budget'.validated_dropped - c.validated_dropped)
            + (budget'.unvalidated_dropped - c.unvalidated_dropped) = 1
  <2>1. /\ c.validated_dropped > 0 => c.validated = 0
        /\ c.unvalidated_dropped > 0 => c.unvalidated = 0
    BY <1>12, <1>14 DEF EvidenceAccounted
  <2> QED BY <1>12, <1>13, <2>1, KeepEffect
<1>16. /\ gaps' \in GapsRecord /\ gaps'.examined = gaps.examined /\ gaps'.not_started = gaps.not_started
  <2>1. PICK f \in BOOLEAN, s \in BOOLEAN, t \in BOOLEAN, k \in BudgetKinds \union {Unknown} :
            /\ f = (gaps.read_failed \/ result.status = "failed")
            /\ s = (gaps.short_read \/ result.status = "short")
            /\ t = (gaps.truncated \/ result.status = "budget")
            /\ k = IF result.status = "budget" /\ result.b.last # Unknown THEN result.b.last ELSE gaps.kind
    <3>1. result.b.last \in BudgetKinds \union {Unknown} /\ gaps.kind \in BudgetKinds \union {Unknown}
      BY <1>0, <1>11 DEF Typed, BudgetRecord
    <3> QED BY <3>1
  <2>2. gaps' = [gaps EXCEPT !.read_failed = f, !.short_read = s, !.truncated = t, !.kind = k]
    BY <1>3, <2>1
  <2>3. gaps \in GapsRecord
    BY <1>0, FailEffect
  <2> QED BY <2>2, <2>3 DEF GapsRecord
<1>17. /\ piece' \in PieceRecord /\ piece'.from = x + 1 /\ piece'.pos = piece.pos /\ piece'.len = piece.len
       /\ piece'.then = piece.then
  <2>1. PICK w \in Nat : w = x + 1
    BY <1>5
  <2>2. piece' = [piece EXCEPT !.from = w] /\ piece \in PieceRecord
    BY <1>0, <1>4, <2>1 DEF Typed, PieceRecord
  <2>3. /\ piece' \in PieceRecord /\ piece'.from = w /\ piece'.pos = piece.pos /\ piece'.len = piece.len
        /\ piece'.then = piece.then
    BY <2>2 DEF PieceRecord
  <2> QED BY <2>1, <2>3
<1>18. Typed'
  BY <1>0, <1>4, <1>15, <1>16, <1>17 DEF Typed, BudgetRecord, GapsRecord, PieceRecord
<1>19. DataType'
  <2>1. found' = [found EXCEPT ![x] = 1]
    <3>1. found[x] + 1 = 1
      BY <1>5
    <3> QED BY <1>4, <3>1
  <2>2. found' \in [marks -> {0, 1}]
    BY <1>0, <2>1 DEF DataType
  <2>3. handed' \in Nat
    BY <1>0, <1>4 DEF DataType
  <2>4. Size' = Size
    BY <1>4 DEF Size
  <2> QED BY <1>0, <1>4, <2>2, <2>3, <2>4 DEF DataType
<1>20. Retrying'
  BY <1>0, <1>4, SpanStands DEF Retrying
<1>21. piece.pos \in Nat /\ piece.len \in Nat /\ piece.from \in Nat
  BY <1>0, Bounds
<1>22. PieceFits'
  <2>1. /\ piece.pos = Pos /\ Pos < End /\ piece.pos + piece.len <= Size
        /\ piece.then = "advance" => piece.pos + piece.len = PieceEnd
        /\ piece.then = "short" => piece.pos + piece.len < Size
        /\ piece.then = "budget" => piece.len > 0
    BY <1>0 DEF IInv, PieceFits
  <2>2. piece.pos <= x + 1 /\ x + 1 < piece.pos + piece.len
    BY <1>5, <1>21
  <2> QED BY <1>0, <1>4, <1>17, <2>1, <2>2, SpanStands DEF PieceFits
<1>23. Seen'
  BY <1>0, <1>4, <1>16, SpanStands DEF IInv, Seen, Searching, InRegion
<1>24. Once'
  <2> SUFFICES ASSUME NEW y \in marks PROVE found'[y] = 1 <=> y < x + 1
    BY <1>0, <1>4, <1>17 DEF Once, Passed
  <2>1. y \in Nat /\ found \in [marks -> {0, 1}]
    BY <1>0 DEF DataType
  <2>2. found[y] = 1 <=> y < piece.from
    BY <1>0 DEF IInv, Once, Passed
  <2>3. CASE y = x
    <3>1. found'[y] = found[x] + 1
      BY <1>4, <1>5, <2>1, <2>3
    <3> QED BY <1>5, <2>3, <3>1
  <2>4. CASE y # x
    <3>1. found'[y] = found[y]
      BY <1>4, <2>1, <2>4
    <3>2. y < piece.from <=> y < x + 1
      BY <1>5, <1>21, <2>1, <2>4
    <3> QED BY <2>2, <3>1, <3>2
  <2> QED BY <2>3, <2>4
<1>25. AtEnd'
  BY <1>0, <1>4 DEF AtEnd
<1>26. Reported'
  BY <1>0, <1>4, ReportStands DEF IInv
<1>27. Spent'
  <2>1. Extents' = Extents /\ InHand' = InHand /\ InHand = piece.len
    BY <1>0, <1>4, <1>17 DEF Extents, InHand
  <2>2. Total(Extents, Len(regions))' = Total(Extents, Len(regions))
    BY <1>4, <2>1 DEF Total
  <2>3. /\ budget'.bytes >= 0 /\ budget'.bytes <= budget.bytes /\ budget'.bytes \in Int
        /\ budget'.validations = v
    BY <1>11, <1>12, <1>15 DEF BudgetRecord
  <2>4. Total(Extents, Len(regions)) + budget.bytes + InHand <= limits.total_bytes
        /\ handed + budget.validations <= limits.validations_total
    BY DEF IInv, Spent
  <2>5. /\ budget.bytes \in Int /\ budget.validations \in Int
        /\ limits.total_bytes \in Nat /\ limits.validations_total \in Nat
        /\ Total(Extents, Len(regions)) \in Nat /\ handed \in Nat
    <3>1. handed \in Nat
      BY <1>0 DEF DataType
    <3>2. /\ budget.bytes \in Int /\ budget.validations \in Int
          /\ limits.total_bytes \in Nat /\ limits.validations_total \in Nat
      BY <1>0, BudgetFields
    <3> QED BY <1>0, <3>1, <3>2, ExtentsAre
  <2>6. Total(Extents, Len(regions))' + budget'.bytes + InHand' <= limits'.total_bytes
    <3>1. limits' = limits /\ InHand \in Nat
      BY <1>4, <1>21, <2>1
    <3>2. Total(Extents, Len(regions)) + budget'.bytes + InHand <= limits.total_bytes
      BY SMTT(30), <2>3, <2>4, <2>5, <3>1
    <3> QED BY <2>1, <2>2, <3>1, <3>2
  <2>7. /\ handed' + budget'.validations <= limits'.validations_total
        /\ handed' <= limits'.validations_total
    BY <1>4, <1>7, <1>9, <2>3, <2>4, <2>5
  <2>8. EvidenceAccounted'
    <3>1. /\ budget'.validated \in Nat /\ budget'.unvalidated \in Nat
          /\ budget'.validated_dropped \in Nat /\ budget'.unvalidated_dropped \in Nat
      BY <1>15 DEF BudgetRecord
    <3>2. /\ budget.validated \in Nat /\ budget.unvalidated \in Nat
          /\ budget.validated_dropped \in Nat /\ budget.unvalidated_dropped \in Nat
          /\ limits.validated \in Nat /\ limits.unvalidated \in Nat
      BY <1>0, BudgetFields
    <3>3. (budget.validated - budget'.validated) + (budget.unvalidated - budget'.unvalidated)
            + (budget'.validated_dropped - budget.validated_dropped)
            + (budget'.unvalidated_dropped - budget.unvalidated_dropped) = 1
      BY <1>12, <1>15
    <3>4. handed = (limits.validated - budget.validated) + (limits.unvalidated - budget.unvalidated)
                     + budget.validated_dropped + budget.unvalidated_dropped
      BY <1>14 DEF EvidenceAccounted
    <3>5. handed' = (limits.validated - budget'.validated) + (limits.unvalidated - budget'.unvalidated)
                     + budget'.validated_dropped + budget'.unvalidated_dropped
      <4>1. handed' = handed + 1
        BY <1>4
      <4> QED BY <4>1, <3>1, <3>2, <3>3, <3>4
    <3> QED BY <1>4, <1>15, <3>5 DEF EvidenceAccounted
  <2> QED BY <2>3, <2>6, <2>7, <2>8 DEF Spent
<1> QED BY <1>18, <1>19, <1>20, <1>22, <1>23, <1>24, <1>25, <1>26, <1>27 DEF IInv
\* The markers of a piece read in full are handed over: those before the place
\* where the next piece begins.
LEMMA PassedByPiece ==
    ASSUME IInv, pc = "search", Ahead = {}, piece.then = "advance", NEW x \in marks
    PROVE  /\ InRetry => (found[x] = 1 <=> x < inner.pos + (Degraded - 1) /\ x + 1 < inner.end)
           /\ ~InRetry => (found[x] = 1 <=> x < outer + (Window - 1))
<1>0. Typed /\ DataType /\ Retrying /\ InRegion /\ Searching
  BY DEF IInv, InRegion, Searching
<1>1. /\ piece.pos \in Nat /\ piece.len \in Nat /\ piece.from \in Nat
      /\ Window \in Nat /\ Degraded \in Nat /\ Window > 2 /\ Degraded > 1
  BY <1>0, Bounds
<1>2. /\ Pos \in Nat /\ End \in Nat /\ Size \in Nat /\ x \in Nat /\ x + 2 <= Size
      /\ InRetry => Pos = inner.pos /\ End = inner.end
      /\ ~InRetry => Pos = outer /\ End = Size
  BY <1>0, SpanBounds
<1>3. /\ piece.pos = Pos /\ Pos < End /\ piece.pos + piece.len = PieceEnd
      /\ \/ piece.from = piece.pos
         \/ piece.pos <= piece.from /\ piece.from < piece.pos + piece.len
  BY DEF IInv, PieceFits
<1>4. found[x] = 1 <=> x < piece.from
  BY <1>0 DEF IInv, Once, Passed
<1>5. x < piece.from \/ x + 2 > PieceEnd
  <2>1. x \notin Ahead
    OBVIOUS
  <2>2. ~(piece.from <= x /\ x + 2 <= piece.pos + piece.len)
    BY <2>1, Steps DEF Ahead
  <2> QED BY <1>1, <1>2, <1>3, <2>2
<1>6. ASSUME InRetry PROVE found[x] = 1 <=> x < inner.pos + (Degraded - 1) /\ x + 1 < inner.end
  <2>1. PieceEnd = IF Pos + Degraded <= End THEN Pos + Degraded ELSE End
    BY <1>6 DEF PieceEnd
  <2>2. x < piece.from <=> x < Pos + (Degraded - 1) /\ x + 1 < End
    <3>1. CASE Pos + Degraded <= End
      <4>1. PieceEnd = Pos + Degraded
        BY <2>1, <3>1
      <4> QED BY <1>1, <1>2, <1>3, <1>5, <3>1, <4>1
    <3>2. CASE ~(Pos + Degraded <= End)
      <4>1. PieceEnd = End
        BY <2>1, <3>2
      <4> QED BY <1>1, <1>2, <1>3, <1>5, <3>2, <4>1
    <3> QED BY <3>1, <3>2
  <2> QED BY <1>2, <1>4, <1>6, <2>2
<1>7. ASSUME ~InRetry PROVE found[x] = 1 <=> x < outer + (Window - 1)
  <2>1. PieceEnd = IF Pos + Window <= End THEN Pos + Window ELSE End
    BY <1>7 DEF PieceEnd
  <2>2. x < piece.from <=> x < Pos + (Window - 1)
    <3>1. CASE Pos + Window <= End
      <4>1. PieceEnd = Pos + Window
        BY <2>1, <3>1
      <4> QED BY <1>1, <1>2, <1>3, <1>5, <3>1, <4>1
    <3>2. CASE ~(Pos + Window <= End)
      <4>1. PieceEnd = End /\ End = Size
        BY <1>2, <1>7, <2>1, <3>2
      <4> QED BY <1>1, <1>2, <1>3, <1>5, <3>2, <4>1
    <3> QED BY <3>1, <3>2
  <2> QED BY <1>2, <1>4, <1>7, <2>2
<1> QED BY <1>6, <1>7

LEMMA PieceDoneKeeps == ASSUME IInv, PieceDone PROVE IInv'
<1>0. /\ Typed /\ DataType /\ Retrying /\ InRegion /\ Searching /\ pc = "search" /\ Ahead = {}
  BY DEF IInv, InRegion, Searching, PieceDone
<1> DEFINE end == piece.pos + piece.len
           g   == [gaps EXCEPT !.examined = Max({@, end})]
<1>1. /\ gaps' = CASE piece.then = "advance" -> g
                   [] piece.then = "short"  -> [g EXCEPT !.short_read = @ \/ end < Size]
                   [] piece.then = "budget" -> StopOnBudget(g, budget, piece.pos, piece.len)
                   [] piece.then = "probed" -> [g EXCEPT !.read_failed = TRUE]
      /\ looked' = [looked EXCEPT ![r] = @ \union (piece.pos..(end - 1))]
      /\ UNCHANGED <<regions, limits, r, marks, piece, budget, targets, found, handed>>
  BY DEF PieceDone
<1>2. IF piece.then # "advance" THEN pc' = "close" /\ UNCHANGED <<outer, inner>>
      ELSE /\ pc' = "read"
           /\ IF InRetry THEN inner' = [inner EXCEPT !.pos = @ + (Degraded - 1)] /\ UNCHANGED outer
              ELSE outer' = outer + (Window - 1) /\ UNCHANGED inner
  BY Steps DEF PieceDone
<1>3. /\ gaps.examined \in Nat /\ piece.pos \in Nat /\ piece.len \in Nat /\ Size \in Nat /\ Pos \in Nat
      /\ End \in Nat /\ r \in Nat /\ r <= Len(regions)
      /\ piece.then \in {"advance", "short", "budget", "probed"}
  BY <1>0, Bounds, SpanBounds DEF DataType
<1>4. /\ piece.pos = Pos /\ Pos < End /\ piece.pos + piece.len <= Size
      /\ piece.then = "advance" => piece.pos + piece.len = PieceEnd
      /\ piece.then = "short" => piece.pos + piece.len < Size
      /\ piece.then = "budget" => piece.len > 0
  BY <1>0 DEF IInv, PieceFits
<1>5. /\ looked[r] = 0..(gaps.examined - 1) /\ gaps.examined <= Size /\ ~gaps.not_started
      /\ piece.pos <= gaps.examined
      /\ \A q \in 1..Len(regions) : q > r => looked[q] = {}
  <2>1. /\ looked[r] = 0..(gaps.examined - 1) /\ gaps.examined <= Size /\ ~gaps.not_started
        /\ Pos <= gaps.examined \/ End <= Pos
        /\ \A q \in 1..Len(regions) : q > r => looked[q] = {}
    BY <1>0 DEF IInv, Seen
  <2> QED BY <1>3, <1>4, <2>1
<1>6. end \in Nat /\ piece.pos <= end /\ end <= Size
  BY <1>3, <1>4
<1> HIDE DEF end, g
<1> DEFINE e == IF gaps.examined <= end THEN end ELSE gaps.examined
<1>7. /\ e \in Nat /\ e <= Size /\ e = Max({gaps.examined, end})
      /\ looked'[r] = 0..(e - 1)
      /\ looked' \in [1..Len(regions) -> SUBSET Nat]
      /\ \A q \in 1..Len(regions) : \E y \in 0..regions[q] : looked'[q] = 0..(y - 1)
      /\ \A q \in 1..Len(regions) : q # r => looked'[q] = looked[q]
      /\ Total(Extents, Len(regions))' = Total(Extents, Len(regions)) + (e - gaps.examined)
  BY <1>0, <1>1, <1>3, <1>5, <1>6, LookedGrows
<1>8. e - gaps.examined \in Nat /\ e - gaps.examined <= piece.len /\ end <= e
  BY <1>3, <1>5, <1>6 DEF end
<1> HIDE DEF e
<1>9. g \in GapsRecord /\ g.examined = e /\ ~g.not_started
  <2>1. g = [gaps EXCEPT !.examined = e]
    BY <1>7 DEF g
  <2>2. gaps \in GapsRecord
    BY <1>0, FailEffect
  <2> QED BY <1>5, <1>7, <2>1, <2>2 DEF GapsRecord
<1>10. /\ gaps' \in GapsRecord /\ gaps'.examined = e /\ ~gaps'.not_started
       /\ piece.then # "advance" => ~NoGapYet'
  <2>1. CASE piece.then = "advance"
    BY <1>1, <1>9, <2>1
  <2>2. CASE piece.then = "short"
    <3>1. end < Size
      BY <1>4, <2>2 DEF end
    <3>2. gaps' = [g EXCEPT !.short_read = TRUE]
      BY <1>1, <2>2, <3>1
    <3>3. gaps' \in GapsRecord /\ gaps'.examined = e /\ ~gaps'.not_started /\ gaps'.short_read
      BY <1>9, <3>2 DEF GapsRecord
    <3> QED BY <3>3 DEF NoGapYet
  <2>3. CASE piece.then = "budget"
    <3>1. gaps' = StopOnBudget(g, budget, piece.pos, piece.len)
      BY <1>1, <2>3
    <3>2. budget \in BudgetRecord
      BY <1>0 DEF Typed, BudgetRecord
    <3>3. /\ gaps' \in GapsRecord /\ gaps'.examined = e /\ gaps'.truncated
          /\ gaps'.not_started = (piece.pos = 0 /\ piece.len = 0)
      <4>1. g \in GapsRecord /\ g.examined = e /\ piece.pos \in Nat /\ piece.len \in Nat
        BY <1>3, <1>9
      <4>2. LET h == StopOnBudget(g, budget, piece.pos, piece.len)
            IN  /\ h \in GapsRecord /\ h.examined = g.examined /\ h.truncated
                /\ h.not_started = (piece.pos = 0 /\ piece.len = 0)
        BY SMTT(30), <3>2, <4>1, StopEffect
      <4> QED BY <3>1, <4>1, <4>2
    <3>4. piece.len # 0
      BY <1>3, <1>4, <2>3
    <3> QED BY <3>3, <3>4 DEF NoGapYet
  <2>4. CASE piece.then = "probed"
    <3>1. gaps' = [g EXCEPT !.read_failed = TRUE]
      BY <1>1, <2>4
    <3>2. gaps' \in GapsRecord /\ gaps'.examined = e /\ ~gaps'.not_started /\ gaps'.read_failed
      BY <1>9, <3>1 DEF GapsRecord
    <3> QED BY <3>2 DEF NoGapYet
  <2> QED BY <1>3, <2>1, <2>2, <2>3, <2>4
<1>11. outer \in Nat /\ inner.pos \in Nat /\ inner.end \in Nat /\ Window \in Nat /\ Degraded \in Nat
       /\ Degraded > 1 /\ Window > 2
  BY <1>0, Bounds
<1>12. Typed'
  <2>1. outer' \in Nat /\ inner' \in [pos: Nat, end: Nat]
    <3>1. PICK d \in Nat, w \in Nat : d = inner.pos + (Degraded - 1) /\ w = outer + (Window - 1)
      BY <1>11
    <3>2. inner \in [pos: Nat, end: Nat]
      BY <1>0 DEF Typed
    <3>3. /\ inner' = inner \/ inner' = [inner EXCEPT !.pos = d]
          /\ outer' \in {outer, w}
      BY <1>2, <3>1
    <3> QED BY <1>11, <3>2, <3>3
  <2>2. pc' \in {"close", "read"}
    BY <1>2
  <2> QED BY <1>0, <1>1, <1>10, <2>1, <2>2 DEF Typed, GapsRecord
<1>13. Size' = Size
  BY <1>1 DEF Size
<1>14. DataType'
  <2>1. r <= Len(regions) /\ \A x \in marks : x + MarkerLen <= Size
    BY <1>0 DEF DataType
  <2> QED BY <1>0, <1>1, <1>7, <1>13, <2>1 DEF DataType
<1>15. Reported'
  <2>1. pc' \notin {"done", "raised"}
    BY <1>2
  <2> QED BY <1>0, <1>1, <1>7, <2>1, ReportStands DEF IInv
<1>16. Spent'
  <2>1. InHand = piece.len /\ InHand' = 0
    BY <1>0, <1>2 DEF InHand
  <2>2. budget.validations \in Int /\ budget.validations <= budget.validations
    BY <1>0, BudgetFields
  <2>3. UNCHANGED <<limits, handed, budget>>
    BY <1>1
  <2> QED BY <1>0, <1>3, <1>7, <1>8, <2>1, <2>2, <2>3, SpentGrows DEF IInv
<1>17. \A q \in 1..Len(regions) : q > r => looked'[q] = {}
  <2>1. \A q \in 1..Len(regions) : q > r => q # r
    BY <1>3
  <2> QED BY <1>5, <1>7, <2>1
<1>18. CASE piece.then # "advance"
  <2>1. pc' = "close" /\ UNCHANGED <<outer, inner, regions, r>>
    BY <1>1, <1>2, <1>18
  <2>2. Retrying' /\ PieceFits' /\ Once' /\ AtEnd'
    BY <1>0, <1>10, <1>18, <2>1, SpanStands DEF Retrying, PieceFits, Once, AtEnd, Searching
  <2>3. Seen'
    BY <1>1, <1>7, <1>10, <1>13, <1>17, <2>1 DEF Seen, Searching, InRegion
  <2> QED BY <1>12, <1>14, <1>15, <1>16, <2>2, <2>3 DEF IInv
<1>19. CASE piece.then = "advance" /\ InRetry
  <2>1. /\ pc' = "read" /\ inner' = [inner EXCEPT !.pos = @ + (Degraded - 1)]
        /\ UNCHANGED <<outer, regions, r, marks, found>>
    BY <1>1, <1>2, <1>19
  <2>2. inner'.pos = inner.pos + (Degraded - 1) /\ inner'.end = inner.end
    <3>1. inner \in [pos: Nat, end: Nat]
      BY <1>0 DEF Typed
    <3> QED BY <2>1, <3>1
  <2>3. /\ outer < Size /\ outer <= inner.pos /\ inner.end = WindowEnd /\ outer < WindowEnd
        /\ Pos = inner.pos /\ End = inner.end /\ End <= Size
    BY <1>0, <1>19, SpanBounds
  <2>4. WindowEnd' = WindowEnd
    BY <1>13, <2>1 DEF WindowEnd
  <2>5. InRetry' /\ Pos' = inner.pos + (Degraded - 1) /\ End' = inner.end
    <3>1. inner' # NoSpan
      <4>1. inner'.end # 0
        BY <1>11, <2>2, <2>3
      <4> QED BY <4>1 DEF NoSpan
    <3> QED BY <2>2, <3>1 DEF InRetry, Pos, End
  <2>6. Retrying'
    <3>1. outer <= inner.pos + (Degraded - 1)
      BY <1>11, <2>3
    <3> QED BY <1>13, <2>1, <2>2, <2>3, <2>4, <3>1 DEF Retrying
  <2>7. PieceFits' /\ AtEnd'
    BY <2>1 DEF PieceFits, AtEnd
  <2>8. Seen'
    <3>1. PieceEnd = IF Pos + Degraded <= End THEN Pos + Degraded ELSE End
      BY <1>19 DEF PieceEnd
    <3>2. end = PieceEnd
      BY <1>4, <1>19 DEF end
    <3>3. Pos' <= e \/ (End' <= Pos' /\ End' <= e)
      BY SMTT(30), <1>3, <1>6, <1>7, <1>8, <1>11, <2>3, <2>5, <3>1, <3>2
    <3>4. Pos' # 0
      BY <1>11, <2>5
    <3> QED BY <1>1, <1>7, <1>10, <1>13, <1>17, <2>1, <3>3, <3>4 DEF Seen, Searching, InRegion
  <2>9. Once'
    <3> SUFFICES ASSUME NEW x \in marks
                 PROVE  found[x] = 1 <=> x < inner.pos + (Degraded - 1) /\ x + 1 < inner.end
      BY <2>1, <2>2, <2>5 DEF Once, Passed
    <3> QED BY <1>0, <1>19, PassedByPiece
  <2> QED BY <1>12, <1>14, <1>15, <1>16, <2>6, <2>7, <2>8, <2>9 DEF IInv
<1>20. CASE piece.then = "advance" /\ ~InRetry
  <2>1. /\ pc' = "read" /\ outer' = outer + (Window - 1)
        /\ UNCHANGED <<inner, regions, r, marks, found>>
    BY <1>1, <1>2, <1>20
  <2>2. ~InRetry' /\ Pos' = outer + (Window - 1) /\ End' = Size /\ Pos = outer /\ End = Size
    BY <1>13, <1>20, <2>1 DEF InRetry, Pos, End
  <2>3. Retrying' /\ PieceFits' /\ AtEnd'
    BY <2>1, <2>2 DEF Retrying, PieceFits, AtEnd
  <2>4. Seen'
    <3>1. PieceEnd = IF Pos + Window <= End THEN Pos + Window ELSE End
      BY <1>20 DEF PieceEnd
    <3>2. end = PieceEnd
      BY <1>4, <1>20 DEF end
    <3>3. Pos' <= e \/ (End' <= Pos' /\ End' <= e)
      BY <1>3, <1>6, <1>7, <1>8, <1>11, <2>2, <3>1, <3>2
    <3>4. Pos' # 0
      BY <1>11, <2>2
    <3> QED BY <1>1, <1>7, <1>10, <1>13, <1>17, <2>1, <3>3, <3>4 DEF Seen, Searching, InRegion
  <2>5. Once'
    <3> SUFFICES ASSUME NEW x \in marks PROVE found[x] = 1 <=> x < outer + (Window - 1)
      BY <2>1, <2>2 DEF Once, Passed
    <3> QED BY <1>0, <1>20, PassedByPiece
  <2> QED BY <1>12, <1>14, <1>15, <1>16, <2>3, <2>4, <2>5 DEF IInv
<1> QED BY <1>18, <1>19, <1>20

\* The region's gaps name what was not searched in it, and nothing that was.
LEMMA CloseRegionKeeps == ASSUME IInv, CloseRegion PROVE IInv'
<1>0. Typed /\ DataType /\ Retrying /\ InRegion /\ pc = "close"
  BY DEF IInv, InRegion, CloseRegion
<1> DEFINE new == (IF gaps.read_failed THEN {Target("read_failed", 0, Unknown)} ELSE {})
                    \union (IF gaps.short_read THEN {Target("short_read", Unknown, Unknown)} ELSE {})
                    \union (IF gaps.truncated /\ gaps.not_started
                            THEN {Target("not_started", 0, gaps.kind)} ELSE {})
                    \union (IF gaps.truncated /\ ~gaps.not_started THEN {Remainder} ELSE {})
<1>1. /\ targets' = targets \union new /\ r' = r + 1 /\ pc' = "region" /\ piece' = NoPiece
      /\ UNCHANGED <<regions, limits, marks, outer, inner, budget, gaps, looked, found, handed>>
  BY DEF CloseRegion
<1>2. /\ r \in 1..Len(regions) /\ Size \in Nat /\ Size > 0 /\ Size = regions[r] /\ r \in Nat
      /\ Len(regions) \in Nat
      /\ gaps.examined \in Nat /\ gaps \in GapsRecord
  BY <1>0, SpanBounds, Bounds, FailEffect
<1>3. /\ looked[r] = 0..(gaps.examined - 1) /\ gaps.examined <= Size
      /\ gaps.not_started => gaps.examined = 0
      /\ \A q \in 1..Len(regions) : q > r => looked[q] = {}
  BY <1>0 DEF IInv, Seen
<1>4. \A t \in new :
        /\ t \in TargetRecord /\ t.region = r
        /\ t.code = "truncated" => \/ t.examined = gaps.examined
                                   \/ t.examined = 0 /\ gaps.examined = Size
        /\ t.examined # Unknown => t.examined < Size
        /\ t.code = "not_started" => looked[r] = {}
  <2>1. Unknown \in Nat \union {Unknown} /\ 0 \in Nat /\ gaps.kind \in BudgetKinds \union {Unknown}
    BY <1>2 DEF GapsRecord
  <2>2. \A t \in new :
          \/ t = [region |-> r, code |-> "read_failed", examined |-> 0, kind |-> Unknown]
          \/ t = [region |-> r, code |-> "short_read", examined |-> Unknown, kind |-> Unknown]
          \/ gaps.not_started /\ t = [region |-> r, code |-> "not_started", examined |-> 0, kind |-> gaps.kind]
          \/ t = [region |-> r, code |-> "truncated",
                  examined |-> IF gaps.examined < Size THEN gaps.examined ELSE 0, kind |-> gaps.kind]
    BY DEF Target, Remainder
  <2>3. gaps.not_started => looked[r] = {}
    BY <1>3
  <2> HIDE DEF new
  <2> SUFFICES ASSUME NEW t \in new
               PROVE  /\ t \in TargetRecord /\ t.region = r
                      /\ t.code = "truncated" => \/ t.examined = gaps.examined
                                                 \/ t.examined = 0 /\ gaps.examined = Size
                      /\ t.examined # Unknown => t.examined < Size
                      /\ t.code = "not_started" => looked[r] = {}
    OBVIOUS
  <2>4. CASE t = [region |-> r, code |-> "read_failed", examined |-> 0, kind |-> Unknown]
    BY <1>2, <2>1, <2>4 DEF TargetRecord
  <2>5. CASE t = [region |-> r, code |-> "short_read", examined |-> Unknown, kind |-> Unknown]
    BY <1>2, <2>1, <2>5 DEF TargetRecord
  <2>6. CASE gaps.not_started /\ t = [region |-> r, code |-> "not_started", examined |-> 0, kind |-> gaps.kind]
    BY <1>2, <2>1, <2>3, <2>6 DEF TargetRecord
  <2>7. CASE t = [region |-> r, code |-> "truncated",
                  examined |-> IF gaps.examined < Size THEN gaps.examined ELSE 0, kind |-> gaps.kind]
    <3>1. PICK m \in Nat : m = IF gaps.examined < Size THEN gaps.examined ELSE 0
      BY <1>2
    <3>2. t = [region |-> r, code |-> "truncated", examined |-> m, kind |-> gaps.kind]
      BY <2>7, <3>1
    <3>3. t \in TargetRecord /\ t.region = r /\ t.examined = m /\ t.code = "truncated"
      BY <1>2, <2>1, <3>2 DEF TargetRecord
    <3>4. m < Size /\ (m = gaps.examined \/ (m = 0 /\ gaps.examined = Size))
      BY <1>2, <1>3, <3>1
    <3> QED BY <3>3, <3>4
  <2> QED BY <2>2, <2>4, <2>5, <2>6, <2>7
<1>5. Typed'
  <2>1. r + 1 \in 1..(Len(regions) + 1)
    BY <1>2
  <2>2. piece' \in PieceRecord
    BY <1>1 DEF NoPiece, PieceRecord
  <2>3. targets' \subseteq TargetRecord
    BY <1>0, <1>1, <1>4 DEF Typed, TargetRecord
  <2> HIDE DEF new
  <2> QED BY <1>0, <1>1, <2>1, <2>2, <2>3 DEF Typed, PieceRecord, TargetRecord
<1>6. DataType'
  BY <1>0, <1>1 DEF DataType, InRegion, Searching
<1>7. Retrying' /\ PieceFits' /\ Once' /\ AtEnd'
  BY <1>1 DEF Retrying, PieceFits, Once, AtEnd, InRegion, Searching
<1>8. Seen'
  <2>1. \A q \in 1..Len(regions) : q > r + 1 \/ q = r + 1 => looked[q] = {}
    BY <1>2, <1>3
  <2> QED BY <1>1, <2>1 DEF Seen, InRegion, Searching
<1>9. \A t : Named(t)' = Named(t)
  BY <1>1 DEF Named
<1>10. Reported'
  <2>1. \A t \in targets' : t.region < r + 1
    <3>1. \A t \in targets : t.region < r /\ t.region \in Nat
      BY SMTT(30), <1>0, Bounds DEF IInv, Reported, Typed
    <3> HIDE DEF new
    <3> QED BY <1>1, <1>2, <1>4, <3>1
  <2>2. RemainderIsExact'
    <3> SUFFICES ASSUME NEW t \in targets', t.code = "truncated"
                 PROVE  \/ Named(t) \intersect looked[t.region] = {}
                        \/ t.examined = 0 /\ looked[t.region] = Bytes(t.region)
      BY <1>1, <1>9 DEF RemainderIsExact, Bytes
    <3>1. CASE t \in targets
      BY <3>1 DEF IInv, Reported, RemainderIsExact
    <3>2. CASE t \in new
      <4>1. t.region = r /\ (t.examined = gaps.examined \/ (t.examined = 0 /\ gaps.examined = Size))
        BY <1>4, <3>2
      <4>2. CASE t.examined = gaps.examined
        <5>1. Named(t) = gaps.examined..(regions[r] - 1)
          <6>1. gaps.examined # Unknown
            BY <1>0, <1>2, Bounds
          <6> QED BY <4>1, <4>2, <6>1 DEF Named
        <5>2. (gaps.examined..(regions[r] - 1)) \intersect (0..(gaps.examined - 1)) = {}
          BY <1>2
        <5> QED BY <1>3, <4>1, <5>1, <5>2
      <4>3. CASE t.examined = 0 /\ gaps.examined = Size
        <5>1. looked[r] = Bytes(r)
          BY <1>2, <1>3, <4>3 DEF Bytes
        <5> QED BY <4>1, <4>3, <5>1
      <4> QED BY <4>1, <4>2, <4>3
    <3> QED BY <1>1, <3>1, <3>2
  <2>3. NotStartedIsTrue'
    <3> SUFFICES ASSUME NEW t \in targets', t.code = "not_started" PROVE looked[t.region] = {}
      BY <1>1 DEF NotStartedIsTrue
    <3>1. CASE t \in targets
      BY <3>1 DEF IInv, Reported, NotStartedIsTrue
    <3>2. CASE t \in new
      BY <1>4, <3>2
    <3> QED BY <1>1, <3>1, <3>2
  <2>4. ASSUME NEW q \in 1..r PROVE Covered(q)'
    <3> SUFFICES ASSUME NEW x \in Bytes(q) \ looked[q]
                 PROVE  \E t \in targets' : t.region = q /\ (t.examined = Unknown \/ x \in Named(t))
      BY <1>1, <1>9 DEF Covered, Bytes, GapsOf
    <3>1. CASE q # r
      <4>1. q \in 1..(r - 1)
        BY <1>2, <3>1
      <4>2. PICK t \in GapsOf(q) : t.examined = Unknown \/ x \in Named(t)
        BY <4>1 DEF IInv, Reported, Covered
      <4> QED BY <1>1, <4>2 DEF GapsOf
    <3>2. CASE q = r
      <4>1. x \in Nat /\ x <= Size - 1 /\ ~(x < gaps.examined)
        <5>1. x \in 0..(Size - 1) /\ x \notin 0..(gaps.examined - 1)
          BY <1>2, <1>3, <3>2 DEF Bytes
        <5> QED BY <1>2, <5>1
      <4>2. CASE gaps.read_failed
        <5>1. PICK t \in targets' : t = [region |-> r, code |-> "read_failed", examined |-> 0, kind |-> Unknown]
          BY <1>1, <4>2 DEF Target
        <5>2. x \in Named(t)
          <6>1. t.examined = 0 /\ t.region = r /\ 0 # Unknown
            BY <1>0, <5>1, Bounds
          <6>2. Named(t) = 0..(Size - 1)
            BY <1>2, <6>1 DEF Named
          <6> QED BY <1>2, <4>1, <6>2
        <5> QED BY <3>2, <5>1, <5>2
      <4>3. CASE gaps.short_read
        <5>1. PICK t \in targets' : t = [region |-> r, code |-> "short_read", examined |-> Unknown, kind |-> Unknown]
          BY <1>1, <4>3 DEF Target
        <5> QED BY <3>2, <5>1
      <4>4. CASE gaps.truncated /\ gaps.not_started
        <5>1. PICK t \in targets' : t = [region |-> r, code |-> "not_started", examined |-> 0, kind |-> gaps.kind]
          BY <1>1, <4>4 DEF Target
        <5>2. x \in Named(t)
          <6>1. t.examined = 0 /\ t.region = r /\ 0 # Unknown
            BY <1>0, <5>1, Bounds
          <6>2. Named(t) = 0..(Size - 1)
            BY <1>2, <6>1 DEF Named
          <6> QED BY <1>2, <4>1, <6>2
        <5> QED BY <3>2, <5>1, <5>2
      <4>5. CASE gaps.truncated /\ ~gaps.not_started
        <5>1. gaps.examined < Size
          BY <1>2, <4>1
        <5>2. PICK t \in targets' : t = [region |-> r, code |-> "truncated", examined |-> gaps.examined,
                                         kind |-> gaps.kind]
          BY <1>1, <4>5, <5>1 DEF Remainder, Target
        <5>3. x \in Named(t)
          <6>1. t.examined = gaps.examined /\ t.region = r /\ gaps.examined # Unknown
            BY <1>0, <1>2, <5>2, Bounds
          <6>2. Named(t) = gaps.examined..(Size - 1)
            BY <1>2, <6>1 DEF Named
          <6> QED BY <1>2, <4>1, <6>2
        <5> QED BY <3>2, <5>2, <5>3
      <4>6. CASE ~gaps.read_failed /\ ~gaps.short_read /\ ~gaps.truncated
        <5>1. gaps.examined = Size
          BY <1>0, <4>6 DEF IInv, AtEnd, NoGapYet
        <5> QED BY <1>2, <4>1, <5>1
      <4> QED BY <4>2, <4>3, <4>4, <4>5, <4>6
    <3> QED BY <3>1, <3>2
  <2>5. (r + 1) - 1 = r
    BY <1>2
  <2> HIDE DEF new
  <2>6. \A t \in targets' : t.examined # Unknown => t.examined < regions[t.region]
    BY <1>1, <1>2, <1>4 DEF IInv, Reported
  <2> QED BY <1>1, <2>1, <2>2, <2>3, <2>4, <2>5, <2>6 DEF Reported, Ended
<1>11. Spent'
  <2>1. Extents' = Extents /\ InHand' = InHand
    BY <1>0, <1>1 DEF Extents, InHand
  <2>2. Total(Extents, Len(regions))' = Total(Extents, Len(regions))
    BY <1>1, <2>1 DEF Total
  <2> QED BY <1>1, <2>1, <2>2 DEF IInv, Spent, EvidenceAccounted
<1> QED BY <1>5, <1>6, <1>7, <1>8, <1>10, <1>11 DEF IInv
LEMMA PublishKeeps == ASSUME IInv, Publish PROVE IInv'
<1>0. Typed /\ pc = "region" /\ pc' \in {"raised", "done"}
  BY DEF IInv, Publish
<1>1. /\ r > Len(regions)
      /\ UNCHANGED <<regions, limits, r, marks, outer, inner, piece, budget, gaps, targets, looked, found, handed>>
  BY DEF Publish
<1>2. Typed'
  BY <1>0, <1>1 DEF Typed
<1>3. DataType'
  BY <1>0, <1>1 DEF IInv, DataType, InRegion, Searching
<1>4. Retrying' /\ PieceFits' /\ Once' /\ AtEnd'
  BY <1>0 DEF Retrying, PieceFits, Once, AtEnd, InRegion, Searching
<1>5. Seen'
  BY <1>0, <1>1 DEF IInv, Seen, InRegion, Searching
<1>6. Reported'
  <2>1. r = Len(regions) + 1
    <3>1. r \in Nat /\ Len(regions) \in Nat /\ r <= Len(regions) + 1
      BY <1>0, Bounds
    <3> QED BY <1>1, <3>1
  <2> QED BY <1>1, <2>1 DEF IInv, Reported, RemainderIsExact, NotStartedIsTrue, Named, Covered, Bytes, GapsOf
<1>7. Spent'
  <2>1. Extents' = Extents /\ InHand' = InHand
    BY <1>0, <1>1 DEF Extents, InHand
  <2>2. Total(Extents, Len(regions))' = Total(Extents, Len(regions))
    BY <1>1, <2>1 DEF Total
  <2> QED BY <1>1, <2>1, <2>2 DEF IInv, Spent, EvidenceAccounted
<1> QED BY <1>2, <1>3, <1>4, <1>5, <1>6, <1>7 DEF IInv

LEMMA StutterKeeps == ASSUME IInv, UNCHANGED vars PROVE IInv'
<1>1. UNCHANGED <<regions, limits, r, pc, marks, outer, inner, piece, budget, gaps, targets, looked, found, handed>>
  BY DEF vars
<1>2. Typed'
  BY <1>1 DEF IInv, Typed
<1>3. DataType'
  BY <1>1 DEF IInv, DataType, InRegion, Searching, Size
<1>4. /\ Size' = Size /\ Pos' = Pos /\ End' = End /\ InRetry' = InRetry
      /\ WindowEnd' = WindowEnd /\ PieceEnd' = PieceEnd
  BY <1>1, SpanStands
<1>5. Retrying' /\ PieceFits'
  BY <1>1, <1>4 DEF IInv, Retrying, PieceFits, InRegion, Searching
<1>6. Seen'
  BY <1>1, <1>4 DEF IInv, Seen, InRegion, Searching
<1>7. Once' /\ AtEnd'
  BY <1>1, <1>4 DEF IInv, Once, AtEnd, Passed, Searching, NoGapYet
<1>8. Reported'
  BY <1>1 DEF IInv, Reported, RemainderIsExact, NotStartedIsTrue, Named, Covered, Bytes, GapsOf, Ended
<1>9. Spent'
  <2>1. Extents' = Extents /\ InHand' = InHand
    BY <1>1 DEF Extents, InHand
  <2>2. Total(Extents, Len(regions))' = Total(Extents, Len(regions))
    BY <1>1, <2>1 DEF Total
  <2> QED BY <1>1, <2>1, <2>2 DEF IInv, Spent, EvidenceAccounted
<1> QED BY <1>2, <1>3, <1>5, <1>6, <1>7, <1>8, <1>9 DEF IInv

------------------------------------------------------------------------------
\* The invariant is inductive.
THEOREM NextKeeps == IInv /\ [Next]_vars => IInv'
<1> SUFFICES ASSUME IInv, [Next]_vars PROVE IInv'
  OBVIOUS
<1>1. CASE StartRegion
  BY <1>1, StartRegionKeeps
<1>2. CASE ReadPiece
  BY <1>2, ReadPieceKeeps
<1>3. CASE Probe
  BY <1>3, ProbeKeeps
<1>4. CASE OutOfValidations
  BY <1>4, OutOfValidationsKeeps
<1>5. CASE Candidate
  BY <1>5, CandidateKeeps
<1>6. CASE PieceDone
  BY <1>6, PieceDoneKeeps
<1>7. CASE RetryDone
  BY <1>7, RetryDoneKeeps
<1>8. CASE SpanDone
  BY <1>8, SpanDoneKeeps
<1>9. CASE CloseRegion
  BY <1>9, CloseRegionKeeps
<1>10. CASE Publish
  BY <1>10, PublishKeeps
<1>11. CASE UNCHANGED vars
  BY <1>11, StutterKeeps
<1> QED BY <1>1, <1>2, <1>3, <1>4, <1>5, <1>6, <1>7, <1>8, <1>9, <1>10, <1>11 DEF Next

THEOREM InvariantHolds == Spec => []IInv
BY InitHolds, NextKeeps, PTL DEF Spec

\* _hunt_hidden_pe: counters stay numbers, and what is read, probed, searched or
\* retried, the extent examined and the start of every gap lie inside their region.
THEOREM TypeCorrect == Spec => []TypeOK
<1>1. IInv => TypeOK
  <2> SUFFICES ASSUME IInv PROVE Inside
    BY DEF IInv, TypeOK
  <2>1. Typed /\ DataType /\ Retrying /\ PieceFits
    BY DEF IInv
  <2>2. ASSUME InRegion
        PROVE  /\ r <= Len(regions) /\ gaps.examined <= Size
               /\ InRetry => outer < Size /\ outer <= inner.pos /\ inner.end <= Size
    <3>1. /\ r <= Len(regions) /\ WindowEnd <= Size
          /\ InRetry => outer < Size /\ outer <= inner.pos /\ inner.end = WindowEnd
      BY <2>1, <2>2, SpanBounds, Bounds
    <3> QED BY <2>2, <3>1 DEF IInv, Seen
  <2>3. ASSUME pc = "search"
        PROVE  /\ piece.pos = Pos /\ Pos < End /\ piece.pos + piece.len <= Size
               /\ piece.from \in piece.pos..(piece.pos + piece.len)
    <3>1. piece.pos \in Nat /\ piece.len \in Nat /\ piece.from \in Nat
      BY <2>1, Bounds
    <3> QED BY <2>1, <2>3, <3>1 DEF PieceFits
  <2>4. pc = "probe" => InRetry /\ Pos < End
    BY <2>1 DEF PieceFits
  <2>5. \A t \in targets : t.examined # Unknown => t.examined < regions[t.region]
    BY DEF IInv, Reported
  <2> QED BY <2>2, <2>3, <2>4, <2>5 DEF Inside, InRegion, Searching
<1> QED BY <1>1, InvariantHolds, PTL

\* _hunt_hidden_pe: when the search ends, a byte nothing was searched over lies in
\* a gap of its region, whatever the reads returned and whichever budget ran out.
THEOREM NoByteGoesMissing == Spec => []EveryByteNamed
<1>1. IInv => EveryByteNamed
  <2> SUFFICES ASSUME IInv, Ended PROVE \A q \in 1..Len(regions) : Covered(q)
    BY DEF EveryByteNamed, Covered
  <2>1. r = Len(regions) + 1 /\ \A q \in 1..(r - 1) : Covered(q)
    BY DEF IInv, Reported
  <2>2. (Len(regions) + 1) - 1 = Len(regions)
    BY Bounds DEF IInv
  <2> QED BY <2>1, <2>2
<1> QED BY <1>1, InvariantHolds, PTL

\* _scan_span: the overlap of windows, smaller pieces and probes is exact: no marker
\* is handed over twice, and without a gap every marker was.
THEOREM OverlapIsExact == Spec => []MarkersOnce
<1>1. IInv => MarkersOnce
  <2> SUFFICES ASSUME IInv PROVE MarkersOnce
    OBVIOUS
  <2>1. \A x \in DOMAIN found : found[x] <= 1
    BY DEF IInv, DataType
  <2>2. ASSUME pc = "close", gaps = [NoGaps EXCEPT !.examined = Size] PROVE \A x \in marks : found[x] = 1
    <3>1. NoGapYet
      BY <2>2 DEF NoGapYet, NoGaps
    <3> QED BY <2>2, <3>1 DEF IInv, AtEnd
  <2> QED BY <2>1, <2>2 DEF MarkersOnce
<1> QED BY <1>1, InvariantHolds, PTL

\* _remainder_scan_target: the remainder of a region a budget cut holds no byte that
\* was searched, or is the fallback: the whole of a region searched to its last byte.
THEOREM RemaindersAreExact == Spec => []RemainderIsExact
<1>1. IInv => RemainderIsExact
  BY DEF IInv, Reported
<1> QED BY <1>1, InvariantHolds, PTL

\* _ScanBudget: over the whole hunt, however its memory is cut into regions, no
\* limit is passed, every marker handed over is kept or counted as dropped, and a
\* region said not to have been started was not looked at.
THEOREM HuntsAreAccounted == Spec => []HuntAccounted
<1>1. IInv => HuntAccounted
  <2> SUFFICES ASSUME IInv PROVE HuntAccounted
    OBVIOUS
  <2>1. Typed /\ DataType
    BY DEF IInv
  <2>2. /\ budget.bytes \in Int /\ limits.total_bytes \in Nat /\ piece.len \in Nat
        /\ Total(Extents, Len(regions)) \in Nat
    BY <2>1, BudgetFields, Bounds, ExtentsAre
  <2>3. /\ budget.bytes >= 0 /\ Total(Extents, Len(regions)) + budget.bytes + InHand <= limits.total_bytes
    BY DEF IInv, Spent
  <2>4. InHand \in Nat
    BY <2>2 DEF InHand
  <2>5. Total(Extents, Len(regions)) <= limits.total_bytes
    BY <2>2, <2>3, <2>4
  <2>6. HuntBounded
    BY <2>3, <2>5 DEF IInv, Spent, HuntBounded, Extents
  <2> QED BY <2>6 DEF IInv, Spent, Reported, HuntAccounted
<1> QED BY <1>1, InvariantHolds, PTL
===============================================================================
