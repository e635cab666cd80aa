---------------------------- MODULE HiddenPeScan -----------------------------
(***************************************************************************)
(* The hidden-PE search of dumpex.hunt.injection.memory_scan: every byte   *)
(* offset of every eligible region is searched for an 'MZ' marker in       *)
(* overlapping windows, a window that cannot be read is retried in smaller *)
(* pieces, each marker's header is validated, and four budgets shared by   *)
(* the regions bound the work.  A region's content is the set of offsets   *)
(* where a marker starts; what a read returns is up to the dump.           *)
(***************************************************************************)
EXTENDS Sizes, FiniteSets, FiniteSetsExt

CONSTANTS
    Hunts,        \* the sequences of eligible region sizes considered
    Limits,       \* the budget limits considered
    Window,       \* PE_SCAN_WINDOW
    Degraded,     \* PE_SCAN_DEGRADED_READ
    ValidateMax,  \* PE_VALIDATE_READ_MAX
    Unknown       \* Python's None: no budget, or no measured extent

MarkerLen == 2
Overlap   == MarkerLen - 1

Limit == [total_bytes: Nat, reads_per_region: Nat, validations_per_region: Nat,
          validations_total: Nat, validated: Nat, unvalidated: Nat]
BudgetKinds == {"reads_per_region", "total_bytes", "validations_per_region", "validations_total"}

ASSUME HiddenPeAssumption ==
    /\ \A h \in Hunts : h \in Seq(Nat \ {0})
    /\ Limits \subseteq Limit
    /\ Degraded \in Nat /\ Degraded > MarkerLen - 1 /\ Window \in Nat /\ Window > Degraded
    /\ ValidateMax \in Nat \ {0} /\ Unknown \notin Nat /\ Unknown \notin BudgetKinds

VARIABLES
    regions,  \* region sizes
    limits,   \* the budget's limits
    r,        \* the region being searched
    pc,       \* what happens next in it
    marks,    \* its markers
    outer,    \* position of the window loop
    inner,    \* span [pos, end] of the smaller pieces retrying one window
    piece,    \* the bytes being searched: [pos, len, from, then]
    budget,   \* _ScanBudget
    gaps,     \* _ScanGaps of the region
    targets,  \* gaps reported so far: [region, code, examined, kind]
    looked,   \* history: bytes of each region really searched
    found,    \* history: how often each marker of the region was handed over
    handed    \* history: markers handed over in the whole hunt

vars == <<regions, limits, r, pc, marks, outer, inner, piece, budget, gaps, targets, looked, found, handed>>

NoSpan   == [pos |-> 0, end |-> 0]
NoPiece  == [pos |-> 0, len |-> 0, from |-> 0, then |-> "advance"]
NoGaps   == [read_failed |-> FALSE, short_read |-> FALSE, truncated |-> FALSE,
             not_started |-> FALSE, examined |-> 0, kind |-> Unknown]

\* 'MZ' cannot start at two neighbouring offsets.
Contents(size) == {m \in SUBSET (0..(size - MarkerLen)) : \A x \in m : x + 1 \notin m}

Init ==
    /\ regions \in Hunts /\ limits \in Limits
    /\ r = 1 /\ pc = "region"
    /\ marks = {} /\ outer = 0 /\ inner = NoSpan /\ piece = NoPiece
    /\ budget = [reads |-> 0, bytes |-> limits.total_bytes,
                 region_validations |-> 0, validations |-> limits.validations_total,
                 validated |-> limits.validated, unvalidated |-> limits.unvalidated,
                 validated_dropped |-> 0, unvalidated_dropped |-> 0, last |-> Unknown]
    /\ gaps = NoGaps /\ targets = {}
    /\ looked = [q \in 1..Len(regions) |-> {}] /\ found = [x \in {} |-> 0]
    /\ handed = 0

Size == regions[r]

\* Mutant: the whole-hunt byte allowance starts over with every region.
StartRegionAfresh ==
    /\ pc = "region" /\ r <= Len(regions)
    /\ budget' = [budget EXCEPT !.reads = limits.reads_per_region, !.bytes = limits.total_bytes,
                                !.region_validations = limits.validations_per_region,
                                !.validations = limits.validations_total]
    /\ marks' \in Contents(Size)
    /\ found' = [x \in marks' |-> 0]
    /\ outer' = 0 /\ inner' = NoSpan /\ gaps' = NoGaps /\ pc' = "read"
    /\ UNCHANGED <<regions, limits, r, piece, targets, looked, handed>>

\* The per-region allowances start over; the whole-hunt ones carry over.
StartRegion ==
    /\ pc = "region" /\ r <= Len(regions)
    /\ budget' = [budget EXCEPT !.reads = limits.reads_per_region,
                                !.region_validations = limits.validations_per_region]
    /\ marks' \in Contents(Size)
    /\ found' = [x \in marks' |-> 0]
    /\ outer' = 0 /\ inner' = NoSpan /\ gaps' = NoGaps /\ pc' = "read"
    /\ UNCHANGED <<regions, limits, r, piece, targets, looked, handed>>

\* Mutant: the request is not capped to the bytes left.
ReadsUncapped(want) ==
    LET b == [budget EXCEPT !.reads = @ - 1]
    IN  IF b.reads < 0 THEN {[n |-> 0, status |-> "budget", b |-> [b EXCEPT !.last = "reads_per_region"]]}
        ELSE IF b.bytes <= 0 THEN {[n |-> 0, status |-> "budget", b |-> [b EXCEPT !.last = "total_bytes"]]}
        ELSE {[n |-> 0, status |-> "failed", b |-> b]}
             \union {[n |-> n, status |-> IF n = want THEN "ok" ELSE "short",
                      b |-> [b EXCEPT !.bytes = @ - n]] : n \in 0..want}

\* _BudgetedReader.read: the possible results of asking for `want` bytes.  A
\* request the byte budget caps names no exhausted budget.
Reads(want) ==
    LET b      == [budget EXCEPT !.reads = @ - 1]
        capped == Min({want, b.bytes})
    IN  IF b.reads < 0 THEN {[n |-> 0, status |-> "budget", b |-> [b EXCEPT !.last = "reads_per_region"]]}
        ELSE IF b.bytes <= 0 THEN {[n |-> 0, status |-> "budget", b |-> [b EXCEPT !.last = "total_bytes"]]}
        ELSE {[n |-> 0, status |-> "failed", b |-> b]}
             \union {[n |-> n,
                      status |-> IF capped < want THEN "budget" ELSE IF n = want THEN "ok" ELSE "short",
                      b |-> [b EXCEPT !.bytes = @ - n]] : n \in 0..capped}

\* Mutant: a region stopped in its first window counts as never started.
StopInFirstWindow(g, b, pos, n) ==
    [g EXCEPT !.truncated = TRUE, !.kind = IF b.last = Unknown THEN @ ELSE b.last,
              !.not_started = (pos = 0)]

\* _stop_on_budget, once the bytes that did come back are searched.
StopOnBudget(g, b, pos, n) ==
    [g EXCEPT !.truncated = TRUE, !.kind = IF b.last = Unknown THEN @ ELSE b.last,
              !.not_started = (pos = 0 /\ n = 0)]

Search(pos, n, then) ==
    /\ piece' = [pos |-> pos, len |-> n, from |-> pos, then |-> then]
    /\ pc' = "search"

InRetry == inner # NoSpan
Pos     == IF InRetry THEN inner.pos ELSE outer
End     == IF InRetry THEN inner.end ELSE Size

\* _scan_span: read the next window or, retrying one, the next smaller piece.
ReadPiece ==
    /\ pc = "read" /\ Pos < End
    /\ LET want == Min({IF InRetry THEN Degraded ELSE Window, End - Pos})
       IN  \E result \in Reads(want) :
             /\ budget' = result.b
             /\ CASE result.status = "budget" /\ result.n = 0 ->
                       /\ gaps' = StopOnBudget(gaps, result.b, Pos, 0)
                       /\ pc' = "close" /\ UNCHANGED <<inner, piece>>
                  [] result.status = "budget" /\ result.n > 0 ->
                       Search(Pos, result.n, "budget") /\ UNCHANGED <<gaps, inner>>
                  [] result.status = "failed" /\ ~InRetry ->
                       /\ inner' = [pos |-> outer, end |-> outer + want]
                       /\ UNCHANGED <<gaps, pc, piece>>
                  [] result.status = "failed" /\ InRetry ->
                       pc' = "probe" /\ UNCHANGED <<gaps, inner, piece>>
                  [] result.status \in {"ok", "short"} ->
                       /\ Search(Pos, result.n, IF result.status = "ok" THEN "advance" ELSE "short")
                       /\ UNCHANGED <<gaps, inner>>
    /\ UNCHANGED <<regions, limits, r, marks, outer, targets, looked, found, handed>>

\* The last resort where even the smallest piece cannot be read: the marker.
Probe ==
    /\ pc = "probe"
    /\ LET want == Min({MarkerLen, Size - Pos})
       IN  \E result \in Reads(want) :
             /\ budget' = result.b
             /\ CASE result.status = "budget" /\ result.n = 0 ->
                       gaps' = StopOnBudget(gaps, result.b, Pos, 0) /\ pc' = "close" /\ UNCHANGED piece
                  [] result.status = "budget" /\ result.n > 0 ->
                       Search(Pos, result.n, "budget") /\ UNCHANGED gaps
                  [] result.status = "ok" -> Search(Pos, result.n, "probed") /\ UNCHANGED gaps
                  [] result.status = "short" ->
                       gaps' = [gaps EXCEPT !.short_read = TRUE] /\ pc' = "close" /\ UNCHANGED piece
                  [] result.status = "failed" ->
                       gaps' = [gaps EXCEPT !.read_failed = TRUE] /\ pc' = "close" /\ UNCHANGED piece
    /\ UNCHANGED <<regions, limits, r, marks, outer, inner, targets, looked, found, handed>>

\* The markers of the piece that are whole in it and not yet handed over.
Ahead == {x \in marks : piece.from <= x /\ x + MarkerLen <= piece.pos + piece.len}

\* Mutant: the drop of a header that found no slot is not counted.
KeepUncounted(b, valid) ==
    IF valid THEN (IF b.validated > 0 THEN [b EXCEPT !.validated = @ - 1] ELSE b)
    ELSE (IF b.unvalidated > 0 THEN [b EXCEPT !.unvalidated = @ - 1] ELSE b)

\* Mutant: a slot is taken without looking whether one is left.
KeepUnchecked(b, valid) ==
    IF valid THEN [b EXCEPT !.validated = @ - 1] ELSE [b EXCEPT !.unvalidated = @ - 1]

\* take_evidence_slot: validated headers and bare markers have pools of their own.
Keep(b, valid) ==
    IF valid /\ b.validated > 0 THEN [b EXCEPT !.validated = @ - 1]
    ELSE IF ~valid /\ b.unvalidated > 0 THEN [b EXCEPT !.unvalidated = @ - 1]
    ELSE IF valid THEN [b EXCEPT !.validated_dropped = @ + 1]
    ELSE [b EXCEPT !.unvalidated_dropped = @ + 1]

Exhausted(b) == IF b.validations < 0 THEN "validations_total"
                ELSE IF b.region_validations < 0 THEN "validations_per_region" ELSE Unknown

\* No validation is left: the region stops at the marker itself.
OutOfValidations ==
    /\ pc = "search" /\ Ahead # {}
    /\ LET x == Min(Ahead)
           b == [budget EXCEPT !.validations = @ - 1, !.region_validations = @ - 1]
       IN  /\ Exhausted(b) # Unknown
           /\ budget' = [b EXCEPT !.last = Exhausted(b)]
           /\ gaps' = [gaps EXCEPT !.examined = Max({@, x}), !.truncated = TRUE, !.kind = Exhausted(b)]
           /\ looked' = [looked EXCEPT ![r] = @ \union (piece.pos..(x - 1))]
    /\ pc' = "close"
    /\ UNCHANGED <<regions, limits, r, marks, outer, inner, piece, targets, found, handed>>

\* _on_bytes for one marker: validate its header, from the bytes in hand or
\* with a read of its own, and keep it if there is a slot.
Candidate ==
    /\ pc = "search" /\ Ahead # {}
    /\ LET x    == Min(Ahead)
           want == Min({ValidateMax, Size - x})
           b    == [budget EXCEPT !.validations = @ - 1, !.region_validations = @ - 1]
           have == Min({ValidateMax, piece.pos + piece.len - x})
       IN  /\ Exhausted(b) = Unknown
           /\ \E valid \in BOOLEAN :
              \E result \in IF have >= want THEN {[n |-> want, status |-> "ok", b |-> budget]}
                            ELSE Reads(want) :
                /\ budget' = Keep([result.b EXCEPT !.validations = b.validations,
                                                   !.region_validations = b.region_validations],
                                  valid)
                /\ gaps' = [gaps EXCEPT
                              !.read_failed = @ \/ result.status = "failed",
                              !.short_read = @ \/ result.status = "short",
                              !.truncated = @ \/ result.status = "budget",
                              !.kind = IF result.status = "budget" /\ result.b.last # Unknown
                                       THEN result.b.last ELSE @]
           /\ found' = [found EXCEPT ![x] = @ + 1] /\ handed' = handed + 1
           /\ piece' = [piece EXCEPT !.from = x + 1]
    /\ UNCHANGED <<regions, limits, r, pc, marks, outer, inner, targets, looked>>

\* Mutant: the windows do not overlap.
StepAbutting(size) == size

\* How far a loop advances: the next piece repeats a marker's length less one.
StepOf(size) == Max({1, size - Overlap})

\* Every marker of the piece was handled: it counts as searched, and the reason
\* it was read decides what follows.
PieceDone ==
    /\ pc = "search" /\ Ahead = {}
    /\ LET end == piece.pos + piece.len
           g   == [gaps EXCEPT !.examined = Max({@, end})]
       IN  /\ gaps' = CASE piece.then = "advance" -> g
                        [] piece.then = "short"  -> [g EXCEPT !.short_read = @ \/ end < Size]
                        [] piece.then = "budget" -> StopOnBudget(g, budget, piece.pos, piece.len)
                        [] piece.then = "probed" -> [g EXCEPT !.read_failed = TRUE]
           /\ looked' = [looked EXCEPT ![r] = @ \union (piece.pos..(end - 1))]
    /\ IF piece.then # "advance" THEN pc' = "close" /\ UNCHANGED <<outer, inner>>
       ELSE /\ pc' = "read"
            /\ IF InRetry THEN inner' = [inner EXCEPT !.pos = @ + StepOf(Degraded)] /\ UNCHANGED outer
               ELSE outer' = outer + StepOf(Window) /\ UNCHANGED inner
    /\ UNCHANGED <<regions, limits, r, marks, piece, budget, targets, found, handed>>

\* Mutant: after a retried window the loop skips the overlap.
RetryDoneAbutting ==
    /\ pc = "read" /\ InRetry /\ Pos >= End
    /\ outer' = inner.end /\ inner' = NoSpan
    /\ UNCHANGED <<regions, limits, r, pc, marks, piece, budget, gaps, targets, looked, found, handed>>

\* The retried window is covered: the window loop goes on.
RetryDone ==
    /\ pc = "read" /\ InRetry /\ Pos >= End
    /\ outer' = outer + StepOf(Window) /\ inner' = NoSpan
    /\ UNCHANGED <<regions, limits, r, pc, marks, piece, budget, gaps, targets, looked, found, handed>>

SpanDone ==
    /\ pc = "read" /\ ~InRetry /\ Pos >= End
    /\ pc' = "close"
    /\ UNCHANGED <<regions, limits, r, marks, outer, inner, piece, budget, gaps, targets, looked, found, handed>>

Target(code, examined, kind) ==
    [region |-> r, code |-> code, examined |-> examined, kind |-> kind]

\* Mutant: the remainder starts after the whole window that was read.
RemainderPastPiece ==
    LET e == Max({gaps.examined, piece.pos + piece.len})
    IN  Target("truncated", IF e < Size THEN e ELSE 0, gaps.kind)

\* Mutant: the remainder starts at the window the scan stopped in.
RemainderFromWindow ==
    Target("truncated", IF outer < Size THEN outer ELSE 0, gaps.kind)

\* _remainder_scan_target, the whole region if nothing is left of it.
Remainder ==
    Target("truncated", IF gaps.examined < Size THEN gaps.examined ELSE 0, gaps.kind)

\* Mutant: a region stopped by a budget is taken up again.
CloseRegionResuming ==
    /\ pc = "close"
    /\ targets' = targets \union (IF gaps.truncated THEN {Remainder} ELSE {})
    /\ r' = (IF gaps.truncated THEN r ELSE r + 1) /\ pc' = "region" /\ piece' = NoPiece
    /\ UNCHANGED <<regions, limits, marks, outer, inner, budget, gaps, looked, found, handed>>

\* The region's gaps become targets of the hunt.
CloseRegion ==
    /\ pc = "close"
    /\ targets' = targets
         \union (IF gaps.read_failed THEN {Target("read_failed", 0, Unknown)} ELSE {})
         \union (IF gaps.short_read THEN {Target("short_read", Unknown, Unknown)} ELSE {})
         \union (IF gaps.truncated /\ gaps.not_started
                 THEN {Target("not_started", 0, gaps.kind)} ELSE {})
         \union (IF gaps.truncated /\ ~gaps.not_started THEN {Remainder} ELSE {})
    /\ r' = r + 1 /\ pc' = "region" /\ piece' = NoPiece
    /\ UNCHANGED <<regions, limits, marks, outer, inner, budget, gaps, looked, found, handed>>

BudgetTargets == {t \in targets : t.code \in {"truncated", "not_started"}}

\* The targets are grouped by budget; a group of no budget has no limit to
\* report, and looking it up raises.
Publish ==
    /\ pc = "region" /\ r > Len(regions)
    /\ pc' = IF \E t \in BudgetTargets : t.kind = Unknown THEN "raised" ELSE "done"
    /\ UNCHANGED <<regions, limits, r, marks, outer, inner, piece, budget, gaps, targets, looked, found, handed>>

Next == \/ StartRegion \/ ReadPiece \/ Probe \/ OutOfValidations \/ Candidate \/ PieceDone
        \/ RetryDone \/ SpanDone \/ CloseRegion \/ Publish

Spec == Init /\ [][Next]_vars

\* One thread runs the search; nothing suspends it for ever.
FairSpec == Spec /\ WF_vars(Next)

------------------------------------------------------------------------------
\* Counters stay numbers, and every target names a region and one of the four gaps.
Typed ==
    /\ regions \in Hunts /\ limits \in Limits /\ r \in 1..(Len(regions) + 1)
    /\ pc \in {"region", "read", "probe", "search", "close", "done", "raised"}
    /\ outer \in Nat /\ inner \in [pos: Nat, end: Nat]
    /\ piece \in [pos: Nat, len: Nat, from: Nat, then: {"advance", "short", "budget", "probed"}]
    /\ budget \in [reads: Int, bytes: Int, region_validations: Int, validations: Int,
                   validated: Nat, unvalidated: Nat, validated_dropped: Nat, unvalidated_dropped: Nat,
                   last: BudgetKinds \union {Unknown}]
    /\ gaps \in [read_failed: BOOLEAN, short_read: BOOLEAN, truncated: BOOLEAN,
                 not_started: BOOLEAN, examined: Nat, kind: BudgetKinds \union {Unknown}]
    /\ targets \subseteq [region: 1..Len(regions),
                          code: {"read_failed", "short_read", "truncated", "not_started"},
                          examined: Nat \union {Unknown}, kind: BudgetKinds \union {Unknown}]

\* What is read, probed, searched or retried lies inside the region, and so do the
\* extent examined and the start of every gap.  (Only the next position of a loop
\* that is over can lie past the end.)
Inside ==
    /\ pc \in {"read", "probe", "search", "close"} =>
         /\ r <= Len(regions) /\ gaps.examined <= Size
         /\ InRetry => outer < Size /\ outer <= inner.pos /\ inner.end <= Size
    /\ pc = "probe" => InRetry /\ Pos < End
    /\ pc = "search" => /\ piece.pos = Pos /\ Pos < End /\ piece.pos + piece.len <= Size
                        /\ piece.from \in piece.pos..(piece.pos + piece.len)
    /\ \A t \in targets : t.examined # Unknown => t.examined < regions[t.region]

\* Every field has its type and every position in use lies inside its region.
TypeOK == Typed /\ Inside

Ended == pc \in {"done", "raised"}
Bytes(q) == 0..(regions[q] - 1)
GapsOf(q) == {t \in targets : t.region = q}
Named(t) == IF t.examined = Unknown THEN {} ELSE t.examined..(regions[t.region] - 1)

\* No byte goes missing in silence: a byte no piece was searched over lies in a
\* gap of its region, measured or not.
EveryByteNamed ==
    Ended => \A q \in 1..Len(regions) : \A x \in Bytes(q) \ looked[q] :
               \E t \in GapsOf(q) : t.examined = Unknown \/ x \in Named(t)

\* The overlap of windows, retries and probes is exact: no marker is handed over
\* twice, and a region without a gap had every marker handed over.
MarkersOnce ==
    /\ \A x \in DOMAIN found : found[x] <= 1
    /\ pc = "close" /\ gaps = [NoGaps EXCEPT !.examined = Size] => \A x \in marks : found[x] = 1

\* The remainder reported at a budget stop holds no byte that was searched.  The code
\* keeps that but for _remainder_scan_target's fallback, which its docstring holds to be
\* out of reach: it names the whole of a region, and only one searched to its last byte.
RemainderIsExact ==
    \A t \in targets : t.code = "truncated" =>
        \/ Named(t) \intersect looked[t.region] = {}
        \/ t.examined = 0 /\ looked[t.region] = Bytes(t.region)

\* A region reported as never started was not looked at.
NotStartedIsTrue == \A t \in targets : t.code = "not_started" => looked[t.region] = {}

\* The whole hunt stays inside its limits however its memory is cut into
\* regions, and no allowance is spent below zero.
HuntBounded ==
    /\ budget.bytes >= 0
    /\ Total([q \in 1..Len(regions) |-> Cardinality(looked[q])], Len(regions)) <= limits.total_bytes
    /\ handed <= limits.validations_total

\* Every marker handed over is kept or counted as dropped, and a flood of bare
\* markers never costs a validated header its slot.
EvidenceAccounted ==
    /\ handed = (limits.validated - budget.validated) + (limits.unvalidated - budget.unvalidated)
                  + budget.validated_dropped + budget.unvalidated_dropped
    /\ budget.validated_dropped > 0 => budget.validated = 0
    /\ budget.unvalidated_dropped > 0 => budget.unvalidated = 0

\* Regions, budgets and evidence add up over the whole hunt.
HuntAccounted == NotStartedIsTrue /\ HuntBounded /\ EvidenceAccounted

\* The search ends whatever the reads return.
HuntEnds == <>Ended

\* The comment where targets are grouped: the budget is always known there.
BudgetNamed == \A t \in BudgetTargets : t.kind # Unknown
==============================================================================
