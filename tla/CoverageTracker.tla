--------------------------- MODULE CoverageTracker ---------------------------
(***************************************************************************)
(* The operations of dumpex.hunt._coverage.CoverageTracker as functions of *)
(* the tracker's value: a scan loop holds one tracker and threads it       *)
(* through its calls.  A gap's target list is kept only as its length; the *)
(* targets themselves are modelled by the scan modules.                    *)
(***************************************************************************)
EXTENDS Integers

CONSTANT Unmeasured      \* Python's None where a byte count is expected

ASSUME UnmeasuredAssumption == Unmeasured \notin Nat

Dispositions ==
    {"scanned", "not_applicable", "budget_skipped", "read_failed", "skipped_oversize"}

Tracker ==
    [noted: [Dispositions -> Nat], total: Nat, short_reads: Nat,
     budget_exhausted: BOOLEAN, open_item: BOOLEAN, missed: Nat, stray: Nat,
     bytes: Nat, unsized: Nat]

NewTracker ==
    [noted |-> [d \in Dispositions |-> 0], total |-> 0, short_reads |-> 0,
     budget_exhausted |-> FALSE, open_item |-> FALSE, missed |-> 0, stray |-> 0,
     bytes |-> 0, unsized |-> 0]

\* Mutant: a missing size is taken for zero.
UnsizedIsEmpty(t, size) ==
    [t EXCEPT !.missed = IF t.open_item THEN @ + 1 ELSE @,
              !.total = @ + 1,
              !.bytes = IF size = Unmeasured THEN @ ELSE @ + size,
              !.open_item = TRUE]

\* note_eligible: an item still open is charged as missed at this very call.
NoteEligible(t, size) ==
    [t EXCEPT !.missed = IF t.open_item THEN @ + 1 ELSE @,
              !.total = @ + 1,
              !.unsized = IF size = Unmeasured THEN @ + 1 ELSE @,
              !.bytes = IF size = Unmeasured THEN @ ELSE @ + size,
              !.open_item = TRUE]

\* Mutant: unreached bytes leave the scope instead of joining it.
UnreachedLeavesScope(t, size) == [t EXCEPT !.bytes = @ - size]

NoteUnreachedExtent(t, size) == [t EXCEPT !.bytes = @ + size]

\* Mutant: an outcome that belongs to no item goes unnoticed.
CloseAnyItem(t) == [t EXCEPT !.open_item = FALSE]

\* _note_disposition, for a tracker that is not strict.
CloseItem(t) ==
    IF t.open_item THEN [t EXCEPT !.open_item = FALSE] ELSE [t EXCEPT !.stray = @ + 1]

\* The five disposition methods: note_scanned, note_not_applicable,
\* note_budget_skipped, note_read_failed and note_skipped_oversize.
Note(t, d) == [CloseItem(t) EXCEPT !.noted[d] = @ + 1]

\* The annotations: neither closes an item.
NoteShortRead(t)       == [t EXCEPT !.short_reads = @ + 1]
NoteBudgetExhausted(t) == [t EXCEPT !.budget_exhausted = TRUE]

EligibleBytes(t) == IF t.unsized > 0 THEN Unmeasured ELSE t.bytes

Accounted(t) == t.noted["scanned"] + t.noted["not_applicable"] + t.noted["budget_skipped"]
                + t.noted["read_failed"] + t.noted["skipped_oversize"]
Unaccounted(t)   == t.missed + (IF t.open_item THEN 1 ELSE 0)
OverAccounted(t) == t.stray
LedgerImbalance(t) ==
    LET d == Accounted(t) + Unaccounted(t) - t.total - OverAccounted(t)
    IN  IF d < 0 THEN -d ELSE d

\* Mutant: reconciliation by subtraction, where opposite errors cancel.
SubtractionReconciles(t) == Accounted(t) = t.total

Reconciled(t) == Unaccounted(t) = 0 /\ OverAccounted(t) = 0 /\ LedgerImbalance(t) = 0

Complete(t) == /\ Reconciled(t)
               /\ t.noted["skipped_oversize"] = 0 /\ t.noted["read_failed"] = 0
               /\ t.short_reads = 0 /\ ~t.budget_exhausted

\* A detection outranks a gap; a gap outranks a clean negative.
DeriveStatus(evaluated, detected, complete) ==
    CASE ~evaluated                         -> "NOT_EVALUATED"
      [] evaluated /\ detected              -> "DETECTED"
      [] evaluated /\ ~detected /\ ~complete -> "INCONCLUSIVE"
      [] OTHER                              -> "NOT_DETECTED_IN_SCANNED_SCOPE"
==============================================================================
