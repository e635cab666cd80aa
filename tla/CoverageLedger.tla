--------------------------- MODULE CoverageLedger ----------------------------
(***************************************************************************)
(* A scan loop driving one CoverageTracker by calls in ANY order: the      *)
(* tracker's contract is what it still promises when the loop is wrong     *)
(* (drops an item, closes one twice, closes one it never opened).  The     *)
(* history variables say what the loop really did, item by item.           *)
(***************************************************************************)
EXTENDS CoverageTracker, Sizes

CONSTANTS Sizes,       \* captured sizes a loop can report for an item
          MaxItems,    \* bound: items taken into scope
          MaxNotes     \* bound: dispositions and annotations recorded

ASSUME SizesAssumption == Sizes \subseteq Nat

VARIABLES tracker,     \* the CoverageTracker
          strict,      \* its `strict` field: reject a ledger error by raising
          raised,      \* a strict tracker raised: the scan is over
          marks,       \* history: dispositions recorded while item i was the newest
          early,       \* history: dispositions recorded before any item
          sizes,       \* history: the size reported for item i
          unreached,   \* history: bytes reported through note_unreached_extent
          gapped       \* history: the items with a gap recorded (0: no item yet)

vars == <<tracker, strict, raised, marks, early, sizes, unreached, gapped>>

Init == /\ tracker = NewTracker
        /\ strict \in BOOLEAN
        /\ raised = FALSE
        /\ marks = <<>> /\ early = 0
        /\ sizes = <<>> /\ unreached = 0
        /\ gapped = {}

Eligible(size) ==
    /\ ~raised /\ tracker.total < MaxItems
    /\ tracker' = NoteEligible(tracker, size)
    /\ marks' = Append(marks, 0)
    /\ sizes' = Append(sizes, size)
    /\ UNCHANGED <<strict, raised, early, unreached, gapped>>

Dispose(d) ==
    /\ ~raised /\ Accounted(tracker) < MaxNotes
    /\ ~strict \/ tracker.open_item
    /\ tracker' = Note(tracker, d)
    /\ IF marks = <<>>
       THEN early' = early + 1 /\ UNCHANGED marks
       ELSE marks' = [marks EXCEPT ![Len(marks)] = @ + 1] /\ UNCHANGED early
    /\ gapped' = IF d \in {"read_failed", "skipped_oversize"}
                 THEN gapped \union {Len(marks)} ELSE gapped
    /\ UNCHANGED <<strict, raised, sizes, unreached>>

\* A strict tracker refuses a disposition with no open item.
DisposeRaises ==
    /\ ~raised /\ strict /\ ~tracker.open_item
    /\ raised' = TRUE
    /\ UNCHANGED <<tracker, strict, marks, early, sizes, unreached, gapped>>

ShortRead ==
    /\ ~raised /\ tracker.short_reads < MaxNotes
    /\ tracker' = NoteShortRead(tracker)
    /\ gapped' = gapped \union {Len(marks)}
    /\ UNCHANGED <<strict, raised, marks, early, sizes, unreached>>

BudgetExhausted ==
    /\ ~raised
    /\ tracker' = NoteBudgetExhausted(tracker)
    /\ gapped' = gapped \union {Len(marks)}
    /\ UNCHANGED <<strict, raised, marks, early, sizes, unreached>>

UnreachedExtent(size) ==
    /\ ~raised /\ unreached < MaxItems
    /\ tracker' = NoteUnreachedExtent(tracker, size)
    /\ unreached' = unreached + size
    /\ UNCHANGED <<strict, raised, marks, early, sizes, gapped>>

Next == \/ \E size \in Sizes \union {Unmeasured} : Eligible(size)
        \/ \E d \in Dispositions : Dispose(d)
        \/ DisposeRaises
        \/ ShortRead
        \/ BudgetExhausted
        \/ \E size \in Sizes : UnreachedExtent(size)

Spec == Init /\ [][Next]_vars

------------------------------------------------------------------------------
\* The tracker stays a record of natural counters: no call ever takes one back.
TypeOK == /\ tracker \in Tracker
          /\ strict \in BOOLEAN /\ raised \in BOOLEAN
          /\ marks \in Seq(Nat) /\ early \in Nat
          /\ sizes \in Seq(Nat \union {Unmeasured}) /\ unreached \in Nat
          /\ gapped \subseteq Nat

\* The books balance after any sequence of calls, legal or not: every item is
\* accounted for, missed or open, and every surplus outcome is a stray.
Balanced == Accounted(tracker) + Unaccounted(tracker)
              = tracker.total + OverAccounted(tracker)

\* Opposite mistakes never cancel: when the tracker says it reconciles, each
\* item really received exactly one disposition and nothing preceded them.
ReconciledIsExact ==
    Reconciled(tracker) => /\ early = 0
                           /\ Len(marks) = tracker.total
                           /\ \A i \in 1..Len(marks) : marks[i] = 1

Verdict == DeriveStatus(TRUE, FALSE, Complete(tracker))

\* A clean negative verdict is a positive claim: it needs every item the loop
\* took into scope to have been closed once, and no gap anywhere.
CleanNegativeIsEarned ==
    Verdict = "NOT_DETECTED_IN_SCANNED_SCOPE"
        => gapped = {} /\ early = 0 /\ \A i \in 1..Len(marks) : marks[i] = 1

\* The published denominator stands for every item: one item without a
\* measurement withdraws it, and otherwise nothing is lost or added.
DenominatorIsWhole ==
    IF \E i \in 1..Len(sizes) : sizes[i] = Unmeasured
    THEN EligibleBytes(tracker) = Unmeasured
    ELSE EligibleBytes(tracker) = unreached + Total(sizes, Len(sizes))

\* Once an item was dropped or an outcome recorded twice, no later call can
\* make the scan complete again.
LedgerErrorIsForever ==
    [][tracker.missed + tracker.stray > 0 => ~Complete(tracker')]_vars
==============================================================================
