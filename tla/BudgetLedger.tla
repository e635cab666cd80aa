---------------------------- MODULE BudgetLedger -----------------------------
(***************************************************************************)
(* One ScanBudget under calls in any order while the clock runs: several   *)
(* layers of a hunt share a budget, so no caller knows what the others     *)
(* spent or when the deadline passed.                                      *)
(***************************************************************************)
EXTENDS ScanBudget

CONSTANTS L,           \* the budget's limits
          Amounts,     \* byte counts a caller can report
          MaxTime,     \* bound: the clock
          MaxBytes     \* bound: reported output bytes

ASSUME LedgerAssumption == L \in Limits /\ Amounts \subseteq Nat

VARIABLES now, b,
          refused,     \* history: the retained-bytes request that was refused
          kept,        \* history: bytes of the hits that were granted
          polled       \* history: the clock when the budget was last asked

budgetVars == <<now, b, refused, kept, polled>>

BudgetInit == now = 0 /\ b = NewBudget /\ refused = 0 /\ kept = 0 /\ polled = 0

Tick == now < MaxTime /\ now' = now + 1 /\ UNCHANGED <<b, refused, kept, polled>>

Ask == b' = Poll(L, b, now) /\ polled' = now /\ UNCHANGED <<now, refused, kept>>

Attempt == b' = NoteAttempt(L, b, now) /\ polled' = now /\ UNCHANGED <<now, refused, kept>>

Output(n) == /\ b.bytes < MaxBytes
             /\ b' = NoteBytesRead(L, b, n)
             /\ UNCHANGED <<now, refused, kept, polled>>

Hit(n) == /\ b' = TakeHit(L, b, n, now)
          /\ kept' = IF Granted(b, b') THEN kept + n ELSE kept
          /\ refused' = IF ~Spent(b) /\ b'.reason = "max_retained_bytes" THEN n ELSE refused
          /\ polled' = now /\ UNCHANGED now

BudgetNext == Tick \/ Ask \/ Attempt \/ \E n \in Amounts : Output(n) \/ Hit(n)

BudgetSpec == BudgetInit /\ [][BudgetNext]_budgetVars

------------------------------------------------------------------------------
\* The budget stays a record of natural counters and one of five reasons.
BudgetTypeOK == /\ now \in Nat /\ polled \in Nat /\ refused \in Nat /\ kept \in Nat
                /\ b \in Budget

\* No caller spends past a limit, whatever the others spent; only the output
\* total may pass its limit, and then the budget is spent.
LimitsHold == /\ b.attempts <= L.attempts /\ b.hits <= L.hits
              /\ b.retained <= L.retained
              /\ b.bytes >= L.bytes /\ b.bytes > 0 => Spent(b)

\* A hit and its bytes are counted together or not at all.
HitsAreWhole == b.retained = kept

\* The reason a budget reports is the limit that really stopped it.
ReasonIsTrue ==
    /\ b.reason = "deadline" => L.deadline # NoDeadline /\ now >= L.deadline
    /\ b.reason = "max_attempts" => b.attempts = L.attempts
    /\ b.reason = "max_bytes_read" => b.bytes >= L.bytes
    /\ b.reason = "max_hits" => b.hits = L.hits
    /\ b.reason = "max_retained_bytes" => b.retained + refused > L.retained

\* What the layers spent together is bounded, whole, and truly explained.
SpendingHolds == LimitsHold /\ HitsAreWhole /\ ReasonIsTrue

\* A deadline that passed before the last question is not unnoticed.
DeadlineNoticed ==
    L.deadline # NoDeadline /\ polled >= L.deadline /\ polled > 0 => Spent(b)

\* The first exhaustion is final: its reason stands, and no attempt or hit is
\* granted afterwards.
FirstReasonStands ==
    [][Spent(b) => b'.reason = b.reason /\ ~Granted(b, b') /\ b'.retained = b.retained]_budgetVars
===============================================================================
