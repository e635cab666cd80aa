------------------------------ MODULE ScanBudget ------------------------------
(***************************************************************************)
(* dumpex.hunt._budget.ScanBudget as functions of the budget's value: each *)
(* method maps the budget b, its limits L and time.monotonic()'s reading   *)
(* now to the budget it leaves behind.  A method's boolean result is read  *)
(* off the change it made (Granted).                                       *)
(***************************************************************************)
EXTENDS Integers

CONSTANT NoDeadline                \* Python's None in the `deadline` field

ASSUME NoDeadlineAssumption == NoDeadline \notin Nat

Limits == [attempts: Nat, bytes: Nat, retained: Nat, hits: Nat,
           deadline: Nat \union {NoDeadline}]

Reasons == {"", "deadline", "max_attempts", "max_bytes_read", "max_hits",
            "max_retained_bytes"}

Budget == [attempts: Nat, bytes: Nat, retained: Nat, hits: Nat, reason: Reasons]

NewBudget == [attempts |-> 0, bytes |-> 0, retained |-> 0, hits |-> 0, reason |-> ""]

Spent(b) == b.reason # ""

\* Mutant: the deadline instant itself is still inside the budget.
PollAfterDeadline(L, b, now) ==
    IF ~Spent(b) /\ L.deadline # NoDeadline /\ now > L.deadline
    THEN [b EXCEPT !.reason = "deadline"] ELSE b

\* exhausted(), and poll(): the deadline is noticed only when somebody asks,
\* and never replaces an earlier reason.
Poll(L, b, now) ==
    IF ~Spent(b) /\ L.deadline # NoDeadline /\ now >= L.deadline
    THEN [b EXCEPT !.reason = "deadline"] ELSE b

\* Mutant: attempts run out under another limit's name.
NoteAttemptAsHit(L, b, now) ==
    LET p == Poll(L, b, now)
    IN  IF Spent(p) THEN p
        ELSE IF p.attempts >= L.attempts THEN [p EXCEPT !.reason = "max_hits"]
        ELSE [p EXCEPT !.attempts = @ + 1]

NoteAttempt(L, b, now) ==
    LET p == Poll(L, b, now)
    IN  IF Spent(p) THEN p
        ELSE IF p.attempts >= L.attempts THEN [p EXCEPT !.reason = "max_attempts"]
        ELSE [p EXCEPT !.attempts = @ + 1]

\* Mutant: the latest limit reached replaces the first.
LatestReason(L, b, n) ==
    [b EXCEPT !.bytes = @ + n,
              !.reason = IF b.bytes + n >= L.bytes THEN "max_bytes_read" ELSE @]

\* Mutant: output is taken off the total.
BytesRefunded(L, b, n) == [b EXCEPT !.bytes = @ - n]

\* Output is counted after it exists, so the total may pass the limit.
NoteBytesRead(L, b, n) ==
    [b EXCEPT !.bytes = @ + n,
              !.reason = IF @ = "" /\ b.bytes + n >= L.bytes THEN "max_bytes_read" ELSE @]

\* Mutant: one hit too many.
TakeOneMoreHit(L, b, n, now) ==
    LET p == Poll(L, b, now)
    IN  IF Spent(p) THEN p
        ELSE IF p.hits > L.hits THEN [p EXCEPT !.reason = "max_hits"]
        ELSE [p EXCEPT !.hits = @ + 1, !.retained = @ + n]

\* Mutant: the bytes are kept before the hit count is checked.
KeepThenCheck(L, b, n, now) ==
    LET p == Poll(L, b, now)
    IN  IF Spent(p) THEN p
        ELSE IF p.hits >= L.hits THEN [p EXCEPT !.reason = "max_hits", !.retained = @ + n]
        ELSE [p EXCEPT !.hits = @ + 1, !.retained = @ + n]

\* take_hit: one hit and its bytes together, or neither.
TakeHit(L, b, n, now) ==
    LET p == Poll(L, b, now)
    IN  IF Spent(p) THEN p
        ELSE IF p.hits >= L.hits THEN [p EXCEPT !.reason = "max_hits"]
        ELSE IF n > 0 /\ p.retained + n > L.retained
             THEN [p EXCEPT !.reason = "max_retained_bytes"]
        ELSE [p EXCEPT !.hits = @ + 1, !.retained = @ + n]

Granted(b, c) == b.attempts < c.attempts \/ b.hits < c.hits
===============================================================================
