---------------------------- MODULE LedgerProofs -----------------------------
(***************************************************************************)
(* The two ledgers every scan keeps, for every bound: the books of a       *)
(* CoverageLedger always balance and a clean negative verdict is earned    *)
(* item by item; no caller of a BudgetLedger passes a limit, and the       *)
(* reason it gives is true and final.                                      *)
(***************************************************************************)
EXTENDS CoverageLedger, BudgetLedger, SizesProofs, SequenceTheorems

(* What each operation of the tracker does to its value, for any tracker. *)

\* Closing the open item touches no counter; with none open it is a stray.
LEMMA CloseItemType ==
    ASSUME NEW t \in Tracker
    PROVE  /\ CloseItem(t) \in Tracker
           /\ CloseItem(t).noted = t.noted
           /\ CloseItem(t).total = t.total
           /\ CloseItem(t).missed = t.missed
           /\ CloseItem(t).short_reads = t.short_reads
           /\ CloseItem(t).budget_exhausted = t.budget_exhausted
           /\ CloseItem(t).open_item = FALSE
           /\ CloseItem(t).stray = (IF t.open_item THEN t.stray ELSE t.stray + 1)
           /\ CloseItem(t).bytes = t.bytes /\ CloseItem(t).unsized = t.unsized
<1>1. CASE t.open_item
  BY <1>1 DEF CloseItem, Tracker
<1>2. CASE ~t.open_item
  BY <1>2 DEF CloseItem, Tracker
<1> QED BY <1>1, <1>2

\* A disposition closes the item and counts once, whatever it is.
LEMMA NoteType ==
    ASSUME NEW t \in Tracker, NEW d \in Dispositions
    PROVE  /\ Note(t, d) \in Tracker
           /\ Note(t, d).noted = [t.noted EXCEPT ![d] = t.noted[d] + 1]
           /\ Note(t, d).total = t.total
           /\ Note(t, d).missed = t.missed
           /\ Note(t, d).short_reads = t.short_reads
           /\ Note(t, d).budget_exhausted = t.budget_exhausted
           /\ Note(t, d).open_item = FALSE
           /\ Note(t, d).stray = (IF t.open_item THEN t.stray ELSE t.stray + 1)
           /\ Note(t, d).bytes = t.bytes /\ Note(t, d).unsized = t.unsized
<1> DEFINE c == CloseItem(t)
<1>1. Note(t, d) = [c EXCEPT !.noted = [c.noted EXCEPT ![d] = c.noted[d] + 1]]
  BY DEF Note
<1>2. c \in Tracker /\ c.noted = t.noted
  BY CloseItemType
<1>3. Note(t, d) \in Tracker
  <2> HIDE DEF c
  <2>1. [c.noted EXCEPT ![d] = c.noted[d] + 1] \in [Dispositions -> Nat]
    BY <1>2 DEF Tracker
  <2> QED BY <1>1, <1>2, <2>1 DEF Tracker
<1>4. /\ Note(t, d).noted = [t.noted EXCEPT ![d] = t.noted[d] + 1]
      /\ Note(t, d).total = c.total /\ Note(t, d).missed = c.missed
      /\ Note(t, d).short_reads = c.short_reads /\ Note(t, d).stray = c.stray
      /\ Note(t, d).budget_exhausted = c.budget_exhausted
      /\ Note(t, d).open_item = c.open_item
      /\ Note(t, d).bytes = c.bytes /\ Note(t, d).unsized = c.unsized
  <2> HIDE DEF c
  <2> QED BY <1>1, <1>2 DEF Tracker
<1> QED BY <1>3, <1>4, CloseItemType

\* Each disposition adds one to what the ledger accounts for.
LEMMA AccountedNote ==
    ASSUME NEW t \in Tracker, NEW d \in Dispositions
    PROVE  Accounted(Note(t, d)) = Accounted(t) + 1
<1>1. t.noted \in [Dispositions -> Nat]
  BY DEF Tracker
<1>2. Note(t, d).noted = [t.noted EXCEPT ![d] = t.noted[d] + 1]
  BY NoteType
<1> QED BY <1>1, <1>2 DEF Accounted, Dispositions

\* Taking an item into scope counts it and its size, and an item still open is
\* missed.
LEMMA NoteEligibleType ==
    ASSUME NEW t \in Tracker, NEW size \in Nat \union {Unmeasured}
    PROVE  /\ NoteEligible(t, size) \in Tracker
           /\ NoteEligible(t, size).noted = t.noted
           /\ NoteEligible(t, size).total = t.total + 1
           /\ NoteEligible(t, size).open_item = TRUE
           /\ NoteEligible(t, size).missed = (IF t.open_item THEN t.missed + 1 ELSE t.missed)
           /\ NoteEligible(t, size).stray = t.stray
           /\ NoteEligible(t, size).short_reads = t.short_reads
           /\ NoteEligible(t, size).budget_exhausted = t.budget_exhausted
<1> DEFINE m == IF t.open_item THEN t.missed + 1 ELSE t.missed
           u == IF size = Unmeasured THEN t.unsized + 1 ELSE t.unsized
           y == IF size = Unmeasured THEN t.bytes ELSE t.bytes + size
<1>1. m \in Nat /\ u \in Nat /\ y \in Nat
  BY DEF Tracker
<1>2. NoteEligible(t, size) = [t EXCEPT !.missed = m, !.total = t.total + 1, !.unsized = u,
                                        !.bytes = y, !.open_item = TRUE]
  BY DEF NoteEligible
<1> HIDE DEF m, u, y
<1>3. NoteEligible(t, size) \in Tracker
  <2>1. NoteEligible(t, size) =
          [noted |-> t.noted, total |-> t.total + 1, short_reads |-> t.short_reads,
           budget_exhausted |-> t.budget_exhausted, open_item |-> TRUE, missed |-> m,
           stray |-> t.stray, bytes |-> y, unsized |-> u]
    BY <1>2 DEF Tracker
  <2>2. /\ t.noted \in [Dispositions -> Nat] /\ t.total + 1 \in Nat /\ t.stray \in Nat
        /\ t.short_reads \in Nat /\ t.budget_exhausted \in BOOLEAN
    BY DEF Tracker
  <2> QED BY <1>1, <2>1, <2>2 DEF Tracker
<1>4. /\ NoteEligible(t, size).noted = t.noted
      /\ NoteEligible(t, size).total = t.total + 1
      /\ NoteEligible(t, size).open_item = TRUE
      /\ NoteEligible(t, size).missed = m
      /\ NoteEligible(t, size).stray = t.stray
      /\ NoteEligible(t, size).short_reads = t.short_reads
      /\ NoteEligible(t, size).budget_exhausted = t.budget_exhausted
  BY <1>2 DEF Tracker
<1> QED BY <1>3, <1>4 DEF m

\* A measured size joins the scope; an unmeasured one withdraws the measure.
LEMMA NoteEligibleBytes ==
    ASSUME NEW t \in Tracker, NEW size
    PROVE  /\ size # Unmeasured => /\ NoteEligible(t, size).bytes = t.bytes + size
                                   /\ NoteEligible(t, size).unsized = t.unsized
           /\ size = Unmeasured => /\ NoteEligible(t, size).bytes = t.bytes
                                   /\ NoteEligible(t, size).unsized = t.unsized + 1
<1>1. CASE size = Unmeasured
  BY <1>1 DEF NoteEligible, Tracker
<1>2. CASE size # Unmeasured
  BY <1>2 DEF NoteEligible, Tracker
<1> QED BY <1>1, <1>2

\* The types of a tracker's fields.
LEMMA TrackerFields ==
    ASSUME NEW t \in Tracker
    PROVE  /\ t.noted \in [Dispositions -> Nat] /\ Accounted(t) \in Nat
           /\ t.total \in Nat /\ t.short_reads \in Nat /\ t.missed \in Nat
           /\ t.stray \in Nat /\ t.bytes \in Nat /\ t.unsized \in Nat
           /\ t.open_item \in BOOLEAN /\ t.budget_exhausted \in BOOLEAN
  BY DEF Tracker, Accounted, Dispositions

\* The calls that only annotate, or only add bytes, leave the ledger alone.
LEMMA AnnotationType ==
    ASSUME NEW t \in Tracker, NEW size \in Nat,
           NEW u \in {NoteShortRead(t), NoteBudgetExhausted(t), NoteUnreachedExtent(t, size)}
    PROVE  /\ u \in Tracker /\ u.noted = t.noted /\ u.total = t.total
           /\ u.missed = t.missed /\ u.stray = t.stray /\ u.open_item = t.open_item
           /\ u.short_reads >= t.short_reads
           /\ t.budget_exhausted => u.budget_exhausted
           /\ u = NoteShortRead(t) => u.short_reads > 0
           /\ u = NoteBudgetExhausted(t) => u.budget_exhausted
           /\ u.unsized = t.unsized
           /\ u.bytes = t.bytes \/ (u = NoteUnreachedExtent(t, size) /\ u.bytes = t.bytes + size)
<1>1. CASE u = NoteShortRead(t)
  <2>1. u \in Tracker
    BY <1>1 DEF NoteShortRead, Tracker
  <2>2. /\ u.noted = t.noted /\ u.total = t.total /\ u.missed = t.missed
        /\ u.stray = t.stray /\ u.open_item = t.open_item
        /\ u.budget_exhausted = t.budget_exhausted /\ u.short_reads = t.short_reads + 1
        /\ u.unsized = t.unsized /\ u.bytes = t.bytes
    BY <1>1 DEF NoteShortRead, Tracker
  <2>3. t.short_reads \in Nat
    BY TrackerFields
  <2>4. u = NoteBudgetExhausted(t) => u.budget_exhausted
    BY DEF NoteBudgetExhausted, Tracker
  <2> QED BY <2>1, <2>2, <2>3, <2>4
<1>2. CASE u = NoteBudgetExhausted(t)
  <2>1. u \in Tracker
    BY <1>2 DEF NoteBudgetExhausted, Tracker
  <2>2. /\ u.noted = t.noted /\ u.total = t.total /\ u.missed = t.missed
        /\ u.stray = t.stray /\ u.open_item = t.open_item
        /\ u.budget_exhausted /\ u.short_reads = t.short_reads
        /\ u.unsized = t.unsized /\ u.bytes = t.bytes
    BY <1>2 DEF NoteBudgetExhausted, Tracker
  <2>3. u = NoteShortRead(t) => u.short_reads = t.short_reads + 1
    BY DEF NoteShortRead, Tracker
  <2>4. t.short_reads \in Nat
    BY TrackerFields
  <2> QED BY <2>1, <2>2, <2>3, <2>4
<1>3. CASE u = NoteUnreachedExtent(t, size)
  <2>1. u \in Tracker
    BY <1>3 DEF NoteUnreachedExtent, Tracker
  <2>2. /\ u.noted = t.noted /\ u.total = t.total /\ u.missed = t.missed
        /\ u.stray = t.stray /\ u.open_item = t.open_item
        /\ u.budget_exhausted = t.budget_exhausted /\ u.short_reads = t.short_reads
        /\ u.unsized = t.unsized /\ u.bytes = t.bytes + size
    BY <1>3 DEF NoteUnreachedExtent, Tracker
  <2>3. u = NoteShortRead(t) => u.short_reads = t.short_reads + 1
    BY DEF NoteShortRead, Tracker
  <2>4. u = NoteBudgetExhausted(t) => u.budget_exhausted
    BY DEF NoteBudgetExhausted, Tracker
  <2>5. t.short_reads \in Nat
    BY TrackerFields
  <2> QED BY <1>3, <2>1, <2>2, <2>3, <2>4, <2>5
<1> QED BY <1>1, <1>2, <1>3

(* The scan loop over the tracker. *)

\* What the counters remember of the history: each kind of loop error leaves a
\* trace in a counter nothing ever decrements.
Remembers ==
    /\ Len(marks) = tracker.total
    /\ tracker.open_item => marks # <<>> /\ marks[Len(marks)] = 0
    /\ \A i \in 1..Len(marks) :
          /\ marks[i] = 0 => tracker.missed > 0 \/ (tracker.open_item /\ i = Len(marks))
          /\ marks[i] > 1 => tracker.stray > 0
    /\ early > 0 => tracker.stray > 0
    /\ gapped # {} => \/ tracker.noted["skipped_oversize"] > 0 \/ tracker.noted["read_failed"] > 0
                      \/ tracker.short_reads > 0 \/ tracker.budget_exhausted

IInv == TypeOK /\ Balanced /\ Remembers

LEMMA InitIInv == Init => IInv
<1> SUFFICES ASSUME Init PROVE IInv
  OBVIOUS
<1>1. NewTracker \in Tracker
  BY DEF NewTracker, Tracker
<1>2. /\ Accounted(NewTracker) = 0 /\ NewTracker.total = 0 /\ NewTracker.missed = 0
      /\ NewTracker.stray = 0 /\ NewTracker.open_item = FALSE
  BY DEF NewTracker, Accounted, Dispositions
<1>3. TypeOK
  <2>1. strict \in BOOLEAN /\ raised \in BOOLEAN
    BY DEF Init
  <2>2. /\ tracker \in Tracker /\ marks \in Seq(Nat) /\ early \in Nat
        /\ sizes \in Seq(Nat \union {Unmeasured}) /\ unreached \in Nat /\ gapped \subseteq Nat
    BY <1>1 DEF Init
  <2> QED BY <2>1, <2>2 DEF TypeOK
<1>4. Balanced
  BY <1>2 DEF Init, Balanced, Unaccounted, OverAccounted
<1>5. Remembers
  BY <1>2 DEF Init, Remembers
<1> QED BY <1>3, <1>4, <1>5 DEF IInv

LEMMA StepIInv == IInv /\ [Next]_vars => IInv'
<1> SUFFICES ASSUME IInv, [Next]_vars PROVE IInv'
  OBVIOUS
<1> USE SizesAssumption DEF IInv
<1>0. /\ tracker \in Tracker
      /\ tracker.noted \in [Dispositions -> Nat] /\ Accounted(tracker) \in Nat
      /\ tracker.total \in Nat /\ tracker.short_reads \in Nat /\ tracker.missed \in Nat
      /\ tracker.stray \in Nat /\ tracker.open_item \in BOOLEAN
      /\ marks \in Seq(Nat) /\ early \in Nat /\ gapped \subseteq Nat
  BY TrackerFields DEF TypeOK
<1>1. ASSUME NEW size \in Sizes \union {Unmeasured}, Eligible(size) PROVE IInv'
  <2> DEFINE t == NoteEligible(tracker, size)
  <2>1. /\ tracker' = t /\ marks' = Append(marks, 0) /\ sizes' = Append(sizes, size)
        /\ UNCHANGED <<strict, raised, early, unreached, gapped>>
    BY <1>1 DEF Eligible
  <2>2. /\ t \in Tracker /\ t.noted = tracker.noted
        /\ t.total = tracker.total + 1 /\ t.open_item = TRUE
        /\ t.missed = (IF tracker.open_item THEN tracker.missed + 1 ELSE tracker.missed)
        /\ t.stray = tracker.stray /\ t.short_reads = tracker.short_reads
        /\ t.budget_exhausted = tracker.budget_exhausted
    <3>1. size \in Nat \union {Unmeasured}
      OBVIOUS
    <3> QED BY ZenonT(40), <1>0, <3>1, NoteEligibleType
  <2>3. Accounted(t) = Accounted(tracker)
    BY <2>2 DEF Accounted
  <2> HIDE DEF t
  <2>4. TypeOK'
    BY <2>1, <2>2 DEF TypeOK
  <2>5. Balanced'
    <3>1. Accounted(tracker) + Unaccounted(tracker) = tracker.total + tracker.stray
      BY DEF Balanced, OverAccounted
    <3>2. Unaccounted(t) = Unaccounted(tracker) + 1 /\ Unaccounted(tracker) \in Nat
      <4>1. CASE tracker.open_item
        BY <1>0, <2>2, <4>1 DEF Unaccounted
      <4>2. CASE ~tracker.open_item
        BY <1>0, <2>2, <4>2 DEF Unaccounted
      <4> QED BY <4>1, <4>2
    <3>3. Accounted(t) + Unaccounted(t) = t.total + t.stray
      <4> DEFINE at == Accounted(t) ac == Accounted(tracker) ut == Unaccounted(t)
                 uc == Unaccounted(tracker)
      <4>1. /\ at = ac /\ ut = uc + 1 /\ ac \in Nat /\ uc \in Nat
            /\ ac + uc = tracker.total + tracker.stray
        BY <1>0, <2>3, <3>1, <3>2
      <4> HIDE DEF at, ac, ut, uc
      <4>2. at + ut = t.total + t.stray
        <5>1. t.total = tracker.total + 1 /\ t.stray = tracker.stray
          BY <2>2
        <5>2. tracker.total \in Nat /\ tracker.stray \in Nat
          BY <1>0
        <5> QED BY <4>1, <5>1, <5>2
      <4> QED BY <4>2 DEF at, ut
    <3> QED BY <2>1, <3>3 DEF Balanced, Accounted, Unaccounted, OverAccounted
  <2>6. Remembers'
    <3>1. /\ Len(marks') = Len(marks) + 1 /\ marks'[Len(marks')] = 0 /\ marks' # <<>>
          /\ \A i \in 1..Len(marks) : marks'[i] = marks[i]
      BY <1>0, <2>1
    <3>2. \A i \in 1..Len(marks') :
            /\ marks'[i] = 0 => t.missed > 0 \/ i = Len(marks')
            /\ marks'[i] > 1 => t.stray > 0
      <4> SUFFICES ASSUME NEW i \in 1..Len(marks')
                   PROVE  /\ marks'[i] = 0 => t.missed > 0 \/ i = Len(marks')
                          /\ marks'[i] > 1 => t.stray > 0
        OBVIOUS
      <4>1. CASE i = Len(marks')
        BY <3>1, <4>1
      <4>2. CASE i # Len(marks')
        <5>1. i \in 1..Len(marks) /\ marks'[i] = marks[i] /\ Len(marks) \in Nat
          BY <1>0, <3>1, <4>2
        <5>2. /\ marks[i] = 0 => tracker.missed > 0 \/ tracker.open_item
              /\ marks[i] > 1 => tracker.stray > 0
          BY <5>1 DEF Remembers
        <5> QED BY <1>0, <2>2, <5>1, <5>2
      <4> QED BY <4>1, <4>2
    <3>3. /\ Len(marks') = tracker'.total
          /\ early' > 0 => tracker'.stray > 0
          /\ gapped' # {} => \/ tracker'.noted["skipped_oversize"] > 0
                             \/ tracker'.noted["read_failed"] > 0
                             \/ tracker'.short_reads > 0 \/ tracker'.budget_exhausted
      BY <1>0, <2>1, <2>2, <3>1 DEF Remembers
    <3> QED BY <2>1, <2>2, <3>1, <3>2, <3>3 DEF Remembers
  <2> QED BY <2>4, <2>5, <2>6
<1>2. ASSUME NEW d \in Dispositions, Dispose(d) PROVE IInv'
  <2> DEFINE t == Note(tracker, d)
  <2>1. /\ tracker' = t
        /\ IF marks = <<>>
           THEN early' = early + 1 /\ UNCHANGED marks
           ELSE marks' = [marks EXCEPT ![Len(marks)] = @ + 1] /\ UNCHANGED early
        /\ gapped' = IF d \in {"read_failed", "skipped_oversize"}
                     THEN gapped \union {Len(marks)} ELSE gapped
        /\ UNCHANGED <<strict, raised, sizes, unreached>>
    BY <1>2 DEF Dispose
  <2>2. /\ t \in Tracker /\ Accounted(t) = Accounted(tracker) + 1
        /\ t.noted = [tracker.noted EXCEPT ![d] = tracker.noted[d] + 1]
        /\ t.total = tracker.total /\ t.missed = tracker.missed
        /\ t.short_reads = tracker.short_reads
        /\ t.budget_exhausted = tracker.budget_exhausted
        /\ t.open_item = FALSE
        /\ t.stray = (IF tracker.open_item THEN tracker.stray ELSE tracker.stray + 1)
    BY <1>0, NoteType, AccountedNote
  <2> HIDE DEF t
  <2>3. /\ Len(marks) \in Nat /\ Len(marks') = Len(marks)
        /\ marks' \in Seq(Nat) /\ early' \in Nat /\ gapped' \subseteq Nat
        /\ marks # <<>> => /\ marks'[Len(marks)] = marks[Len(marks)] + 1
                           /\ marks[Len(marks)] \in Nat /\ Len(marks) \in 1..Len(marks)
        /\ \A i \in 1..Len(marks) : i # Len(marks) => marks'[i] = marks[i]
    <3>1. CASE marks = <<>>
      BY <1>0, <2>1, <3>1
    <3>2. CASE marks # <<>>
      <4>1. Len(marks) \in 1..Len(marks) /\ marks[Len(marks)] \in Nat
        BY <1>0, <3>2
      <4>2. marks' = [marks EXCEPT ![Len(marks)] = marks[Len(marks)] + 1] /\ early' = early
        BY <2>1, <3>2
      <4>3. marks' \in Seq(Nat) /\ Len(marks') = Len(marks)
        BY <1>0, <4>1, <4>2
      <4>4. gapped' \subseteq Nat
        <5>1. Len(marks) \in Nat /\ gapped \subseteq Nat
          BY <1>0
        <5>2. gapped' = gapped \/ gapped' = gapped \union {Len(marks)}
          BY <2>1
        <5> QED BY <5>1, <5>2
      <4>5. marks'[Len(marks)] = marks[Len(marks)] + 1
        BY <1>0, <4>1, <4>2
      <4>6. \A i \in 1..Len(marks) : i # Len(marks) => marks'[i] = marks[i]
        BY <1>0, <4>2
      <4>7. early' \in Nat /\ Len(marks) \in Nat
        BY <1>0, <4>2
      <4> QED BY <4>1, <4>3, <4>4, <4>5, <4>6, <4>7
    <3> QED BY <3>1, <3>2
  <2>4. TypeOK'
    BY <2>1, <2>2, <2>3 DEF TypeOK
  <2>5. Balanced'
    <3>1. Accounted(tracker) + Unaccounted(tracker) = tracker.total + tracker.stray
      BY DEF Balanced, OverAccounted
    <3>2. /\ Unaccounted(tracker) \in Nat /\ Unaccounted(t) \in Nat
          /\ Unaccounted(tracker) = Unaccounted(t) + (IF tracker.open_item THEN 1 ELSE 0)
      BY <1>0, <2>2 DEF Unaccounted
    <3>3. Accounted(t) + Unaccounted(t) = t.total + t.stray
      <4> DEFINE at == Accounted(t) ac == Accounted(tracker) ut == Unaccounted(t)
                 uc == Unaccounted(tracker)
      <4>1. /\ at = ac + 1 /\ ac \in Nat /\ uc \in Nat /\ ut \in Nat
            /\ uc = ut + (IF tracker.open_item THEN 1 ELSE 0)
            /\ ac + uc = tracker.total + tracker.stray
        BY <1>0, <2>2, <3>1, <3>2
      <4> HIDE DEF at, ac, ut, uc
      <4>2. at + ut = t.total + t.stray
        <5>1. CASE tracker.open_item
          BY <1>0, <2>2, <4>1, <5>1
        <5>2. CASE ~tracker.open_item
          BY SMTT(30), <1>0, <2>2, <4>1, <5>2
        <5> QED BY <5>1, <5>2
      <4> QED BY <4>2 DEF at, ut
    <3> QED BY <2>1, <3>3 DEF Balanced, Accounted, Unaccounted, OverAccounted
  <2>6. Remembers'
    <3>1. gapped' # {} => \/ t.noted["skipped_oversize"] > 0 \/ t.noted["read_failed"] > 0
                          \/ t.short_reads > 0 \/ t.budget_exhausted
      BY SMTT(30), <1>0, <2>1, <2>2 DEF Remembers, Dispositions
    <3>2. early' > 0 => t.stray > 0
      <4>1. CASE marks = <<>>
        BY <1>0, <2>2, <4>1 DEF Remembers
      <4>2. CASE marks # <<>>
        BY <1>0, <2>1, <2>2, <4>2 DEF Remembers
      <4> QED BY <4>1, <4>2
    <3>3. \A i \in 1..Len(marks) :
            /\ marks'[i] = 0 => t.missed > 0
            /\ marks'[i] > 1 => t.stray > 0
      <4> SUFFICES ASSUME NEW i \in 1..Len(marks)
                   PROVE  /\ marks'[i] = 0 => t.missed > 0
                          /\ marks'[i] > 1 => t.stray > 0
        OBVIOUS
      <4>1. /\ marks[i] = 0 => tracker.missed > 0 \/ (tracker.open_item /\ i = Len(marks))
            /\ marks[i] > 1 => tracker.stray > 0
            /\ tracker.open_item => marks[Len(marks)] = 0
            /\ i = Len(marks) => tracker.stray > 0 \/ ~(marks[i] > 1)
        BY DEF Remembers
      <4>2. CASE i # Len(marks)
        <5>1. marks'[i] = marks[i] /\ t.missed = tracker.missed
          BY <2>2, <2>3, <4>2
        <5>2. tracker.stray > 0 => t.stray > 0
          BY <1>0, <2>2
        <5> QED BY <4>1, <4>2, <5>1, <5>2
      <4>3. CASE i = Len(marks)
        BY SMTT(30), <1>0, <2>2, <2>3, <4>1, <4>3
      <4> QED BY <4>2, <4>3
    <3> QED BY <2>1, <2>2, <2>3, <3>1, <3>2, <3>3, <1>0 DEF Remembers
  <2> QED BY <2>4, <2>5, <2>6
<1>3. CASE DisposeRaises
  BY <1>3 DEF DisposeRaises, TypeOK, Balanced, Remembers
<1>4. ASSUME ShortRead \/ BudgetExhausted \/ (\E size \in Sizes : UnreachedExtent(size))
      PROVE  IInv'
  <2>1. PICK size \in Nat : tracker' \in {NoteShortRead(tracker), NoteBudgetExhausted(tracker),
                                          NoteUnreachedExtent(tracker, size)}
    <3>1. CASE ShortRead \/ BudgetExhausted
      BY <3>1 DEF ShortRead, BudgetExhausted
    <3>2. CASE \E size \in Sizes : UnreachedExtent(size)
      BY <3>2 DEF UnreachedExtent
    <3> QED BY <1>4, <3>1, <3>2
  <2>2. /\ UNCHANGED <<strict, raised, marks, early, sizes>>
        /\ unreached' \in Nat
        /\ \/ gapped' = gapped
           \/ /\ gapped' = gapped \union {Len(marks)}
              /\ tracker' = NoteShortRead(tracker) \/ tracker' = NoteBudgetExhausted(tracker)
    BY <1>4 DEF ShortRead, BudgetExhausted, UnreachedExtent, TypeOK
  <2>3. /\ tracker' \in Tracker /\ tracker'.noted = tracker.noted
        /\ tracker'.total = tracker.total /\ tracker'.missed = tracker.missed
        /\ tracker'.stray = tracker.stray /\ tracker'.open_item = tracker.open_item
        /\ tracker'.short_reads >= tracker.short_reads
        /\ tracker.budget_exhausted => tracker'.budget_exhausted
        /\ tracker' = NoteShortRead(tracker) => tracker'.short_reads > 0
        /\ tracker' = NoteBudgetExhausted(tracker) => tracker'.budget_exhausted
    BY <1>0, <2>1, AnnotationType
  <2>4. tracker'.short_reads \in Nat
    BY <2>3, TrackerFields
  <2>5. TypeOK'
    <3>1. tracker' \in Tracker /\ gapped' \subseteq Nat
      <4>1. gapped' = gapped \/ gapped' = gapped \union {Len(marks)}
        BY <2>2
      <4>2. Len(marks) \in Nat /\ gapped \subseteq Nat
        BY <1>0
      <4> QED BY <2>3, <4>1, <4>2
    <3> QED BY <2>2, <3>1 DEF TypeOK
  <2>6. Balanced'
    BY <1>0, <2>3 DEF Balanced, Accounted, Unaccounted, OverAccounted
  <2>7. Remembers'
    BY <1>0, <2>2, <2>3, <2>4 DEF Remembers
  <2> QED BY <2>5, <2>6, <2>7
<1>5. CASE UNCHANGED vars
  BY <1>5 DEF vars, TypeOK, Balanced, Remembers
<1> QED BY <1>1, <1>2, <1>3, <1>4, <1>5 DEF Next

LEMMA Invariance == Spec => []IInv
  BY InitIInv, StepIInv, PTL DEF Spec

\* Every counter and history variable keeps its type whatever a loop calls.
THEOREM TypeCorrect == Spec => []TypeOK
<1>1. IInv => TypeOK
  BY DEF IInv
<1> QED BY <1>1, Invariance, PTL

\* accounted + unaccounted = total + over_accounted, after any call sequence.
THEOREM BooksBalance == Spec => []Balanced
<1>1. IInv => Balanced
  BY DEF IInv
<1> QED BY <1>1, Invariance, PTL

LEMMA ExactWhenInvariant == IInv => ReconciledIsExact
<1> SUFFICES ASSUME IInv, Reconciled(tracker)
             PROVE  /\ early = 0 /\ Len(marks) = tracker.total
                    /\ \A i \in 1..Len(marks) : marks[i] = 1
  BY DEF ReconciledIsExact
<1>1. /\ tracker.missed \in Nat /\ tracker.stray \in Nat /\ tracker.open_item \in BOOLEAN
      /\ marks \in Seq(Nat) /\ early \in Nat
  BY TrackerFields DEF IInv, TypeOK
<1>2. tracker.missed = 0 /\ tracker.stray = 0 /\ ~tracker.open_item
  BY <1>1 DEF Reconciled, Unaccounted, OverAccounted
<1>3. \A i \in 1..Len(marks) : marks[i] \in Nat /\ marks[i] # 0 /\ ~(marks[i] > 1)
  BY <1>1, <1>2 DEF IInv, Remembers
<1> QED BY <1>1, <1>2, <1>3 DEF IInv, Remembers

\* A tracker that reconciles saw each item closed exactly once: two opposite
\* mistakes of a loop cannot cancel.
THEOREM ReconciliationIsExact == Spec => []ReconciledIsExact
  BY ExactWhenInvariant, Invariance, PTL

\* A clean negative is never an absence of bookkeeping.
THEOREM CleanNegativesAreEarned == Spec => []CleanNegativeIsEarned
<1>1. IInv => CleanNegativeIsEarned
  <2> SUFFICES ASSUME IInv, ReconciledIsExact, Complete(tracker)
               PROVE  gapped = {} /\ early = 0 /\ \A i \in 1..Len(marks) : marks[i] = 1
    <3>1. IInv => ReconciledIsExact
      BY ExactWhenInvariant
    <3>2. Verdict = "NOT_DETECTED_IN_SCANNED_SCOPE" => Complete(tracker)
      BY DEF Verdict, DeriveStatus
    <3> QED BY <3>1, <3>2 DEF CleanNegativeIsEarned
  <2>1. gapped = {}
    BY TrackerFields DEF IInv, TypeOK, Remembers, Complete
  <2> QED BY <2>1 DEF ReconciledIsExact, Complete
<1> QED BY <1>1, Invariance, PTL

\* No call ever decrements the record of a ledger error.
THEOREM LedgerErrorsAreForever == Spec => LedgerErrorIsForever
<1>1. IInv /\ [Next]_vars
        => [tracker.missed + tracker.stray > 0 => ~Complete(tracker')]_vars
  <2> SUFFICES ASSUME IInv, Next, tracker.missed + tracker.stray > 0
               PROVE  ~Complete(tracker')
    OBVIOUS
  <2>1. tracker \in Tracker /\ tracker.missed \in Nat /\ tracker.stray \in Nat
    BY TrackerFields DEF IInv, TypeOK
  <2>2. tracker'.missed + tracker'.stray > 0 /\ tracker' \in Tracker
    <3>1. ASSUME NEW size \in Sizes \union {Unmeasured}, Eligible(size)
          PROVE  tracker'.missed + tracker'.stray > 0 /\ tracker' \in Tracker
      <4> DEFINE t == NoteEligible(tracker, size)
      <4>1. size \in Nat \union {Unmeasured} /\ tracker' = t
        BY <3>1, SizesAssumption DEF Eligible
      <4>2. /\ t \in Tracker /\ t.stray = tracker.stray
            /\ t.missed = (IF tracker.open_item THEN tracker.missed + 1 ELSE tracker.missed)
        BY <2>1, <4>1, NoteEligibleType
      <4> HIDE DEF t
      <4> QED BY <2>1, <4>1, <4>2
    <3>2. ASSUME NEW d \in Dispositions, Dispose(d)
          PROVE  tracker'.missed + tracker'.stray > 0 /\ tracker' \in Tracker
      <4> DEFINE t == Note(tracker, d)
      <4>1. tracker' = t
        BY <3>2 DEF Dispose
      <4>2. /\ t \in Tracker /\ t.missed = tracker.missed
            /\ t.stray = (IF tracker.open_item THEN tracker.stray ELSE tracker.stray + 1)
        BY <2>1, NoteType
      <4> HIDE DEF t
      <4> QED BY <2>1, <4>1, <4>2
    <3>3. ASSUME NEW size \in Nat,
                 tracker' \in {NoteShortRead(tracker), NoteBudgetExhausted(tracker),
                               NoteUnreachedExtent(tracker, size)}
          PROVE  tracker'.missed + tracker'.stray > 0 /\ tracker' \in Tracker
      BY <2>1, <3>3, AnnotationType
    <3> QED BY <2>1, <3>1, <3>2, <3>3, SizesAssumption
            DEF Next, DisposeRaises, ShortRead, BudgetExhausted, UnreachedExtent
  <2>3. tracker'.missed \in Nat /\ tracker'.stray \in Nat /\ tracker'.open_item \in BOOLEAN
    BY <2>2, TrackerFields
  <2> QED BY <2>2, <2>3 DEF Complete, Reconciled, Unaccounted, OverAccounted
<1> QED BY <1>1, Invariance, PTL DEF Spec, LedgerErrorIsForever

\* The two counters behind the denominator: items nobody measured, and the bytes
\* of those somebody did.
Whole ==
    /\ tracker.unsized = 0 <=> \A i \in 1..Len(sizes) : sizes[i] # Unmeasured
    /\ tracker.unsized = 0 => tracker.bytes = unreached + Total(sizes, Len(sizes))

LEMMA InitWhole == Init => Whole
<1> SUFFICES ASSUME Init PROVE Whole
  OBVIOUS
<1>1. tracker.unsized = 0 /\ tracker.bytes = 0
  BY DEF Init, NewTracker
<1>2. sizes = <<>> /\ sizes \in Seq(Nat) /\ Len(sizes) = 0 /\ unreached = 0
  BY DEF Init
<1>3. Total(sizes, Len(sizes)) = 0
  BY <1>2, TotalDefined
<1> QED BY <1>1, <1>2, <1>3 DEF Whole

LEMMA StepWhole == ASSUME IInv, Whole, [Next]_vars PROVE Whole'
<1>0. /\ tracker \in Tracker /\ tracker.unsized \in Nat /\ tracker.bytes \in Nat
      /\ sizes \in Seq(Nat \union {Unmeasured}) /\ Len(sizes) \in Nat /\ unreached \in Nat
  BY TrackerFields DEF IInv, TypeOK
<1>1. ASSUME NEW size \in Sizes \union {Unmeasured}, Eligible(size) PROVE Whole'
  <2>1. /\ tracker' = NoteEligible(tracker, size) /\ sizes' = Append(sizes, size)
        /\ unreached' = unreached
    BY <1>1 DEF Eligible
  <2>2. /\ Len(sizes') = Len(sizes) + 1 /\ sizes'[Len(sizes) + 1] = size
        /\ \A i \in 1..Len(sizes) : sizes'[i] = sizes[i]
    BY <1>0, <2>1
  <2>3. CASE size = Unmeasured
    <3>1. tracker'.unsized = tracker.unsized + 1
      BY <1>0, <2>1, <2>3, NoteEligibleBytes
    <3>2. Len(sizes) + 1 \in 1..Len(sizes')
      BY <1>0, <2>2
    <3> QED BY <1>0, <2>2, <2>3, <3>1, <3>2 DEF Whole
  <2>4. CASE size # Unmeasured
    <3>1. tracker'.unsized = tracker.unsized /\ tracker'.bytes = tracker.bytes + size
      BY <1>0, <2>1, <2>4, NoteEligibleBytes
    <3>2. (\A i \in 1..Len(sizes') : sizes'[i] # Unmeasured)
            <=> \A i \in 1..Len(sizes) : sizes[i] # Unmeasured
      <4>1. \A i \in 1..Len(sizes') : i \in 1..Len(sizes) \/ i = Len(sizes) + 1
        BY <1>0, <2>2
      <4>2. \A i \in 1..Len(sizes) : i \in 1..Len(sizes')
        BY <1>0, <2>2
      <4> QED BY <2>2, <2>4, <4>1, <4>2
    <3>3. ASSUME tracker.unsized = 0
          PROVE  tracker'.bytes = unreached' + Total(sizes', Len(sizes'))
      <4>1. sizes \in Seq(Nat) /\ size \in Nat
        <5>1. \A i \in 1..Len(sizes) : sizes[i] \in Nat
          BY <1>0, <3>3 DEF Whole
        <5> QED BY <1>0, <2>4, <5>1, SizesAssumption
      <4>2. Total(sizes', Len(sizes')) = Total(sizes, Len(sizes)) + size
        BY <2>1, <4>1, TotalAppend
      <4>3. Total(sizes, Len(sizes)) \in Nat
        BY <1>0, <4>1, TotalDefined
      <4>4. tracker.bytes = unreached + Total(sizes, Len(sizes))
        BY <3>3 DEF Whole
      <4> QED BY <1>0, <2>1, <3>1, <4>1, <4>2, <4>3, <4>4
    <3> QED BY <3>1, <3>2, <3>3 DEF Whole
  <2> QED BY <2>3, <2>4
<1>2. ASSUME NEW d \in Dispositions, Dispose(d) PROVE Whole'
  <2>1. tracker' = Note(tracker, d) /\ UNCHANGED <<sizes, unreached>>
    BY <1>2 DEF Dispose
  <2>2. tracker'.bytes = tracker.bytes /\ tracker'.unsized = tracker.unsized
    BY <1>0, <2>1, NoteType
  <2> QED BY <2>1, <2>2 DEF Whole
<1>3. CASE DisposeRaises \/ UNCHANGED vars
  BY <1>3 DEF DisposeRaises, vars, Whole
<1>4. CASE ShortRead \/ BudgetExhausted
  <2>1. /\ tracker' \in {NoteShortRead(tracker), NoteBudgetExhausted(tracker)}
        /\ UNCHANGED <<sizes, unreached>>
    BY <1>4 DEF ShortRead, BudgetExhausted
  <2>2. tracker'.bytes = tracker.bytes /\ tracker'.unsized = tracker.unsized
    BY <1>0, <2>1 DEF NoteShortRead, NoteBudgetExhausted, Tracker
  <2> QED BY <2>1, <2>2 DEF Whole
<1>5. ASSUME NEW size \in Sizes, UnreachedExtent(size) PROVE Whole'
  <2>1. tracker' = NoteUnreachedExtent(tracker, size) /\ unreached' = unreached + size /\ sizes' = sizes
    BY <1>5 DEF UnreachedExtent
  <2>2. tracker'.bytes = tracker.bytes + size /\ tracker'.unsized = tracker.unsized
    BY <1>0, <2>1 DEF NoteUnreachedExtent, Tracker
  <2>3. size \in Nat
    BY SizesAssumption
  <2>4. ASSUME tracker.unsized = 0 PROVE tracker'.bytes = unreached' + Total(sizes', Len(sizes'))
    <3>1. sizes \in Seq(Nat)
      <4>1. \A i \in 1..Len(sizes) : sizes[i] \in Nat
        BY <1>0, <2>4 DEF Whole
      <4> QED BY <1>0, <4>1
    <3>2. Total(sizes, Len(sizes)) \in Nat /\ tracker.bytes = unreached + Total(sizes, Len(sizes))
      BY <1>0, <2>4, <3>1, TotalDefined DEF Whole
    <3> QED BY <1>0, <2>1, <2>2, <2>3, <3>2
  <2> QED BY <2>1, <2>2, <2>4 DEF Whole
<1> QED BY <1>1, <1>2, <1>3, <1>4, <1>5 DEF Next

\* _coverage.py: whatever a loop calls, the denominator it may publish counts
\* every item's bytes, and one item nobody measured withdraws it.
THEOREM DenominatorsAreWhole == Spec => []DenominatorIsWhole
<1>1. Spec => []Whole
  <2>1. IInv /\ Whole /\ [Next]_vars => Whole'
    BY StepWhole
  <2> QED BY <2>1, InitWhole, Invariance, PTL DEF Spec
<1>2. IInv /\ Whole => DenominatorIsWhole
  <2> SUFFICES ASSUME IInv, Whole PROVE DenominatorIsWhole
    OBVIOUS
  <2>1. tracker.unsized \in Nat
    BY TrackerFields DEF IInv, TypeOK
  <2>2. CASE tracker.unsized = 0
    BY <2>2 DEF Whole, DenominatorIsWhole, EligibleBytes
  <2>3. CASE tracker.unsized # 0
    BY <2>1, <2>3 DEF Whole, DenominatorIsWhole, EligibleBytes
  <2> QED BY <2>2, <2>3
<1> QED BY <1>1, <1>2, Invariance, PTL

------------------------------------------------------------------------------
(* BudgetLedger. *)

\* The invariants support one another: a reason is true because the counters
\* hold their limits, and they do because nothing is granted once spent.
BudgetIInv == BudgetTypeOK /\ LimitsHold /\ HitsAreWhole /\ ReasonIsTrue /\ DeadlineNoticed

LEMMA LimitFields ==
    /\ L.attempts \in Nat /\ L.bytes \in Nat /\ L.retained \in Nat /\ L.hits \in Nat
    /\ L.deadline \in Nat \union {NoDeadline} /\ Amounts \subseteq Nat
BY LedgerAssumption DEF Limits

LEMMA BudgetFields ==
    ASSUME NEW c \in Budget
    PROVE  /\ c.attempts \in Nat /\ c.bytes \in Nat /\ c.retained \in Nat /\ c.hits \in Nat
           /\ c.reason \in Reasons
BY DEF Budget

\* The deadline as a predicate of the clock: once passed it stays passed.
Due(t) == L.deadline # NoDeadline /\ t >= L.deadline

LEMMA DueStays == ASSUME NEW t \in Nat, Due(t) PROVE Due(t + 1)
<1>1. L.deadline \in Nat /\ t >= L.deadline /\ L.deadline # NoDeadline
  BY LimitFields DEF Due
<1>2. t + 1 >= L.deadline
  BY <1>1
<1> QED BY <1>1, <1>2 DEF Due

\* A spent budget is left alone; asking only ever adds the reason "deadline".
LEMMA PollEffect ==
    ASSUME NEW c \in Budget, NEW t \in Nat, NEW p, p = Poll(L, c, t)
    PROVE  /\ p \in Budget
           /\ p.attempts = c.attempts /\ p.bytes = c.bytes
           /\ p.retained = c.retained /\ p.hits = c.hits
           /\ \/ p = c
              \/ ~Spent(c) /\ p.reason = "deadline" /\ Due(t)
           /\ Due(t) => Spent(p)
<1>1. CASE ~Spent(c) /\ Due(t)
  <2>1. p = [attempts |-> c.attempts, bytes |-> c.bytes, retained |-> c.retained,
             hits |-> c.hits, reason |-> "deadline"]
    BY <1>1 DEF Poll, Budget, Due
  <2>2. "deadline" \in Reasons
    BY DEF Reasons
  <2>3. p \in Budget
    BY <2>1, <2>2, BudgetFields DEF Budget
  <2>4. /\ p.attempts = c.attempts /\ p.bytes = c.bytes
        /\ p.retained = c.retained /\ p.hits = c.hits /\ p.reason = "deadline"
    BY <2>1
  <2>5. Spent(p)
    BY <2>4 DEF Spent
  <2> QED BY <1>1, <2>3, <2>4, <2>5
<1>2. CASE ~(~Spent(c) /\ Due(t))
  BY <1>2, BudgetFields DEF Poll, Due
<1> QED BY <1>1, <1>2

LEMMA AttemptEffect ==
    ASSUME NEW c \in Budget, NEW t \in Nat,
           NEW p, p = Poll(L, c, t), NEW d, d = NoteAttempt(L, c, t)
    PROVE  /\ d \in Budget
           /\ d.bytes = c.bytes /\ d.retained = c.retained /\ d.hits = c.hits
           /\ \/ d = p /\ Spent(p)
              \/ /\ ~Spent(p) /\ c.attempts >= L.attempts
                 /\ d.attempts = c.attempts /\ d.reason = "max_attempts"
              \/ /\ ~Spent(p) /\ c.attempts < L.attempts
                 /\ d.attempts = c.attempts + 1 /\ d.reason = p.reason
<1>1. /\ p \in Budget /\ p.attempts = c.attempts /\ p.bytes = c.bytes
      /\ p.retained = c.retained /\ p.hits = c.hits
  BY PollEffect
<1>2. CASE Spent(p)
  BY <1>1, <1>2 DEF NoteAttempt
<1>3. CASE ~Spent(p) /\ p.attempts >= L.attempts
  <2>1. d = [p EXCEPT !.reason = "max_attempts"]
    BY <1>3 DEF NoteAttempt
  <2> QED BY <1>1, <1>3, <2>1 DEF Budget, Reasons
<1>4. CASE ~Spent(p) /\ ~(p.attempts >= L.attempts)
  <2>1. d = [p EXCEPT !.attempts = p.attempts + 1]
    BY <1>4 DEF NoteAttempt
  <2>2. p.attempts \in Nat /\ L.attempts \in Nat
    BY <1>1, BudgetFields, LimitFields
  <2>3. d \in Budget /\ d.bytes = p.bytes /\ d.retained = p.retained /\ d.hits = p.hits
        /\ d.attempts = p.attempts + 1 /\ d.reason = p.reason
    <3> QED BY <1>1, <2>1, <2>2 DEF Budget
  <2> QED BY <1>1, <1>4, <2>2, <2>3
<1> QED BY <1>2, <1>3, <1>4

LEMMA BytesEffect ==
    ASSUME NEW c \in Budget, NEW n \in Nat, NEW d, d = NoteBytesRead(L, c, n)
    PROVE  /\ d \in Budget
           /\ d.attempts = c.attempts /\ d.bytes = c.bytes + n
           /\ d.retained = c.retained /\ d.hits = c.hits
           /\ \/ d.reason = c.reason /\ (Spent(c) \/ c.bytes + n < L.bytes)
              \/ ~Spent(c) /\ d.reason = "max_bytes_read" /\ c.bytes + n >= L.bytes
<1>1. c.bytes \in Nat /\ L.bytes \in Nat /\ c.bytes + n \in Nat
  BY BudgetFields, LimitFields
<1>2. CASE c.reason = "" /\ c.bytes + n >= L.bytes
  <2>1. d = [attempts |-> c.attempts, bytes |-> c.bytes + n, retained |-> c.retained,
             hits |-> c.hits, reason |-> "max_bytes_read"]
    BY <1>2 DEF NoteBytesRead, Budget
  <2>2. "max_bytes_read" \in Reasons
    BY DEF Reasons
  <2>3. d \in Budget
    BY <1>1, <2>1, <2>2, BudgetFields DEF Budget
  <2>4. /\ d.attempts = c.attempts /\ d.bytes = c.bytes + n
        /\ d.retained = c.retained /\ d.hits = c.hits /\ d.reason = "max_bytes_read"
    BY <2>1
  <2>5. ~Spent(c)
    BY <1>2 DEF Spent
  <2> QED BY <1>2, <2>3, <2>4, <2>5
<1>3. CASE ~(c.reason = "" /\ c.bytes + n >= L.bytes)
  <2>1. d = [attempts |-> c.attempts, bytes |-> c.bytes + n, retained |-> c.retained,
             hits |-> c.hits, reason |-> c.reason]
    BY <1>3 DEF NoteBytesRead, Budget
  <2>2. d \in Budget
    BY <1>1, <2>1, BudgetFields DEF Budget
  <2>3. /\ d.attempts = c.attempts /\ d.bytes = c.bytes + n
        /\ d.retained = c.retained /\ d.hits = c.hits /\ d.reason = c.reason
    BY <2>1
  <2>4. CASE c.reason # ""
    <3>1. Spent(c)
      BY <2>4 DEF Spent
    <3> QED BY <2>2, <2>3, <3>1
  <2>5. CASE c.reason = ""
    <3>1. ~(c.bytes + n >= L.bytes)
      BY <1>3, <2>5, Zenon
    <3>2. c.bytes + n < L.bytes
      BY <1>1, <3>1
    <3> QED BY <2>2, <2>3, <3>2
  <2> QED BY <2>4, <2>5
<1> QED BY <1>2, <1>3

LEMMA HitEffect ==
    ASSUME NEW c \in Budget, NEW n \in Nat, NEW t \in Nat,
           NEW p, p = Poll(L, c, t), NEW d, d = TakeHit(L, c, n, t)
    PROVE  /\ d \in Budget
           /\ d.bytes = c.bytes /\ d.attempts = c.attempts
           /\ \/ d = p /\ Spent(p)
              \/ /\ ~Spent(p) /\ d.retained = c.retained /\ d.hits = c.hits
                 /\ \/ c.hits >= L.hits /\ d.reason = "max_hits"
                    \/ c.retained + n > L.retained /\ d.reason = "max_retained_bytes"
              \/ /\ ~Spent(p) /\ c.hits < L.hits /\ (n = 0 \/ c.retained + n <= L.retained)
                 /\ d.hits = c.hits + 1 /\ d.retained = c.retained + n /\ d.reason = p.reason
<1>1. /\ p \in Budget /\ p.attempts = c.attempts /\ p.bytes = c.bytes
      /\ p.retained = c.retained /\ p.hits = c.hits
  BY PollEffect
<1>2. CASE Spent(p)
  BY <1>1, <1>2 DEF TakeHit
<1>3. CASE ~Spent(p) /\ p.hits >= L.hits
  <2>1. d = [p EXCEPT !.reason = "max_hits"]
    BY <1>3 DEF TakeHit
  <2> QED BY <1>1, <1>3, <2>1 DEF Budget, Reasons
<1>4. CASE ~Spent(p) /\ ~(p.hits >= L.hits) /\ n > 0 /\ p.retained + n > L.retained
  <2>1. d = [p EXCEPT !.reason = "max_retained_bytes"]
    BY <1>4 DEF TakeHit
  <2> QED BY <1>1, <1>4, <2>1 DEF Budget, Reasons
<1>5. CASE ~Spent(p) /\ ~(p.hits >= L.hits) /\ ~(n > 0 /\ p.retained + n > L.retained)
  <2>1. d = [p EXCEPT !.hits = p.hits + 1, !.retained = p.retained + n]
    BY <1>5 DEF TakeHit
  <2>2. p.hits \in Nat /\ p.retained \in Nat /\ L.hits \in Nat /\ L.retained \in Nat
    BY <1>1, BudgetFields, LimitFields
  <2>3. d \in Budget /\ d.bytes = p.bytes /\ d.attempts = p.attempts /\ d.reason = p.reason
        /\ d.hits = p.hits + 1 /\ d.retained = p.retained + n
    <3>1. d = [attempts |-> p.attempts, bytes |-> p.bytes, retained |-> p.retained + n,
               hits |-> p.hits + 1, reason |-> p.reason]
      <4> QED BY <1>1, <2>1 DEF Budget
    <3> QED BY <1>1, <2>2, <3>1, BudgetFields DEF Budget
  <2> QED BY <1>1, <1>5, <2>2, <2>3
<1> QED BY <1>2, <1>3, <1>4, <1>5

------------------------------------------------------------------------------
THEOREM InitHolds == BudgetInit => BudgetIInv
<1> SUFFICES ASSUME BudgetInit PROVE BudgetIInv
  OBVIOUS
<1>1. /\ now = 0 /\ refused = 0 /\ kept = 0 /\ polled = 0
      /\ b = [attempts |-> 0, bytes |-> 0, retained |-> 0, hits |-> 0, reason |-> ""]
  BY DEF BudgetInit, NewBudget
<1>2. /\ b.attempts = 0 /\ b.bytes = 0 /\ b.retained = 0 /\ b.hits = 0
  BY <1>1
<1>3. b.reason = ""
  BY <1>1
<1>4. BudgetTypeOK
  BY <1>1 DEF BudgetTypeOK, Budget, Reasons
<1>5. LimitsHold
  <2>1. L.attempts \in Nat /\ L.hits \in Nat /\ L.retained \in Nat
    BY LimitFields
  <2>2. b.attempts <= L.attempts /\ b.hits <= L.hits /\ b.retained <= L.retained
    BY <1>2, <2>1
  <2>3. ~(0 > 0)
    OBVIOUS
  <2> QED BY <1>2, <2>2, <2>3, Zenon DEF LimitsHold
<1>6. HitsAreWhole
  BY <1>1, <1>2 DEF HitsAreWhole
<1>7. ReasonIsTrue
  BY <1>3 DEF ReasonIsTrue
<1>8. DeadlineNoticed
  <2>1. ~(0 > 0)
    OBVIOUS
  <2> QED BY <1>1, <2>1, Zenon DEF DeadlineNoticed
<1> QED BY <1>4, <1>5, <1>6, <1>7, <1>8 DEF BudgetIInv

LEMMA StateFields ==
    ASSUME BudgetTypeOK
    PROVE  /\ now \in Nat /\ polled \in Nat /\ refused \in Nat /\ kept \in Nat
           /\ b \in Budget
           /\ b.attempts \in Nat /\ b.bytes \in Nat /\ b.retained \in Nat /\ b.hits \in Nat
           /\ b.reason \in Reasons
BY BudgetFields DEF BudgetTypeOK

LEMMA TickKeeps == ASSUME BudgetIInv, Tick PROVE BudgetIInv'
<1>1. /\ now \in Nat /\ now' = now + 1 /\ b' = b /\ refused' = refused
      /\ kept' = kept /\ polled' = polled
  BY DEF BudgetIInv, BudgetTypeOK, Tick
<1>2. BudgetTypeOK'
  BY <1>1 DEF BudgetIInv, BudgetTypeOK
<1>3. LimitsHold'
  BY <1>1 DEF BudgetIInv, LimitsHold, Spent
<1>4. HitsAreWhole'
  BY <1>1 DEF BudgetIInv, HitsAreWhole
<1>5. DeadlineNoticed'
  BY <1>1 DEF BudgetIInv, DeadlineNoticed, Spent
<1>6. ReasonIsTrue'
  <2>1. b.reason = "deadline" => Due(now)
    BY DEF BudgetIInv, ReasonIsTrue, Due
  <2>2. b'.reason = "deadline" => Due(now')
    BY <1>1, <2>1, DueStays
  <2> QED BY <1>1, <2>2 DEF BudgetIInv, ReasonIsTrue, Due
<1> QED BY <1>2, <1>3, <1>4, <1>5, <1>6 DEF BudgetIInv

\* What a question leaves of the budget p = Poll(L, b, now): every part of the
\* invariant that the budget's own counters decide.
LEMMA PolledKeeps ==
    ASSUME BudgetIInv, NEW p, p = Poll(L, b, now)
    PROVE  /\ p \in Budget
           /\ p.attempts = b.attempts /\ p.bytes = b.bytes
           /\ p.retained = b.retained /\ p.hits = b.hits
           /\ Spent(b) => p = b
           /\ p.reason = b.reason \/ (~Spent(b) /\ p.reason = "deadline" /\ Due(now))
           /\ Due(now) => Spent(p)
           /\ b.bytes >= L.bytes /\ b.bytes > 0 => Spent(p)
<1>1. b \in Budget /\ now \in Nat
  BY DEF BudgetIInv, BudgetTypeOK
<1>2. /\ p \in Budget
      /\ p.attempts = b.attempts /\ p.bytes = b.bytes
      /\ p.retained = b.retained /\ p.hits = b.hits
      /\ p = b \/ (~Spent(b) /\ p.reason = "deadline" /\ Due(now))
      /\ Due(now) => Spent(p)
  BY <1>1, PollEffect
<1>3. b.bytes >= L.bytes /\ b.bytes > 0 => Spent(b)
  BY Zenon DEF BudgetIInv, LimitsHold
<1>4. p.reason = "deadline" => Spent(p)
  BY DEF Spent
<1>5. b.bytes >= L.bytes /\ b.bytes > 0 => Spent(p)
  BY <1>2, <1>3, <1>4, Zenon
<1> QED BY <1>2, <1>5, Zenon

LEMMA AskKeeps == ASSUME BudgetIInv, Ask PROVE BudgetIInv'
<1> DEFINE p == Poll(L, b, now)
<1>1. /\ p \in Budget
      /\ p.attempts = b.attempts /\ p.bytes = b.bytes
      /\ p.retained = b.retained /\ p.hits = b.hits
      /\ p.reason = b.reason \/ (~Spent(b) /\ p.reason = "deadline" /\ Due(now))
      /\ Due(now) => Spent(p)
      /\ b.bytes >= L.bytes /\ b.bytes > 0 => Spent(p)
  BY PolledKeeps
<1>2. b' = p /\ polled' = now /\ now' = now /\ refused' = refused /\ kept' = kept
  BY DEF Ask
<1> HIDE DEF p
<1>3. BudgetTypeOK'
  BY <1>1, <1>2, StateFields DEF BudgetIInv, BudgetTypeOK
<1>4. LimitsHold'
  <2>1. Spent(p) => Spent(b)'
    BY <1>2 DEF Spent
  <2>2. /\ b'.attempts = b.attempts /\ b'.bytes = b.bytes
        /\ b'.retained = b.retained /\ b'.hits = b.hits
    BY <1>1, <1>2
  <2> QED BY <1>1, <2>1, <2>2 DEF BudgetIInv, LimitsHold
<1>5. HitsAreWhole'
  BY <1>1, <1>2 DEF BudgetIInv, HitsAreWhole
<1>6. DeadlineNoticed'
  <2>1. Spent(p) => Spent(b)'
    BY <1>2 DEF Spent
  <2>2. Due(polled)' => Spent(b)'
    BY <1>1, <1>2, <2>1, Zenon DEF Due
  <2> QED BY <2>2, Zenon DEF DeadlineNoticed, Due
<1>7. ReasonIsTrue'
  <2>1. CASE p.reason = b.reason
    BY <1>1, <1>2, <2>1 DEF BudgetIInv, ReasonIsTrue
  <2>2. CASE p.reason = "deadline" /\ Due(now)
    <3>1. b'.reason = "deadline"
      BY <1>2, <2>2
    <3>2. Due(now)'
      BY <1>2, <2>2, Zenon DEF Due
    <3> QED BY <3>1, <3>2 DEF ReasonIsTrue, Due
  <2> QED BY <1>1, <2>1, <2>2
<1> QED BY <1>3, <1>4, <1>5, <1>6, <1>7 DEF BudgetIInv

\* Attempt and Hit refuse a spent budget, so what they change they change in a
\* budget with no reason yet.
LEMMA AttemptKeeps == ASSUME BudgetIInv, Attempt PROVE BudgetIInv'
<1> DEFINE p == Poll(L, b, now)
<1> DEFINE d == NoteAttempt(L, b, now)
<1>1. /\ p.attempts = b.attempts /\ p.bytes = b.bytes
      /\ p.retained = b.retained /\ p.hits = b.hits
      /\ p.reason = b.reason \/ (~Spent(b) /\ p.reason = "deadline" /\ Due(now))
      /\ Due(now) => Spent(p)
      /\ b.bytes >= L.bytes /\ b.bytes > 0 => Spent(p)
  BY PolledKeeps
<1>2. /\ d \in Budget
      /\ d.bytes = b.bytes /\ d.retained = b.retained /\ d.hits = b.hits
      /\ \/ d = p /\ Spent(p)
         \/ /\ ~Spent(p) /\ b.attempts >= L.attempts
            /\ d.attempts = b.attempts /\ d.reason = "max_attempts"
         \/ /\ ~Spent(p) /\ b.attempts < L.attempts
            /\ d.attempts = b.attempts + 1 /\ d.reason = p.reason
  <2>1. b \in Budget /\ now \in Nat
    BY DEF BudgetIInv, BudgetTypeOK
  <2> QED BY <2>1, AttemptEffect
<1>3. b' = d /\ polled' = now /\ now' = now /\ refused' = refused /\ kept' = kept
  BY DEF Attempt
<1>4. /\ b.attempts \in Nat /\ L.attempts \in Nat /\ b.attempts <= L.attempts
      /\ b.hits <= L.hits /\ b.retained <= L.retained
  <2>1. b.attempts <= L.attempts /\ b.hits <= L.hits /\ b.retained <= L.retained
    BY Zenon DEF BudgetIInv, LimitsHold
  <2> QED BY <2>1, StateFields, LimitFields, Zenon DEF BudgetIInv
<1> HIDE DEF p, d
<1>5. BudgetTypeOK'
  BY <1>2, <1>3, StateFields DEF BudgetIInv, BudgetTypeOK
<1>6. Spent(p) => d = p
  BY <1>2
<1>7. Due(now) \/ (b.bytes >= L.bytes /\ b.bytes > 0) => Spent(d)
  BY <1>1, <1>6, Zenon
<1>8. LimitsHold'
  <2>1. Spent(d) => Spent(b)'
    BY <1>3 DEF Spent
  <2>2. d.attempts = b.attempts \/ (b.attempts < L.attempts /\ d.attempts = b.attempts + 1)
    BY <1>1, <1>2
  <2>3. d.attempts <= L.attempts
    BY <1>4, <2>2
  <2> QED BY <1>2, <1>3, <1>4, <1>7, <2>1, <2>3 DEF LimitsHold
<1>9. HitsAreWhole'
  BY <1>2, <1>3 DEF BudgetIInv, HitsAreWhole
<1>10. DeadlineNoticed'
  <2>1. Spent(d) => Spent(b)'
    BY <1>3 DEF Spent
  <2>2. Due(polled)' => Spent(b)'
    BY <1>3, <1>7, <2>1, Zenon DEF Due
  <2> QED BY <2>2, Zenon DEF DeadlineNoticed, Due
<1>11. ReasonIsTrue'
  <2>1. CASE d = p /\ p.reason = b.reason
    BY <1>1, <1>3, <2>1 DEF BudgetIInv, ReasonIsTrue
  <2>2. CASE d = p /\ p.reason = "deadline" /\ Due(now)
    <3>1. b'.reason = "deadline"
      BY <1>3, <2>2
    <3>2. Due(now)'
      BY <1>3, <2>2, Zenon DEF Due
    <3> QED BY <3>1, <3>2 DEF ReasonIsTrue, Due
  <2>3. CASE d.attempts = b.attempts /\ d.reason = "max_attempts" /\ b.attempts >= L.attempts
    <3>1. b.attempts = L.attempts
      BY <1>4, <2>3
    <3>2. b'.reason = "max_attempts" /\ b'.attempts = L.attempts
      BY <1>3, <2>3, <3>1
    <3> QED BY <3>2 DEF ReasonIsTrue
  <2>4. CASE ~Spent(p) /\ d.reason = p.reason
    <3>1. b'.reason = ""
      BY <1>3, <2>4 DEF Spent
    <3> QED BY <3>1 DEF ReasonIsTrue
  <2> QED BY <1>1, <1>2, <2>1, <2>2, <2>3, <2>4
<1> QED BY <1>5, <1>8, <1>9, <1>10, <1>11 DEF BudgetIInv

LEMMA OutputKeeps == ASSUME BudgetIInv, NEW n \in Amounts, Output(n) PROVE BudgetIInv'
<1> DEFINE d == NoteBytesRead(L, b, n)
<1>1. b \in Budget /\ n \in Nat
  BY LimitFields DEF BudgetIInv, BudgetTypeOK
<1>2. /\ d \in Budget
      /\ d.attempts = b.attempts /\ d.bytes = b.bytes + n
      /\ d.retained = b.retained /\ d.hits = b.hits
      /\ \/ d.reason = b.reason /\ (Spent(b) \/ b.bytes + n < L.bytes)
         \/ ~Spent(b) /\ d.reason = "max_bytes_read" /\ b.bytes + n >= L.bytes
  BY <1>1, BytesEffect
<1>3. b' = d /\ polled' = polled /\ now' = now /\ refused' = refused /\ kept' = kept
  BY DEF Output
<1> HIDE DEF d
<1>4. BudgetTypeOK'
  BY <1>2, <1>3 DEF BudgetIInv, BudgetTypeOK
<1>5. b.bytes \in Nat /\ L.bytes \in Nat /\ b.bytes + n \in Nat
  BY <1>1, BudgetFields, LimitFields
<1>6. Spent(b) => Spent(d)
  BY <1>2, Zenon DEF Spent
<1>7. Spent(d) => Spent(b)'
  BY <1>3 DEF Spent
<1>8. LimitsHold'
  <2>1. d.bytes >= L.bytes => Spent(d)
    <3>1. CASE d.reason = b.reason /\ Spent(b)
      BY <1>6, <3>1, Zenon
    <3>2. CASE b.bytes + n < L.bytes
      <4>1. ~(d.bytes >= L.bytes)
        BY <1>2, <1>5, <3>2
      <4> QED BY <4>1, Zenon
    <3>3. CASE d.reason = "max_bytes_read"
      BY <3>3 DEF Spent
    <3> QED BY <1>2, <3>1, <3>2, <3>3, Zenon
  <2>2. b.attempts <= L.attempts /\ b.hits <= L.hits /\ b.retained <= L.retained
    BY Zenon DEF BudgetIInv, LimitsHold
  <2> QED BY <1>2, <1>3, <1>7, <2>1, <2>2, Zenon DEF LimitsHold
<1>9. HitsAreWhole'
  BY <1>2, <1>3 DEF BudgetIInv, HitsAreWhole
<1>10. DeadlineNoticed'
  <2>1. Due(polled) /\ polled > 0 => Spent(b)
    BY Zenon DEF BudgetIInv, DeadlineNoticed, Due
  <2>2. (Due(polled) /\ polled > 0)' => Spent(b)'
    BY <1>3, <1>6, <1>7, <2>1, Zenon DEF Due
  <2> QED BY <2>2, Zenon DEF DeadlineNoticed, Due
<1>11. ReasonIsTrue'
  <2>1. CASE d.reason = b.reason
    <3>1. b.bytes >= L.bytes => d.bytes >= L.bytes
      BY <1>1, <1>2, <1>5
    <3>2. b'.reason = "max_bytes_read" => b'.bytes >= L.bytes
      BY <1>3, <2>1, <3>1, Zenon DEF BudgetIInv, ReasonIsTrue
    <3> QED BY <1>2, <1>3, <2>1, <3>2, Zenon DEF BudgetIInv, ReasonIsTrue
  <2>2. CASE d.reason = "max_bytes_read" /\ b.bytes + n >= L.bytes
    <3>1. b'.reason = "max_bytes_read" /\ b'.bytes >= L.bytes
      BY <1>2, <1>3, <2>2
    <3> QED BY <3>1 DEF ReasonIsTrue
  <2> QED BY <1>2, <2>1, <2>2
<1> QED BY <1>4, <1>8, <1>9, <1>10, <1>11 DEF BudgetIInv

LEMMA HitKeeps == ASSUME BudgetIInv, NEW n \in Amounts, Hit(n) PROVE BudgetIInv'
<1> DEFINE p == Poll(L, b, now)
<1> DEFINE d == TakeHit(L, b, n, now)
<1>1. b \in Budget /\ now \in Nat /\ n \in Nat
  BY LimitFields DEF BudgetIInv, BudgetTypeOK
<1>2. /\ p.attempts = b.attempts /\ p.bytes = b.bytes
      /\ p.retained = b.retained /\ p.hits = b.hits
      /\ Spent(b) => p = b
      /\ p.reason = b.reason \/ (~Spent(b) /\ p.reason = "deadline" /\ Due(now))
      /\ Due(now) => Spent(p)
      /\ b.bytes >= L.bytes /\ b.bytes > 0 => Spent(p)
  BY PolledKeeps
<1>3. /\ d \in Budget /\ d.bytes = b.bytes /\ d.attempts = b.attempts
      /\ \/ d = p /\ Spent(p)
         \/ /\ ~Spent(p) /\ d.retained = b.retained /\ d.hits = b.hits
            /\ \/ b.hits >= L.hits /\ d.reason = "max_hits"
               \/ b.retained + n > L.retained /\ d.reason = "max_retained_bytes"
         \/ /\ ~Spent(p) /\ b.hits < L.hits /\ (n = 0 \/ b.retained + n <= L.retained)
            /\ d.hits = b.hits + 1 /\ d.retained = b.retained + n /\ d.reason = p.reason
  BY <1>1, HitEffect
<1>4. /\ b' = d /\ polled' = now /\ now' = now
      /\ kept' = IF Granted(b, d) THEN kept + n ELSE kept
      /\ refused' = IF ~Spent(b) /\ d.reason = "max_retained_bytes" THEN n ELSE refused
  BY Zenon DEF Hit
<1>5. /\ b.attempts \in Nat /\ b.hits \in Nat /\ b.retained \in Nat
      /\ L.hits \in Nat /\ L.retained \in Nat /\ kept \in Nat /\ refused \in Nat
  BY <1>1, BudgetFields, LimitFields DEF BudgetIInv, BudgetTypeOK
<1>6. /\ b.attempts <= L.attempts /\ b.hits <= L.hits /\ b.retained <= L.retained
      /\ b.retained = kept
  BY Zenon DEF BudgetIInv, LimitsHold, HitsAreWhole
<1> HIDE DEF p, d
<1>7. Spent(d) => Spent(b)'
  BY <1>4 DEF Spent
<1>8. Spent(p) => d = p
  BY <1>3, Zenon
<1>9. (Due(now) => Spent(b)') /\ (b.bytes >= L.bytes /\ b.bytes > 0 => Spent(b)')
  BY <1>2, <1>7, <1>8, Zenon
<1>10. d.hits <= L.hits /\ d.retained <= L.retained
  <2>1. \/ d.hits = b.hits /\ d.retained = b.retained
        \/ /\ b.hits < L.hits /\ (n = 0 \/ b.retained + n <= L.retained)
           /\ d.hits = b.hits + 1 /\ d.retained = b.retained + n
    BY <1>2, <1>3, Zenon
  <2> QED BY <1>1, <1>5, <1>6, <2>1
<1>11. LimitsHold'
  BY <1>3, <1>4, <1>6, <1>9, <1>10, Zenon DEF LimitsHold
<1>12. BudgetTypeOK'
  <2>1. kept' \in Nat /\ refused' \in Nat
    BY <1>1, <1>4, <1>5
  <2> QED BY <1>1, <1>3, <1>4, <2>1 DEF BudgetTypeOK
<1>13. HitsAreWhole'
  <2>1. CASE d.hits = b.hits /\ d.retained = b.retained
    <3>1. ~Granted(b, d)
      BY <1>3, <1>5, <2>1 DEF Granted
    <3> QED BY <1>4, <1>6, <2>1, <3>1 DEF HitsAreWhole
  <2>2. CASE d.hits = b.hits + 1 /\ d.retained = b.retained + n
    <3>1. Granted(b, d)
      BY <1>5, <2>2 DEF Granted
    <3> QED BY <1>4, <1>6, <2>2, <3>1 DEF HitsAreWhole
  <2> QED BY <1>2, <1>3, <2>1, <2>2, Zenon
<1>14. DeadlineNoticed'
  <2>1. Due(polled)' => Spent(b)'
    BY <1>4, <1>9, Zenon DEF Due
  <2> QED BY <2>1, Zenon DEF DeadlineNoticed, Due
<1>15. ReasonIsTrue'
  <2>1. CASE d = p /\ p.reason = b.reason
    <3>1. refused' = refused \/ b'.reason = ""
      <4>1. CASE Spent(b)
        BY <1>4, <4>1, Zenon
      <4>2. CASE ~Spent(b)
        BY <1>4, <2>1, <4>2 DEF Spent
      <4> QED BY <4>1, <4>2
    <3>2. /\ b'.attempts = b.attempts /\ b'.bytes = b.bytes /\ b'.hits = b.hits
          /\ b'.retained = b.retained /\ b'.reason = b.reason /\ now' = now
      BY <1>2, <1>4, <2>1, Zenon
    <3>3. CASE b'.reason = ""
      BY <3>3 DEF ReasonIsTrue
    <3>4. CASE refused' = refused
      BY <3>2, <3>4, Zenon DEF BudgetIInv, ReasonIsTrue
    <3> QED BY <3>1, <3>3, <3>4
  <2>2. CASE d = p /\ p.reason = "deadline" /\ Due(now)
    <3>1. b'.reason = "deadline"
      BY <1>4, <2>2
    <3>2. Due(now)'
      BY <1>4, <2>2, Zenon DEF Due
    <3> QED BY <3>1, <3>2 DEF ReasonIsTrue, Due
  <2>3. CASE d.hits = b.hits /\ b.hits >= L.hits /\ d.reason = "max_hits"
    <3>1. b.hits = L.hits
      BY <1>5, <1>6, <2>3
    <3>2. b'.reason = "max_hits" /\ b'.hits = L.hits
      BY <1>4, <2>3, <3>1
    <3> QED BY <3>2 DEF ReasonIsTrue
  <2>4. CASE /\ ~Spent(p) /\ d.retained = b.retained
             /\ b.retained + n > L.retained /\ d.reason = "max_retained_bytes"
    <3>1. ~Spent(b)
      BY <1>2, <2>4, Zenon
    <3>2. b'.reason = "max_retained_bytes" /\ b'.retained = b.retained /\ refused' = n
      BY <1>4, <2>4, <3>1, Zenon
    <3>3. b'.retained + refused' > L.retained
      BY <2>4, <3>2, Zenon
    <3> QED BY <3>2, <3>3 DEF ReasonIsTrue
  <2>5. CASE ~Spent(p) /\ d.reason = p.reason
    <3>1. b'.reason = ""
      BY <1>4, <2>5 DEF Spent
    <3> QED BY <3>1 DEF ReasonIsTrue
  <2> QED BY <1>2, <1>3, <2>1, <2>2, <2>3, <2>4, <2>5, Zenon
<1> QED BY <1>11, <1>12, <1>13, <1>14, <1>15 DEF BudgetIInv

------------------------------------------------------------------------------
LEMMA StepKeeps == BudgetIInv /\ [BudgetNext]_budgetVars => BudgetIInv'
<1> SUFFICES ASSUME BudgetIInv, [BudgetNext]_budgetVars PROVE BudgetIInv'
  OBVIOUS
<1>1. CASE Tick
  BY <1>1, TickKeeps
<1>2. CASE Ask
  BY <1>2, AskKeeps
<1>3. CASE Attempt
  BY <1>3, AttemptKeeps
<1>4. ASSUME NEW n \in Amounts, Output(n) PROVE BudgetIInv'
  BY <1>4, OutputKeeps
<1>5. ASSUME NEW n \in Amounts, Hit(n) PROVE BudgetIInv'
  BY <1>5, HitKeeps
<1>6. CASE UNCHANGED budgetVars
  BY <1>6 DEF budgetVars, BudgetIInv, BudgetTypeOK, LimitsHold, HitsAreWhole, ReasonIsTrue, DeadlineNoticed, Spent
<1> QED BY <1>1, <1>2, <1>3, <1>4, <1>5, <1>6 DEF BudgetNext

LEMMA IInvHolds == BudgetSpec => []BudgetIInv
BY InitHolds, StepKeeps, PTL DEF BudgetSpec

\* The budget is always a record of natural counters and a known reason.
THEOREM BudgetTypeCorrect == BudgetSpec => []BudgetTypeOK
<1>1. BudgetIInv => BudgetTypeOK
  BY DEF BudgetIInv
<1> QED BY <1>1, IInvHolds, PTL

\* No interleaving of note_attempt, take_hit and note_bytes_read by the layers
\* that share a budget takes it past max_attempts, max_hits or
\* max_retained_bytes, and a passed max_bytes_read leaves it spent.
THEOREM LimitsAlwaysHold == BudgetSpec => []LimitsHold
<1>1. BudgetIInv => LimitsHold
  BY DEF BudgetIInv
<1> QED BY <1>1, IInvHolds, PTL

\* take_hit counts a hit and its bytes together or refuses both.
THEOREM HitsAlwaysWhole == BudgetSpec => []HitsAreWhole
<1>1. BudgetIInv => HitsAreWhole
  BY DEF BudgetIInv
<1> QED BY <1>1, IInvHolds, PTL

\* exhausted_by never blames a limit that was not reached.
THEOREM ReasonAlwaysTrue == BudgetSpec => []ReasonIsTrue
<1>1. BudgetIInv => ReasonIsTrue
  BY DEF BudgetIInv
<1> QED BY <1>1, IInvHolds, PTL

\* poll, exhausted, note_attempt and take_hit all notice a passed deadline.
THEOREM DeadlineAlwaysNoticed == BudgetSpec => []DeadlineNoticed
<1>1. BudgetIInv => DeadlineNoticed
  BY DEF BudgetIInv
<1> QED BY <1>1, IInvHolds, PTL

\* A shared budget is never overspent, never half-charged, and never names a limit
\* that was not reached, for every limit, clock and order of calls.
THEOREM SpendingAlwaysHolds == BudgetSpec => []SpendingHolds
<1>1. BudgetIInv => SpendingHolds
  BY DEF BudgetIInv, SpendingHolds
<1> QED BY <1>1, IInvHolds, PTL

LEMMA SpentStays ==
    ASSUME BudgetIInv, BudgetNext, Spent(b)
    PROVE  b'.reason = b.reason /\ ~Granted(b, b') /\ b'.retained = b.retained
<1>1. b \in Budget /\ now \in Nat
  BY DEF BudgetIInv, BudgetTypeOK
<1>2. ~(b.attempts < b.attempts) /\ ~(b.hits < b.hits)
  BY <1>1, BudgetFields
<1>3. Poll(L, b, now) = b
  BY Zenon DEF Poll
<1>4. CASE b' = b
  BY <1>2, <1>4, Zenon DEF Granted
<1>5. CASE Tick
  BY <1>4, <1>5, Zenon DEF Tick
<1>6. CASE Ask
  BY <1>3, <1>4, <1>6, Zenon DEF Ask
<1>7. CASE Attempt
  BY <1>3, <1>4, <1>7, Zenon DEF Attempt, NoteAttempt
<1>8. ASSUME NEW n \in Amounts, Output(n)
      PROVE  b'.reason = b.reason /\ ~Granted(b, b') /\ b'.retained = b.retained
  <2>1. n \in Nat /\ b' = NoteBytesRead(L, b, n)
    BY <1>8, LimitFields, Zenon DEF Output
  <2>2. /\ b'.attempts = b.attempts /\ b'.hits = b.hits
        /\ b'.retained = b.retained /\ b'.reason = b.reason
    BY <1>1, <2>1, BytesEffect
  <2> QED BY <1>2, <2>2, Zenon DEF Granted
<1>9. ASSUME NEW n \in Amounts, Hit(n)
      PROVE  b'.reason = b.reason /\ ~Granted(b, b') /\ b'.retained = b.retained
  BY <1>3, <1>4, <1>9, Zenon DEF Hit, TakeHit
<1> QED BY <1>5, <1>6, <1>7, <1>8, <1>9, Zenon DEF BudgetNext

\* Once a budget is exhausted its reason stands and nothing more is granted,
\* whichever layer asks next and however the clock runs.
THEOREM FirstReasonAlwaysStands == BudgetSpec => FirstReasonStands
<1> DEFINE A == Spent(b) => b'.reason = b.reason /\ ~Granted(b, b') /\ b'.retained = b.retained
<1>1. BudgetIInv /\ [BudgetNext]_budgetVars => [A]_budgetVars
  BY SpentStays
<1>2. BudgetSpec => [][A]_budgetVars
  <2> HIDE DEF A
  <2> QED BY <1>1, IInvHolds, PTL DEF BudgetSpec
<1> QED BY <1>2 DEF FirstReasonStands
==============================================================================
