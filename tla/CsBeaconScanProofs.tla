-------------------------- MODULE CsBeaconScanProofs --------------------------
(***************************************************************************)
(* For every dump, every limit, any markers and any clock: the loop of     *)
(* CsBeaconScan names what it did not search, names nothing it did, and    *)
(* publishes a ledger that closes, a scale that covers the dump and a      *)
(* budget that really ran out.                                             *)
(***************************************************************************)
EXTENDS CsBeaconScan, SizesProofs, FiniteSetTheorems

(* What the scan's calls do to its tracker, for any tracker. *)

\* The types of a tracker's fields.
LEMMA TrackerFields ==
    ASSUME NEW t \in Tracker
    PROVE  /\ t.noted \in [Dispositions -> Nat] /\ Accounted(t) \in Nat
           /\ t.total \in Nat /\ t.missed \in Nat /\ t.stray \in Nat
           /\ t.bytes \in Nat /\ t.unsized \in Nat /\ t.open_item \in BOOLEAN
  BY DEF Tracker, Accounted, Dispositions

\* note_eligible of a segment, with no item open and a size that is always measured.
LEMMA SegmentTaken ==
    ASSUME NEW t \in Tracker, NEW size \in Nat, ~t.open_item
    PROVE  LET u == NoteEligible(t, size)
           IN /\ u \in Tracker /\ u.noted = t.noted /\ u.total = t.total + 1
              /\ u.open_item = TRUE /\ u.stray = t.stray /\ u.missed = t.missed
              /\ u.bytes = t.bytes + size /\ u.unsized = t.unsized
<1> DEFINE u == NoteEligible(t, size)
<1>1. u = [t EXCEPT !.missed = t.missed, !.total = t.total + 1, !.unsized = t.unsized,
                    !.bytes = t.bytes + size, !.open_item = TRUE]
  BY UnmeasuredAssumption DEF NoteEligible
<1>2. t.total + 1 \in Nat /\ t.bytes + size \in Nat
  BY TrackerFields
<1>3. u \in Tracker
  BY <1>1, <1>2 DEF Tracker
<1> QED BY <1>1, <1>3 DEF Tracker

\* A disposition closes the open segment, counts once and touches nothing else.
LEMMA SegmentSettled ==
    ASSUME NEW t \in Tracker, NEW d \in Dispositions
    PROVE  LET u == Note(t, d)
           IN  /\ u \in Tracker /\ u.total = t.total /\ u.missed = t.missed
               /\ u.open_item = FALSE /\ u.bytes = t.bytes /\ u.unsized = t.unsized
               /\ u.stray = (IF t.open_item THEN t.stray ELSE t.stray + 1)
               /\ Accounted(u) = Accounted(t) + 1
<1> DEFINE c == CloseItem(t)
           noted == [t.noted EXCEPT ![d] = t.noted[d] + 1]
<1>1. /\ c \in Tracker /\ c.noted = t.noted /\ c.total = t.total /\ c.missed = t.missed
      /\ c.open_item = FALSE /\ c.bytes = t.bytes /\ c.unsized = t.unsized
      /\ c.stray = (IF t.open_item THEN t.stray ELSE t.stray + 1)
  <2>1. CASE t.open_item
    BY <2>1 DEF CloseItem, Tracker
  <2>2. CASE ~t.open_item
    BY <2>2 DEF CloseItem, Tracker
  <2> QED BY <2>1, <2>2
<1>2. Note(t, d) = [c EXCEPT !.noted = noted]
  BY <1>1 DEF Note
<1>3. noted \in [Dispositions -> Nat]
  BY DEF Tracker
<1> HIDE DEF c, noted
<1>4. Note(t, d) \in Tracker /\ Note(t, d).noted = noted
  BY <1>1, <1>2, <1>3 DEF Tracker
<1>5. /\ Note(t, d).total = c.total /\ Note(t, d).missed = c.missed
      /\ Note(t, d).open_item = c.open_item /\ Note(t, d).bytes = c.bytes
      /\ Note(t, d).unsized = c.unsized /\ Note(t, d).stray = c.stray
  BY <1>1, <1>2 DEF Tracker
<1>6. Accounted(Note(t, d)) = Accounted(t) + 1
  <2>1. t.noted \in [Dispositions -> Nat]
    BY DEF Tracker
  <2> QED BY <1>4, <2>1 DEF Accounted, Dispositions, noted
<1> QED BY <1>1, <1>4, <1>5, <1>6

Walking == pc \in {"walk", "found", "decode", "decoded", "after"}
Ended   == pc \in {"stopped", "done"}

\* The data under the walk, and the history, are what they are declared to be.
DataType ==
    /\ buf \in [len: Nat, marks: SUBSET (Keys \X Nat)]
    /\ searched \in [1..Len(segs) -> [Keys -> Nat]]

\* Where the loop is; only a stop ends it before the last segment.
Phase ==
    /\ pc = "read" \/ Walking => i <= Len(segs)
    /\ stop.kind = "none" <=> stop = NoStop
    /\ stop # NoStop => Ended /\ stop.index \in {i, i + 1}
    /\ pc = "stopped" => stop # NoStop
    /\ pc = "done" /\ stop = NoStop => i = Len(segs) + 1

\* Each segment taken into scope has one outcome, the current one perhaps not yet.
Ledger ==
    /\ tracker.missed = 0 /\ tracker.stray = 0 /\ tracker.unsized = 0
    /\ tracker.open_item <=> pc = "read"
    /\ Accounted(tracker) + (IF pc = "read" THEN 1 ELSE 0) = tracker.total

\* Its bytes are those of the segments begun.
Scope ==
    /\ pc = "top" => tracker.bytes = Total(segs, i - 1)
    /\ pc = "read" \/ Walking => tracker.bytes = Total(segs, i)
    /\ pc = "stopped" => tracker.bytes = Total(segs, IF stop.started THEN stop.index ELSE stop.index - 1)
    /\ pc = "done" => tracker.bytes >= Total(segs, Len(segs))

\* No budget is exhausted while the loop goes on.
Budgets ==
    /\ used.scanned <= config.max_total_scanned_bytes
    /\ pc = "read" => used.scanned + segs[i] <= config.max_total_scanned_bytes
    /\ used.candidates <= config.max_candidates + 1
    /\ pc \notin {"found", "stopped", "done"} => used.candidates <= config.max_candidates
    /\ stop.kind # "max_hits" => used.hits < config.max_hits

\* How far each key's pass has come on the segment under the walk.
Passes ==
    Walking =>
      /\ buf.len \in 1..segs[i] /\ buf.marks \subseteq Keys \X (0..(buf.len - 1))
      /\ buf.len < segs[i] => \E g \in gaps : g.seg = i /\ g.examined = buf.len
      /\ \A k \in Keys : k < walk.key => searched[i][k] = buf.len
      /\ \A k \in Keys : k > walk.key => searched[i][k] = 0
      /\ pc = "walk" => walk.start <= buf.len /\ searched[i][walk.key] = walk.start
      /\ pc \in {"found", "decode", "decoded"} => walk.idx < buf.len
      /\ pc \in {"found", "decode"} => searched[i][walk.key] = walk.idx
      /\ pc = "decoded" => searched[i][walk.key] = walk.idx + 1
      /\ pc = "after" => \A k \in Keys : searched[i][k] = buf.len

\* A segment the loop is through with: searched as far as its bytes came back.
Closed(q) == \E n \in 0..segs[q] :
                /\ \A k \in Keys : searched[q][k] = n
                /\ n < segs[q] => \E g \in gaps : g.seg = q /\ g.examined = n

Reach == IF stop = NoStop THEN i ELSE stop.index

Behind == \A q \in 1..(Reach - 1) : q <= Len(segs) => Closed(q)

\* What has not been reached has not been searched, except up to the stop's cursor.
Unreached ==
    \A q \in 1..Len(segs) :
      /\ q > i \/ (q = i /\ pc \in {"top", "read"}) => \A k \in Keys : searched[q][k] = 0
      /\ stop # NoStop /\ q >= stop.index /\ ~(q = stop.index /\ stop.started)
           => \A k \in Keys : searched[q][k] = 0
Cursor ==
    stop # NoStop /\ stop.started =>
      /\ stop.index <= Len(segs)
      /\ stop.offset # Unmeasured => /\ \A k \in Keys : stop.offset <= searched[stop.index][k]
                                     /\ searched[stop.index][LastKey] = stop.offset
                                     /\ stop.offset <= segs[stop.index]

\* A measured gap begins where some key's search ended.
GapsSoFar ==
    \A g \in gaps :
      /\ ~Done => g.examined # Unmeasured
      /\ ~Done => g.seg <= i /\ (g.seg = i => pc \notin {"top", "read"})
      /\ Walking /\ g.seg = i => g.examined = buf.len
      /\ g.examined # Unmeasured => \E k \in Keys : searched[g.seg][k] <= g.examined
      /\ ~Done => \A k \in Keys : searched[g.seg][k] <= g.examined

IInv == /\ Typed /\ DataType /\ Phase /\ Ledger /\ Scope /\ Budgets /\ Passes /\ Behind /\ Unreached
        /\ Cursor /\ GapsSoFar /\ StopIsTrue /\ EveryByteNamed
------------------------------------------------------------------------------
GapRecord == [seg: 1..Len(segs), code: {"oversize", "read_failed", "short_read", "budget"},
              examined: Examined]

StopRecord == [kind: Kinds \union {"none"}, index: 0..(Len(segs) + 1), offset: Examined,
               started: BOOLEAN, consumed: Nat]

LEMMA Bounds ==
    ASSUME Typed
    PROVE  /\ config.max_seg_scan \in Nat /\ config.max_total_scanned_bytes \in Nat
           /\ config.max_candidates \in Nat /\ config.max_decoded_bytes \in Nat
           /\ config.max_hits \in Nat /\ config.max_hits >= 1 /\ config.scan_deadline_seconds \in Int
           /\ segs \in Seq(Nat) /\ Len(segs) \in Nat /\ i \in Nat /\ i >= 1 /\ i <= Len(segs) + 1
           /\ now \in Nat /\ MaxTime \in Nat /\ Unmeasured \notin Nat
           /\ used.candidates \in Nat /\ used.decoded \in Nat /\ used.scanned \in Nat /\ used.hits \in Nat
           /\ walk.key \in Keys /\ walk.start \in Nat /\ walk.idx \in Nat
           /\ stop.index \in Nat /\ stop.index <= Len(segs) + 1
           /\ \A q \in 1..Len(segs) : segs[q] \in Nat /\ segs[q] > 0
           /\ \A q \in 0..Len(segs) : Total(segs, q) \in Nat
<1>1. config \in Config /\ MaxTime \in Nat /\ Unmeasured \notin Nat
  BY CsAssumption, UnmeasuredAssumption DEF Typed
<1>2. segs \in Seq(Nat \ {0})
  BY DEF Typed
<1>3. segs \in Seq(Nat) /\ Len(segs) \in Nat /\ \A q \in 1..Len(segs) : segs[q] \in Nat /\ segs[q] > 0
  BY <1>2
<1>4. \A q \in 0..Len(segs) : Total(segs, q) \in Nat
  BY <1>3, TotalDefined
<1>5. /\ config.max_seg_scan \in Nat /\ config.max_total_scanned_bytes \in Nat
      /\ config.max_candidates \in Nat /\ config.max_decoded_bytes \in Nat
      /\ config.max_hits \in Nat /\ config.max_hits >= 1 /\ config.scan_deadline_seconds \in Int
  BY <1>1 DEF Config
<1>6. /\ i \in Nat /\ i >= 1 /\ i <= Len(segs) + 1 /\ now \in Nat
      /\ used.candidates \in Nat /\ used.decoded \in Nat /\ used.scanned \in Nat /\ used.hits \in Nat
      /\ walk.key \in Keys /\ walk.start \in Nat /\ walk.idx \in Nat
  BY <1>3, <1>1 DEF Typed
<1>7. stop.index \in 0..(Len(segs) + 1)
  BY DEF Typed
<1> QED BY <1>1, <1>3, <1>4, <1>5, <1>6, <1>7

\* A segment's bytes join the total when it is begun.
LEMMA TotalStep ==
    ASSUME Typed, i <= Len(segs)
    PROVE  Total(segs, i) = Total(segs, i - 1) + segs[i]
<1>1. i \in 1..Len(segs) /\ segs \in Seq(Nat)
  BY Bounds
<1> QED BY <1>1, TotalDefined

THEOREM InitHolds == Init => IInv
<1> SUFFICES ASSUME Init PROVE IInv
  OBVIOUS
<1>1. segs \in Seq(Nat \ {0})
  BY CsAssumption, WithExtentType DEF Init
<1>2. config \in Config /\ MaxTime \in Nat /\ Unmeasured \notin Nat
  BY CsAssumption, UnmeasuredAssumption DEF Init
<1>3. Len(segs) \in Nat /\ segs \in Seq(Nat) /\ Total(segs, 0) = 0
  <2>1. Len(segs) \in Nat /\ segs \in Seq(Nat)
    BY <1>1
  <2> QED BY <2>1, TotalDefined
<1>4. /\ NoStop \in StopRecord /\ NoStop.kind = "none" /\ NoStop.index = 0
  BY <1>3 DEF NoStop, StopRecord, Examined
<1>5. /\ NewTracker \in Tracker /\ Accounted(NewTracker) = 0 /\ NewTracker.total = 0
      /\ NewTracker.missed = 0 /\ NewTracker.stray = 0 /\ NewTracker.unsized = 0
      /\ NewTracker.bytes = 0 /\ NewTracker.open_item = FALSE
  BY DEF NewTracker, Tracker, Accounted, Dispositions
<1>6. /\ used = [candidates |-> 0, decoded |-> 0, scanned |-> 0, hits |-> 0]
      /\ used.candidates = 0 /\ used.decoded = 0 /\ used.scanned = 0 /\ used.hits = 0
      /\ used \in [candidates: Nat, decoded: Nat, scanned: Nat, hits: Nat]
  BY DEF Init
<1>7. /\ i = 1 /\ pc = "top" /\ stop = NoStop /\ tracker = NewTracker /\ gaps = {} /\ now = 0
      /\ searched = [q \in 1..Len(segs) |-> [k \in Keys |-> 0]] /\ config \in Configs
      /\ buf = NoData /\ walk = NoWalk
  BY DEF Init
<1>8. Typed
  <2>1. walk \in [key: Keys, start: Nat, idx: Nat]
    BY <1>7 DEF NoWalk, Keys
  <2>2. i \in 1..(Len(segs) + 1) /\ now \in 0..MaxTime
    BY <1>2, <1>3, <1>7
  <2> QED BY <1>1, <1>4, <1>5, <1>6, <1>7, <2>1, <2>2 DEF Typed, StopRecord
<1>9. DataType
  <2>1. buf \in [len: Nat, marks: SUBSET (Keys \X Nat)]
    BY <1>7 DEF NoData
  <2>2. searched \in [1..Len(segs) -> [Keys -> Nat]]
    BY <1>7
  <2> QED BY <2>1, <2>2 DEF DataType
<1>10. Phase /\ Ledger /\ Scope
  BY <1>3, <1>4, <1>5, <1>7 DEF Phase, Ledger, Scope, Walking, Ended
<1>11. Budgets
  BY <1>2, <1>4, <1>6, <1>7 DEF Budgets, Config
<1>12. Passes /\ Behind /\ Unreached /\ Cursor /\ GapsSoFar
  BY <1>3, <1>7 DEF Passes, Walking, Behind, Reach, Unreached, Cursor, GapsSoFar
<1>13. StopIsTrue
  BY <1>2, <1>4, <1>6, <1>7 DEF StopIsTrue, Config
<1> QED BY <1>7, <1>8, <1>9, <1>10, <1>11, <1>12, <1>13 DEF IInv, EveryByteNamed, Done

LEMMA TickKeeps == ASSUME IInv, Tick PROVE IInv'
<1>1. /\ now' = now + 1 /\ now < MaxTime
      /\ UNCHANGED <<config, segs, i, pc, tracker, gaps, used, stop, buf, walk, searched>>
  BY DEF Tick
<1>2. Typed'
  <2>1. now' \in 0..MaxTime
    BY <1>1, Bounds DEF IInv, Typed
  <2> QED BY <1>1, <2>1 DEF IInv, Typed
<1>3. DataType' /\ Phase' /\ Ledger' /\ Scope' /\ Budgets' /\ StopIsTrue'
  BY <1>1 DEF IInv, DataType, Phase, Ledger, Scope, Budgets, Walking, Ended, Accounted, StopIsTrue
<1>4. Passes' /\ Behind' /\ Unreached' /\ Cursor' /\ GapsSoFar'
  BY <1>1 DEF IInv, Passes, Walking, Behind, Reach, Closed, Unreached, Cursor, GapsSoFar, Done
<1>5. EveryByteNamed'
  BY <1>1 DEF IInv, EveryByteNamed, Done, Bytes, Searched, Named
<1> QED BY <1>2, <1>3, <1>4, <1>5 DEF IInv

\* What a stop records.
LEMMA StopEffect ==
    ASSUME Typed, NEW kind \in Kinds, NEW consumed \in Nat, NEW index \in 0..(Len(segs) + 1),
           NEW started \in BOOLEAN, NEW offset \in Examined,
           Stop(kind, consumed, index, started, offset)
    PROVE  /\ stop' \in StopRecord /\ stop' # NoStop /\ pc' = "stopped"
           /\ stop'.kind = kind /\ stop'.kind # "none" /\ stop'.consumed = consumed
           /\ stop'.index = index /\ stop'.started = started /\ stop'.offset = offset
<1>1. stop' = [kind |-> kind, index |-> index, offset |-> offset,
               started |-> started, consumed |-> consumed] /\ pc' = "stopped"
  BY DEF Stop
<1>2. kind # "none" /\ NoStop.kind = "none"
  BY DEF Kinds, NoStop
<1>3. stop' \in StopRecord
  BY <1>1 DEF StopRecord
<1> QED BY <1>1, <1>2, <1>3

\* A deadline that has passed is what a stop at it says was consumed.
LEMMA LateElapsed ==
    ASSUME Typed, Late
    PROVE  Elapsed \in Nat /\ Elapsed > config.scan_deadline_seconds
<1>1. now \in Nat /\ config.scan_deadline_seconds \in Int
  BY Bounds
<1> QED BY <1>1 DEF Late, Elapsed

\* At the top of the loop, or after a segment, a stop leaves a whole number of
\* segments behind.
LEMMA StopBetween ==
    ASSUME IInv, NEW kind \in {"scan_deadline_seconds", "max_total_scanned_bytes"},
           NEW consumed \in Nat, NEW index \in 1..(Len(segs) + 1),
           Stop(kind, consumed, index, FALSE, Unmeasured),
           \/ pc = "top" /\ index = i /\ i <= Len(segs)
           \/ pc = "after" /\ index = i + 1,
           kind = "scan_deadline_seconds" => consumed > config.scan_deadline_seconds,
           kind = "max_total_scanned_bytes" =>
             used.scanned + segs[index] > config.max_total_scanned_bytes,
           UNCHANGED <<config, segs, i, tracker, gaps, used, buf, walk, now, searched>>
    PROVE  IInv'
<1>1. /\ stop' \in StopRecord /\ stop' # NoStop /\ pc' = "stopped"
      /\ stop'.kind = kind /\ stop'.kind # "none" /\ stop'.consumed = consumed
      /\ stop'.index = index /\ ~stop'.started /\ stop'.offset = Unmeasured
  <2>1. PICK started \in BOOLEAN : started = FALSE /\ ~started
    OBVIOUS
  <2>2. kind \in Kinds /\ Unmeasured \in Examined /\ index \in 0..(Len(segs) + 1) /\ Typed
    BY DEF Kinds, Examined, IInv
  <2>3. Stop(kind, consumed, index, started, Unmeasured)
    BY <2>1
  <2>4. /\ stop' \in StopRecord /\ stop' # NoStop /\ pc' = "stopped"
        /\ stop'.kind = kind /\ stop'.kind # "none" /\ stop'.consumed = consumed
        /\ stop'.index = index /\ stop'.started = started /\ stop'.offset = Unmeasured
    BY <2>2, <2>3, StopEffect
  <2> QED BY <2>1, <2>4
<1>2. stop = NoStop /\ stop.kind = "none" /\ i \in Nat /\ Len(segs) \in Nat /\ i >= 1
  BY Bounds DEF IInv, Phase, Ended
<1>3. Typed'
  BY <1>1 DEF IInv, Typed, StopRecord
<1>4. DataType' /\ Ledger'
  BY <1>1 DEF IInv, DataType, Ledger, Accounted
<1>5. Phase'
  BY <1>1, <1>2 DEF IInv, Phase, Walking, Ended
<1>6. Scope'
  BY <1>1, <1>2 DEF IInv, Scope, Walking
<1>7. Budgets'
  <2>1. /\ used.scanned <= config.max_total_scanned_bytes
        /\ used.candidates <= config.max_candidates + 1
        /\ used.hits < config.max_hits
    BY <1>2 DEF IInv, Budgets
  <2> QED BY <1>1, <2>1 DEF Budgets
<1>8. StopIsTrue'
  <2>1. /\ used.scanned <= config.max_total_scanned_bytes
        /\ used.candidates <= config.max_candidates + 1
        /\ used.hits < config.max_hits
    BY <1>2 DEF IInv, Budgets
  <2>2. used.hits <= config.max_hits /\ used.hits # config.max_hits
    <3>1. used.hits \in Nat /\ config.max_hits \in Nat
      BY Bounds DEF IInv
    <3> QED BY <2>1, <3>1
  <2> QED BY <1>1, <2>1, <2>2 DEF StopIsTrue
<1>9. Behind'
  <2> SUFFICES ASSUME NEW q \in 1..(index - 1), q <= Len(segs) PROVE Closed(q)
    BY <1>1 DEF Behind, Reach, Closed
  <2>1. CASE q \in 1..(i - 1)
    BY <1>2, <2>1 DEF IInv, Behind, Reach
  <2>2. CASE q \notin 1..(i - 1)
    <3>1. q = i /\ pc = "after"
      BY <1>2, <2>2
    <3>2. buf.len \in 0..segs[q] /\ (\A k \in Keys : searched[q][k] = buf.len)
          /\ (buf.len < segs[q] => \E g \in gaps : g.seg = q /\ g.examined = buf.len)
      BY <3>1 DEF IInv, Passes, Walking
    <3> QED BY <3>2 DEF Closed
  <2> QED BY <2>1, <2>2
<1>10. Passes' /\ Cursor'
  BY <1>1 DEF Passes, Walking, Cursor
<1>11. Unreached'
  <2> SUFFICES ASSUME NEW q \in 1..Len(segs), q > i \/ q >= index PROVE \A k \in Keys : searched[q][k] = 0
    BY <1>1 DEF Unreached
  <2>1. q > i \/ (q = i /\ pc = "top")
    BY <1>2
  <2> QED BY <2>1 DEF IInv, Unreached
<1>12. GapsSoFar' /\ EveryByteNamed'
  BY <1>1 DEF IInv, GapsSoFar, EveryByteNamed, Done, Phase, Ended, Walking
<1> QED BY <1>3, <1>4, <1>5, <1>6, <1>7, <1>8, <1>9, <1>10, <1>11, <1>12 DEF IInv

LEMMA TopKeeps == ASSUME IInv, Top PROVE IInv'
<1>1. /\ pc = "top" /\ i <= Len(segs)
      /\ UNCHANGED <<config, segs, i, gaps, used, buf, walk, now, searched>>
  BY DEF Top
<1>2. /\ Typed /\ i \in Nat /\ i >= 1 /\ Len(segs) \in Nat /\ i \in 1..(Len(segs) + 1) /\ i \in 1..Len(segs)
      /\ segs[i] \in Nat /\ Unmeasured \notin Nat /\ used.scanned \in Nat
      /\ config.max_total_scanned_bytes \in Nat
  <2>1. /\ Typed /\ i \in Nat /\ i >= 1 /\ Len(segs) \in Nat /\ Unmeasured \notin Nat
        /\ used.scanned \in Nat /\ config.max_total_scanned_bytes \in Nat
        /\ \A q \in 1..Len(segs) : segs[q] \in Nat
    BY Bounds DEF IInv
  <2> QED BY <1>1, <2>1
<1>3. CASE Late /\ UNCHANGED tracker /\ Stop("scan_deadline_seconds", Elapsed, i, FALSE, Unmeasured)
  BY <1>1, <1>2, <1>3, LateElapsed, StopBetween
<1>4. CASE /\ used.scanned + segs[i] > config.max_total_scanned_bytes /\ UNCHANGED tracker
           /\ Stop("max_total_scanned_bytes", used.scanned, i, FALSE, Unmeasured)
  BY <1>1, <1>2, <1>4, StopBetween
<1>5. CASE /\ ~(used.scanned + segs[i] > config.max_total_scanned_bytes)
           /\ tracker' = NoteEligible(tracker, segs[i]) /\ pc' = "read" /\ UNCHANGED stop
  <2>1. segs[i] # Unmeasured /\ tracker \in Tracker /\ ~tracker.open_item
    BY <1>1, <1>2 DEF IInv, Typed, Ledger
  <2>2. /\ tracker' \in Tracker /\ tracker'.noted = tracker.noted /\ tracker'.total = tracker.total + 1
        /\ tracker'.open_item = TRUE /\ tracker'.missed = tracker.missed /\ tracker'.stray = tracker.stray
        /\ tracker'.bytes = tracker.bytes + segs[i] /\ tracker'.unsized = tracker.unsized
    <3> DEFINE u == NoteEligible(tracker, segs[i])
    <3>1. /\ u \in Tracker /\ u.noted = tracker.noted /\ u.total = tracker.total + 1
          /\ u.open_item = TRUE /\ u.missed = tracker.missed /\ u.stray = tracker.stray
          /\ u.bytes = tracker.bytes + segs[i] /\ u.unsized = tracker.unsized
      BY <1>2, <2>1, SegmentTaken
    <3>2. tracker' = u
      BY <1>5
    <3> HIDE DEF u
    <3> QED BY <3>1, <3>2
  <2>4. Typed' /\ DataType'
    BY <1>1, <1>5, <2>2 DEF IInv, Typed, DataType
  <2>5. Phase'
    BY <1>1, <1>5 DEF IInv, Phase, Walking, Ended
  <2>6. Ledger'
    <3>1. Accounted(tracker') = Accounted(tracker) /\ Accounted(tracker) \in Nat
      BY <2>1, <2>2, TrackerFields DEF Accounted
    <3>2. Accounted(tracker) = tracker.total
      BY <1>1, <3>1 DEF IInv, Ledger
    <3> QED BY <1>5, <2>2, <3>1, <3>2 DEF IInv, Ledger
  <2>7. Scope'
    BY <1>1, <1>2, <1>5, <2>2, TotalStep DEF IInv, Scope, Walking
  <2>8. Budgets'
    BY <1>1, <1>2, <1>5 DEF IInv, Budgets
  <2>9. Passes' /\ Behind' /\ Unreached' /\ Cursor' /\ GapsSoFar'
    BY <1>1, <1>5 DEF IInv, Passes, Walking, Behind, Reach, Closed, Unreached, Cursor, GapsSoFar, Done
  <2>10. StopIsTrue' /\ EveryByteNamed'
    BY <1>1, <1>5 DEF IInv, StopIsTrue, EveryByteNamed, Done
  <2> QED BY <2>4, <2>5, <2>6, <2>7, <2>8, <2>9, <2>10 DEF IInv
<1> QED BY <1>3, <1>4, <1>5 DEF Top

\* While the loop runs, the segments behind it stay closed and the one it
\* leaves joins them.
LEMMA BehindGrows ==
    ASSUME IInv, stop = NoStop, stop' = NoStop, segs' = segs, gaps \subseteq gaps',
           i' \in {i, i + 1},
           i' = i + 1 => \A q \in 1..Len(segs) : q = i => Closed(q)',
           \A q \in 1..Len(segs) : q # i => searched'[q] = searched[q]
    PROVE  Behind'
<1>1. i \in Nat /\ i >= 1 /\ Len(segs) \in Nat
  BY Bounds DEF IInv
<1> SUFFICES ASSUME NEW q \in 1..(i' - 1), q <= Len(segs) PROVE Closed(q)'
  BY DEF Behind, Reach
<1>2. q \in 1..Len(segs)
  BY <1>1
<1>3. CASE q \in 1..(i - 1)
  <2>1. Closed(q)
    BY <1>3 DEF IInv, Behind, Reach
  <2>2. searched'[q] = searched[q]
    BY <1>1, <1>2, <1>3
  <2> QED BY <2>1, <2>2 DEF Closed
<1>4. CASE q \notin 1..(i - 1)
  <2>1. i' = i + 1
    BY <1>4
  <2>2. q = i
    BY <1>1, <1>4, <2>1
  <2> QED BY <1>2, <2>1, <2>2
<1> QED BY <1>3, <1>4

LEMMA TargetType ==
    ASSUME NEW q \in 1..Len(segs), NEW examined \in Nat \union {Unmeasured},
           NEW code \in {"oversize", "read_failed", "short_read", "budget"}
    PROVE  /\ Target(q, code, examined) \in GapRecord
           /\ Target(q, code, examined).seg = q
           /\ Target(q, code, examined).examined = examined
BY DEF Target, GapRecord, Examined

\* A segment taken into scope and not searched is named whole.
LEMMA SegmentUnread ==
    ASSUME IInv, pc = "read", NEW d \in {"skipped_oversize", "read_failed"},
           NEW code \in {"oversize", "read_failed"},
           tracker' = Note(tracker, d), gaps' = gaps \union {Target(i, code, 0)},
           i' = i + 1, pc' = "top",
           UNCHANGED <<config, segs, used, stop, buf, walk, now, searched>>
    PROVE  IInv'
<1>1. /\ Typed /\ i \in Nat /\ i >= 1 /\ Len(segs) \in Nat /\ i \in 1..Len(segs)
      /\ Unmeasured # 0 /\ stop = NoStop
      /\ \A q \in 1..Len(segs) : segs[q] \in Nat /\ segs[q] > 0
  <2>1. /\ Typed /\ i \in Nat /\ i >= 1 /\ Len(segs) \in Nat /\ Unmeasured \notin Nat
        /\ \A q \in 1..Len(segs) : segs[q] \in Nat /\ segs[q] > 0
    BY Bounds DEF IInv
  <2>2. i <= Len(segs) /\ stop = NoStop
    BY DEF IInv, Phase, Ended
  <2> QED BY <2>1, <2>2
<1>2. PICK new : /\ new = Target(i, code, 0) /\ new \in GapRecord
                 /\ new.seg = i /\ new.examined = 0
  BY <1>1, TargetType
<1>3. gaps' = gaps \union {new} /\ gaps' \subseteq GapRecord
  BY <1>1, <1>2 DEF Typed, GapRecord
<1>4. \A k \in Keys : searched[i][k] = 0
  BY <1>1 DEF IInv, Unreached
<1>5. /\ tracker' \in Tracker /\ Accounted(tracker') = Accounted(tracker) + 1
      /\ tracker'.total = tracker.total /\ tracker'.missed = tracker.missed
      /\ tracker'.open_item = FALSE /\ tracker'.stray = tracker.stray
      /\ tracker'.bytes = tracker.bytes /\ tracker'.unsized = tracker.unsized
  <2>1. tracker \in Tracker /\ tracker.open_item /\ d \in Dispositions
    BY <1>1 DEF IInv, Typed, Ledger, Dispositions
  <2>2. /\ tracker' \in Tracker /\ tracker'.total = tracker.total /\ tracker'.missed = tracker.missed
        /\ tracker'.open_item = FALSE
        /\ tracker'.bytes = tracker.bytes /\ tracker'.unsized = tracker.unsized
    BY <2>1, SegmentSettled
  <2>3. tracker'.stray = (IF tracker.open_item THEN tracker.stray ELSE tracker.stray + 1)
    BY <2>1, SegmentSettled
  <2>4. Accounted(tracker') = Accounted(tracker) + 1
    BY <2>1, SegmentSettled
  <2> QED BY <2>1, <2>2, <2>3, <2>4
<1>6. Typed' /\ DataType'
  <2>1. i' \in 1..(Len(segs) + 1)
    BY <1>1
  <2> QED BY <1>3, <1>5, <2>1 DEF IInv, Typed, DataType, GapRecord
<1>7. Phase' /\ Passes' /\ Cursor'
  BY <1>1 DEF IInv, Phase, Passes, Cursor, Walking, Ended
<1>8. Ledger'
  <2>1. Accounted(tracker) \in Nat
    BY <1>1, TrackerFields DEF Typed
  <2> QED BY <1>5, <2>1 DEF IInv, Ledger
<1>9. Scope'
  <2>1. i' - 1 = i
    BY <1>1
  <2> QED BY <1>5, <2>1 DEF IInv, Scope, Walking
<1>10. Budgets' /\ StopIsTrue' /\ EveryByteNamed'
  BY <1>1 DEF IInv, Budgets, StopIsTrue, EveryByteNamed, Done
<1>11. Behind'
  <2>1. \A q \in 1..Len(segs) : q = i => Closed(q)'
    <3>1. 0 \in 0..segs[i] /\ new \in gaps'
      BY <1>1, <1>3
    <3> QED BY <1>2, <1>4, <3>1 DEF Closed
  <2> QED BY <1>1, <1>3, <2>1, BehindGrows
<1>12. Unreached'
  <2> SUFFICES ASSUME NEW q \in 1..Len(segs), q > i' \/ q = i' PROVE \A k \in Keys : searched[q][k] = 0
    BY <1>1 DEF Unreached
  <2>1. q > i
    BY <1>1
  <2> QED BY <2>1 DEF IInv, Unreached
<1>13. GapsSoFar'
  <2> SUFFICES ASSUME NEW g \in gaps'
               PROVE  /\ g.examined # Unmeasured /\ g.seg <= i' /\ g.seg # i'
                      /\ \A k \in Keys : searched[g.seg][k] <= g.examined
    BY DEF GapsSoFar, Done, Keys
  <2>1. CASE g \in gaps
    <3>1. g.seg \in 1..Len(segs)
      BY <1>1, <2>1 DEF Typed
    <3> QED BY <1>1, <2>1, <3>1 DEF IInv, GapsSoFar, Done
  <2>2. CASE g = new
    BY <1>1, <1>2, <1>4, <2>2
  <2> QED BY <1>3, <2>1, <2>2
<1> QED BY <1>6, <1>7, <1>8, <1>9, <1>10, <1>11, <1>12, <1>13 DEF IInv

LEMMA UnreadKeep == ASSUME IInv, Oversize \/ ReadFails PROVE IInv'
<1>1. CASE Oversize
  BY <1>1, SegmentUnread DEF Oversize, NextSegment
<1>2. CASE ReadFails
  BY <1>2, SegmentUnread DEF ReadFails, NextSegment
<1> QED BY <1>1, <1>2

\* Read: the bytes that came back are walked, the rest is named.
LEMMA ReadKeeps == ASSUME IInv, Read PROVE IInv'
<1>1. /\ pc = "read" /\ pc' = "walk" /\ walk' = NoWalk
      /\ UNCHANGED <<config, segs, i, stop, now, searched>>
  BY DEF Read
<1>2. /\ Typed /\ i \in Nat /\ Len(segs) \in Nat /\ i \in 1..Len(segs) /\ Unmeasured \notin Nat
      /\ stop = NoStop /\ segs[i] \in Nat /\ used.scanned \in Nat
      /\ config.max_total_scanned_bytes \in Nat
  <2>1. /\ Typed /\ i \in Nat /\ i >= 1 /\ Len(segs) \in Nat /\ Unmeasured \notin Nat
        /\ used.scanned \in Nat /\ config.max_total_scanned_bytes \in Nat
        /\ \A q \in 1..Len(segs) : segs[q] \in Nat
    BY Bounds DEF IInv
  <2>2. i <= Len(segs) /\ stop = NoStop
    BY <1>1 DEF IInv, Phase, Ended
  <2> QED BY <2>1, <2>2
<1>3. PICK n \in 1..segs[i] : \E m \in SUBSET (Keys \X (0..(n - 1))) :
         /\ buf' = [len |-> n, marks |-> m]
         /\ used' = [used EXCEPT !.scanned = @ + n]
         /\ tracker' = Note(IF n < segs[i] THEN NoteShortRead(tracker) ELSE tracker, "scanned")
         /\ gaps' = IF n < segs[i] THEN gaps \union {Target(i, "short_read", n)} ELSE gaps
  BY DEF Read
<1>31. PICK m \in SUBSET (Keys \X (0..(n - 1))) : buf' = [len |-> n, marks |-> m]
  BY <1>3
<1>4. n \in Nat /\ n <= segs[i] /\ n >= 1 /\ m \subseteq Keys \X (0..(n - 1)) /\ m \subseteq Keys \X Nat
  BY <1>2, <1>31
<1>5. PICK new : /\ new = Target(i, "short_read", n) /\ new \in GapRecord
                 /\ new.seg = i /\ new.examined = n
  BY <1>2, <1>4, TargetType
<1>6. /\ gaps \subseteq gaps' /\ gaps' \subseteq gaps \union {new} /\ (n < segs[i] => new \in gaps')
  BY <1>3, <1>5
<1>7. \A k \in Keys : searched[i][k] = 0
  BY <1>1, <1>2 DEF IInv, Unreached
<1>8. /\ tracker' \in Tracker /\ Accounted(tracker') = Accounted(tracker) + 1
      /\ tracker'.total = tracker.total /\ tracker'.missed = tracker.missed
      /\ tracker'.open_item = FALSE /\ tracker'.stray = tracker.stray
      /\ tracker'.bytes = tracker.bytes /\ tracker'.unsized = tracker.unsized
  <2>1. tracker \in Tracker /\ tracker.open_item /\ "scanned" \in Dispositions
    BY <1>1, <1>2 DEF IInv, Typed, Ledger, Dispositions
  <2>2. PICK t : /\ t = IF n < segs[i] THEN NoteShortRead(tracker) ELSE tracker
                 /\ t \in Tracker /\ t.noted = tracker.noted /\ t.total = tracker.total
                 /\ t.missed = tracker.missed /\ t.stray = tracker.stray /\ t.open_item
                 /\ t.bytes = tracker.bytes /\ t.unsized = tracker.unsized
    <3>1. CASE n < segs[i]
      <4>1. PICK t : t = NoteShortRead(tracker)
        OBVIOUS
      <4>2. t \in Tracker
        BY <2>1, <4>1 DEF NoteShortRead, Tracker
      <4>3. /\ t.noted = tracker.noted /\ t.total = tracker.total
            /\ t.missed = tracker.missed /\ t.stray = tracker.stray /\ t.open_item = tracker.open_item
            /\ t.bytes = tracker.bytes /\ t.unsized = tracker.unsized
        BY <2>1, <4>1 DEF NoteShortRead, Tracker
      <4> QED BY <2>1, <3>1, <4>1, <4>2, <4>3
    <3>2. CASE ~(n < segs[i])
      BY <2>1, <3>2
    <3> QED BY <3>1, <3>2
  <2>3. tracker' = Note(t, "scanned")
    BY <1>3, <2>2
  <2>4. /\ tracker' \in Tracker /\ tracker'.total = t.total /\ tracker'.missed = t.missed
        /\ tracker'.open_item = FALSE
        /\ tracker'.bytes = t.bytes /\ tracker'.unsized = t.unsized
    BY <2>1, <2>2, <2>3, SegmentSettled
  <2>5. tracker'.stray = (IF t.open_item THEN t.stray ELSE t.stray + 1)
    BY <2>1, <2>2, <2>3, SegmentSettled
  <2>6. Accounted(tracker') = Accounted(t) + 1
    BY <2>1, <2>2, <2>3, SegmentSettled
  <2>7. Accounted(t) = Accounted(tracker)
    BY <2>2 DEF Accounted
  <2> QED BY <2>2, <2>4, <2>5, <2>6, <2>7
<1>9. Typed' /\ DataType'
  <2>1. used' \in [candidates: Nat, decoded: Nat, scanned: Nat, hits: Nat]
    <3>1. used \in [candidates: Nat, decoded: Nat, scanned: Nat, hits: Nat]
      BY <1>2 DEF Typed
    <3>2. used' = [used EXCEPT !.scanned = used.scanned + n] /\ used.scanned + n \in Nat
      BY <1>2, <1>3, <1>4
    <3> QED BY <3>1, <3>2
  <2>4. walk' \in [key: Keys, start: Nat, idx: Nat]
    BY <1>1 DEF NoWalk, Keys
  <2>2. gaps' \subseteq GapRecord
    BY <1>2, <1>5, <1>6 DEF Typed, GapRecord
  <2>3. buf' \in [len: Nat, marks: SUBSET (Keys \X Nat)]
    BY <1>31, <1>4
  <2> QED BY <1>1, <1>8, <2>1, <2>2, <2>3, <2>4 DEF IInv, Typed, DataType, GapRecord
<1>10. Phase' /\ Cursor' /\ Unreached'
  BY <1>1, <1>2 DEF IInv, Phase, Cursor, Unreached, Walking, Ended
<1>11. Ledger' /\ Scope'
  <2>1. Accounted(tracker) \in Nat
    BY <1>2, TrackerFields DEF Typed
  <2> QED BY <1>1, <1>8, <2>1 DEF IInv, Ledger, Scope, Walking
<1>12. /\ used'.scanned = used.scanned + n /\ used'.candidates = used.candidates
       /\ used'.hits = used.hits
  BY <1>2, <1>3 DEF Typed
<1>13. Budgets'
  <2>1. used'.scanned <= config.max_total_scanned_bytes
    BY <1>1, <1>2, <1>4, <1>12 DEF IInv, Budgets
  <2> QED BY <1>1, <1>12, <2>1 DEF IInv, Budgets
<1>14. StopIsTrue' /\ EveryByteNamed'
  <2>1. stop.kind = "none" /\ used'.scanned <= config.max_total_scanned_bytes
    BY <1>1, <1>2, <1>13 DEF IInv, Phase, Budgets
  <2> QED BY <1>1, <1>12, <2>1 DEF IInv, StopIsTrue, EveryByteNamed, Done
<1>15. Passes'
  <2>1. NoWalk.key = 1 /\ NoWalk.start = 0 /\ 1 \in Keys /\ (\A k \in Keys : ~(k < 1))
    BY DEF NoWalk, Keys
  <2>2. buf'.len = n /\ buf'.marks = m
    BY <1>31
  <2>3. n < segs[i] => \E g \in gaps' : g.seg = i /\ g.examined = n
    BY <1>5, <1>6
  <2> QED BY <1>1, <1>4, <1>7, <2>1, <2>2, <2>3 DEF Passes
<1>16. Behind'
  <2>1. i' # i + 1
    BY <1>1, <1>2
  <2> QED BY <1>1, <1>2, <1>6, <2>1, BehindGrows
<1>17. GapsSoFar'
  <2> SUFFICES ASSUME NEW g \in gaps'
               PROVE  /\ g.examined # Unmeasured /\ g.seg <= i
                      /\ g.seg = i => g.examined = buf'.len
                      /\ \A k \in Keys : searched[g.seg][k] <= g.examined
    BY <1>1 DEF GapsSoFar, Done, Keys
  <2>1. CASE g \in gaps
    BY <1>1, <2>1 DEF IInv, GapsSoFar, Done
  <2>2. CASE g = new
    BY <1>2, <1>31, <1>4, <1>5, <1>7, <2>2
  <2> QED BY <1>6, <2>1, <2>2
<1> QED BY <1>9, <1>10, <1>11, <1>13, <1>14, <1>15, <1>16, <1>17 DEF IInv

\* What holds wherever a segment's data is walked.
LEMMA Inside ==
    ASSUME IInv, Walking
    PROVE  /\ Typed /\ i \in Nat /\ i \in 1..Len(segs) /\ Len(segs) \in Nat /\ segs[i] \in Nat
           /\ stop = NoStop /\ stop.kind = "none" /\ ~Done
           /\ buf.len \in Nat /\ buf.len \in 1..segs[i] /\ buf.marks \subseteq Keys \X (0..(buf.len - 1))
           /\ walk.key \in Keys /\ walk.idx \in Nat /\ walk.start \in Nat
           /\ Unmeasured \notin Nat
<1>1. /\ Typed /\ i \in Nat /\ i >= 1 /\ Len(segs) \in Nat
      /\ walk.key \in Keys /\ walk.idx \in Nat /\ walk.start \in Nat /\ Unmeasured \notin Nat
      /\ \A q \in 1..Len(segs) : segs[q] \in Nat
  BY Bounds DEF IInv
<1>2. i <= Len(segs) /\ stop = NoStop /\ stop.kind = "none" /\ ~Done
  BY DEF IInv, Phase, Walking, Ended, Done
<1>3. buf.len \in Nat /\ buf.len \in 1..segs[i] /\ buf.marks \subseteq Keys \X (0..(buf.len - 1))
  BY DEF IInv, Passes, DataType
<1> QED BY <1>1, <1>2, <1>3

\* The search never leaves the data.
LEMMA SearchInside ==
    ASSUME IInv, Walking
    PROVE  /\ searched \in [1..Len(segs) -> [Keys -> Nat]]
           /\ \A k \in Keys : searched[i][k] <= buf.len
<1>1. walk.key \in Keys /\ buf.len \in Nat /\ walk.idx \in Nat
  BY Inside
<1> SUFFICES ASSUME NEW k \in Keys PROVE searched[i][k] <= buf.len
  BY DEF IInv, DataType
<1>2. k < walk.key \/ k > walk.key \/ k = walk.key
  BY <1>1 DEF Keys
<1>3. CASE k < walk.key
  BY <1>1, <1>3 DEF IInv, Passes
<1>4. CASE k > walk.key
  BY <1>1, <1>4 DEF IInv, Passes
<1>5. CASE k = walk.key
  <2>1. CASE pc = "walk"
    BY <1>5, <2>1 DEF IInv, Passes
  <2>2. CASE pc \in {"found", "decode"}
    <3>1. walk.idx < buf.len /\ searched[i][walk.key] = walk.idx
      BY <2>2 DEF IInv, Passes
    <3> QED BY <1>1, <1>5, <3>1
  <2>3. CASE pc = "decoded"
    <3>1. walk.idx < buf.len /\ searched[i][walk.key] = walk.idx + 1
      BY <2>3 DEF IInv, Passes
    <3> QED BY <1>1, <1>5, <3>1
  <2>4. CASE pc = "after"
    BY <1>1, <2>4 DEF IInv, Passes
  <2> QED BY <2>1, <2>2, <2>3, <2>4 DEF Walking
<1> QED BY <1>2, <1>3, <1>4, <1>5

\* What one step of the walk may do to the history: the passes on this segment
\* advance inside its data, and the others are left alone.
Advances ==
    /\ searched' \in [1..Len(segs) -> [Keys -> Nat]]
    /\ \A q \in 1..Len(segs) : q # i => searched'[q] = searched[q]
    /\ \A k \in Keys : searched'[i][k] <= buf.len

LEMMA SearchAdvances ==
    ASSUME IInv, Walking, NEW n \in 0..buf.len,
           searched' = [searched EXCEPT ![i][walk.key] = n]
    PROVE  /\ Advances /\ searched'[i][walk.key] = n
           /\ \A k \in Keys : k # walk.key => searched'[i][k] = searched[i][k]
<1>1. /\ Typed /\ i \in 1..Len(segs) /\ walk.key \in Keys /\ buf.len \in Nat
      /\ searched \in [1..Len(segs) -> [Keys -> Nat]]
  <2>1. Typed /\ i \in Nat /\ i >= 1 /\ walk.key \in Keys /\ Len(segs) \in Nat
    BY Bounds DEF IInv
  <2>2. i <= Len(segs)
    BY DEF IInv, Phase
  <2> QED BY <2>1, <2>2 DEF IInv, DataType
<1>2. searched' = [searched EXCEPT ![i] = [searched[i] EXCEPT ![walk.key] = n]]
  OBVIOUS
<1>3. [searched[i] EXCEPT ![walk.key] = n] \in [Keys -> Nat]
  BY <1>1
<1>4. \A k \in Keys : searched[i][k] <= buf.len
  BY SearchInside
<1>5. searched' \in [1..Len(segs) -> [Keys -> Nat]]
  BY <1>1, <1>2, <1>3
<1>6. /\ \A q \in 1..Len(segs) : q # i => searched'[q] = searched[q]
      /\ searched'[i] = [searched[i] EXCEPT ![walk.key] = n]
  BY <1>1, <1>2
<1>7. /\ searched'[i][walk.key] = n
      /\ \A k \in Keys : k # walk.key => searched'[i][k] = searched[i][k]
  BY <1>1, <1>6
<1>8. \A k \in Keys : searched'[i][k] <= buf.len
  BY <1>1, <1>4, <1>7
<1> QED BY <1>5, <1>6, <1>7, <1>8 DEF Advances

\* A step that searches nothing advances nothing.
LEMMA SearchRests ==
    ASSUME IInv, Walking, UNCHANGED searched PROVE Advances
  BY SearchInside DEF Advances

\* The gaps named so far stay ahead of the search.
LEMMA GapsAdvance ==
    ASSUME IInv, Walking, Advances
    PROVE  \A g \in gaps : /\ g.seg <= i /\ g.examined # Unmeasured
                           /\ g.seg = i => g.examined = buf.len
                           /\ \A k \in Keys : searched'[g.seg][k] <= g.examined
<1>1. i \in 1..Len(segs) /\ ~Done /\ Typed
  BY Inside
<1> SUFFICES ASSUME NEW g \in gaps
             PROVE  /\ g.seg <= i /\ g.examined # Unmeasured
                    /\ g.seg = i => g.examined = buf.len
                    /\ \A k \in Keys : searched'[g.seg][k] <= g.examined
  OBVIOUS
<1>2. /\ g.seg \in 1..Len(segs) /\ g.seg <= i /\ g.examined # Unmeasured
      /\ g.seg = i => g.examined = buf.len
      /\ \A k \in Keys : searched[g.seg][k] <= g.examined
  BY <1>1 DEF IInv, GapsSoFar, Typed
<1>3. CASE g.seg # i
  BY <1>2, <1>3 DEF Advances
<1>4. CASE g.seg = i
  BY <1>2, <1>4 DEF Advances
<1> QED BY <1>2, <1>3, <1>4

\* A step of the walk that does not stop it.
LEMMA InsideStep ==
    ASSUME IInv, Walking, Walking', Typed', Advances, Passes',
           UNCHANGED <<config, segs, i, tracker, gaps, stop, buf, now>>,
           used'.scanned = used.scanned,
           used'.candidates <= config.max_candidates + 1,
           pc' # "found" => used'.candidates <= config.max_candidates,
           used'.hits < config.max_hits
    PROVE  IInv'
<1>1. /\ Typed /\ i \in Nat /\ i \in 1..Len(segs) /\ Len(segs) \in Nat
      /\ stop = NoStop /\ stop.kind = "none" /\ ~Done /\ buf.len \in Nat /\ Unmeasured \notin Nat
  BY Inside
<1>2. pc \notin {"top", "read", "stopped", "done"} /\ pc' \notin {"top", "read", "stopped", "done"} /\ ~Done'
  BY DEF Walking, Done
<1>3. DataType'
  BY DEF IInv, DataType, Advances
<1>4. Phase'
  BY <1>1, <1>2 DEF IInv, Phase, Ended
<1>5. Ledger' /\ Scope'
  BY <1>2 DEF IInv, Ledger, Scope, Accounted
<1>6. Budgets'
  BY <1>2 DEF IInv, Budgets
<1>7. StopIsTrue'
  <2>1. used.scanned <= config.max_total_scanned_bytes
    BY DEF IInv, Budgets
  <2>2. used'.hits <= config.max_hits /\ used'.hits # config.max_hits
    <3>1. used'.hits \in Nat /\ config.max_hits \in Nat
      BY <1>1, Bounds DEF Typed
    <3> QED BY <3>1
  <2> QED BY <1>1, <2>1, <2>2 DEF StopIsTrue
<1>8. Behind'
  <2>1. i' # i + 1 /\ \A q \in 1..Len(segs) : q # i => searched'[q] = searched[q]
    BY <1>1 DEF Advances
  <2> QED BY <1>1, <2>1, BehindGrows
<1>9. Unreached'
  <2> SUFFICES ASSUME NEW q \in 1..Len(segs), q > i PROVE \A k \in Keys : searched'[q][k] = 0
    BY <1>1, <1>2 DEF Unreached
  <2>1. searched'[q] = searched[q]
    BY <1>1 DEF Advances
  <2> QED BY <2>1 DEF IInv, Unreached
<1>10. Cursor' /\ EveryByteNamed'
  BY <1>1, <1>2 DEF Cursor, EveryByteNamed
<1>11. GapsSoFar'
  BY <1>1, <1>2, GapsAdvance DEF IInv, GapsSoFar, Keys
<1> QED BY <1>3, <1>4, <1>5, <1>6, <1>7, <1>8, <1>9, <1>10, <1>11 DEF IInv

\* A stop inside a segment: its cursor, when there is one, is where the last
\* key's search ended and no other key's search ended before it.
LEMMA InsideStop ==
    ASSUME IInv, Walking, Typed', Advances, NEW kind \in Kinds \ {"max_total_scanned_bytes"},
           NEW consumed \in Nat, NEW offset \in Examined,
           Stop(kind, consumed, i, TRUE, offset),
           offset # Unmeasured => /\ \A k \in Keys : offset <= searched'[i][k]
                                  /\ searched'[i][LastKey] = offset
                                  /\ offset <= segs[i],
           UNCHANGED <<config, segs, i, tracker, gaps, buf, now>>,
           used'.scanned = used.scanned,
           used'.candidates <= config.max_candidates + 1,
           used'.hits <= config.max_hits, kind = "max_hits" <=> used'.hits = config.max_hits,
           kind = "scan_deadline_seconds" => consumed > config.scan_deadline_seconds,
           kind = "max_candidates" => consumed = config.max_candidates + 1,
           kind = "max_decoded_bytes" => consumed > config.max_decoded_bytes
    PROVE  IInv'
<1>1. /\ Typed /\ i \in Nat /\ i \in 1..Len(segs) /\ Len(segs) \in Nat
      /\ stop = NoStop /\ stop.kind = "none" /\ ~Done /\ buf.len \in Nat /\ Unmeasured \notin Nat
  BY Inside
<1>2. /\ stop' \in StopRecord /\ stop' # NoStop /\ pc' = "stopped"
      /\ stop'.kind = kind /\ stop'.kind # "none" /\ stop'.consumed = consumed
      /\ stop'.index = i /\ stop'.started /\ stop'.offset = offset
  <2>1. PICK started \in BOOLEAN : started = TRUE /\ started
    OBVIOUS
  <2>2. kind \in Kinds /\ i \in 0..(Len(segs) + 1) /\ Typed
    BY <1>1
  <2>3. Stop(kind, consumed, i, started, offset)
    BY <2>1
  <2>4. /\ stop' \in StopRecord /\ stop' # NoStop /\ pc' = "stopped"
        /\ stop'.kind = kind /\ stop'.kind # "none" /\ stop'.consumed = consumed
        /\ stop'.index = i /\ stop'.started = started /\ stop'.offset = offset
    BY <2>2, <2>3, StopEffect
  <2> QED BY <2>1, <2>4
<1>3. DataType'
  BY DEF IInv, DataType, Advances
<1>4. Phase'
  BY <1>1, <1>2 DEF Phase, Ended, Walking
<1>5. Ledger'
  BY <1>2 DEF IInv, Ledger, Accounted, Walking
<1>6. Scope'
  BY <1>2 DEF IInv, Scope, Walking
<1>7. used'.scanned <= config.max_total_scanned_bytes
  BY DEF IInv, Budgets
<1>8. Budgets'
  <2>1. kind # "max_hits" => used'.hits < config.max_hits
    <3>1. used'.hits \in Nat /\ config.max_hits \in Nat
      BY <1>1, Bounds DEF Typed
    <3> QED BY <3>1
  <2> QED BY <1>2, <1>7, <2>1 DEF Budgets
<1>9. StopIsTrue'
  BY <1>2, <1>7 DEF StopIsTrue
<1>10. Behind'
  <2> SUFFICES ASSUME NEW q \in 1..(i - 1), q <= Len(segs) PROVE Closed(q)'
    BY <1>2 DEF Behind, Reach
  <2>1. Closed(q)
    BY <1>1 DEF IInv, Behind, Reach
  <2>2. searched'[q] = searched[q]
    BY <1>1 DEF Advances
  <2> QED BY <2>1, <2>2 DEF Closed
<1>11. Unreached'
  <2> SUFFICES ASSUME NEW q \in 1..Len(segs), q > i PROVE \A k \in Keys : searched'[q][k] = 0
    BY <1>1, <1>2 DEF Unreached
  <2>1. searched'[q] = searched[q]
    BY <1>1 DEF Advances
  <2> QED BY <2>1 DEF IInv, Unreached
<1>12. Passes' /\ Cursor'
  BY <1>1, <1>2 DEF Passes, Walking, Cursor
<1>13. GapsSoFar' /\ EveryByteNamed'
  BY <1>1, <1>2, GapsAdvance DEF GapsSoFar, EveryByteNamed, Done, Walking, Keys
<1> QED BY <1>3, <1>4, <1>5, <1>6, <1>8, <1>9, <1>10, <1>11, <1>12, <1>13 DEF IInv

\* The cursor of a stop: every key's search has come that far, the last one's no
\* further.
LEMMA CursorIsReached ==
    ASSUME IInv, NEW judged \in BOOLEAN, Advances,
           pc \in {"found", "decode", "decoded"},
           judged => searched'[i][walk.key] = walk.idx + 1,
           ~judged => searched'[i][walk.key] = walk.idx,
           \A k \in Keys : k # walk.key => searched'[i][k] = searched[i][k]
    PROVE  LET offset == StopCursor(judged)
           IN  /\ offset \in Examined
               /\ offset # Unmeasured => /\ \A k \in Keys : offset <= searched'[i][k]
                                         /\ searched'[i][LastKey] = offset
                                         /\ offset <= segs[i]
<1>1. /\ walk.key \in Keys /\ walk.idx \in Nat /\ walk.idx < buf.len /\ buf.len \in Nat /\ Walking
      /\ segs[i] \in Nat /\ buf.len <= segs[i]
  <2>1. Walking
    BY DEF Walking
  <2>2. i \in 1..Len(segs)
    BY <2>1, Inside
  <2>3. segs[i] \in Nat
    BY <2>2, Bounds DEF IInv
  <2> QED BY <2>1, <2>3, Inside DEF IInv, Passes
<1>2. CASE walk.key # LastKey
  BY <1>2 DEF StopCursor, Examined
<1>3. CASE walk.key = LastKey
  <2>1. \A k \in Keys : k # LastKey => searched'[i][k] = buf.len
    <3>1. \A k \in Keys : k # LastKey => k < walk.key
      BY <1>3 DEF Keys, LastKey
    <3> QED BY <1>1, <1>3, <3>1 DEF IInv, Passes
  <2>2. judged => StopCursor(judged) = walk.idx + 1
    BY <1>1, <1>3 DEF StopCursor
  <2>3. ~judged => StopCursor(judged) = walk.idx
    BY <1>3 DEF StopCursor
  <2>4. searched'[i][LastKey] = StopCursor(judged) /\ StopCursor(judged) \in Nat
        /\ StopCursor(judged) <= buf.len /\ StopCursor(judged) <= segs[i]
    BY <1>1, <1>3, <2>2, <2>3
  <2> QED BY <1>1, <1>3, <2>1, <2>4 DEF Examined
<1> QED BY <1>2, <1>3

\* The budget found exhausted is one that is: which, and by how much.
LEMMA ExhaustedMeans ==
    ASSUME Typed, used.candidates <= config.max_candidates + 1, NEW e, e = Exhausted(used)
    PROVE  /\ e = <<>> => used.candidates <= config.max_candidates
           /\ e # <<>> =>
                /\ e[1] \in {"max_candidates", "max_decoded_bytes", "scan_deadline_seconds"}
                /\ e[2] \in Nat
                /\ e[1] = "max_candidates" => e[2] = config.max_candidates + 1
                /\ e[1] = "max_decoded_bytes" => e[2] > config.max_decoded_bytes
                /\ e[1] = "scan_deadline_seconds" => e[2] > config.scan_deadline_seconds
<1>1. /\ used.candidates \in Nat /\ used.decoded \in Nat
      /\ config.max_candidates \in Nat /\ config.max_decoded_bytes \in Nat
  BY Bounds
<1>2. CASE used.candidates > config.max_candidates
  <2>1. e = <<"max_candidates", used.candidates>>
    <3>1. ~(used.candidates <= config.max_candidates)
      BY <1>1, <1>2
    <3> QED BY <1>2, <3>1 DEF Exhausted
  <2>2. used.candidates = config.max_candidates + 1 /\ ~(used.candidates <= config.max_candidates)
    BY <1>1, <1>2
  <2> QED BY <1>1, <2>1, <2>2
<1>3. CASE used.candidates <= config.max_candidates /\ used.decoded > config.max_decoded_bytes
  <2>1. ~(used.candidates > config.max_candidates)
    BY <1>1, <1>3
  <2>2. e = <<"max_decoded_bytes", used.decoded>>
    BY <1>3, <2>1 DEF Exhausted
  <2> QED BY <1>1, <1>3, <2>2
<1>4. CASE used.candidates <= config.max_candidates /\ ~(used.decoded > config.max_decoded_bytes)
  <2>1. ~(used.candidates > config.max_candidates)
    BY <1>1, <1>4
  <2>2. e = IF Late THEN <<"scan_deadline_seconds", Elapsed>> ELSE <<>>
    BY <1>4, <2>1 DEF Exhausted
  <2>3. CASE Late
    <3>1. Elapsed \in Nat /\ Elapsed > config.scan_deadline_seconds
      BY <2>3, LateElapsed
    <3>2. e = <<"scan_deadline_seconds", Elapsed>>
      BY <2>2, <2>3
    <3> QED BY <1>4, <3>1, <3>2
  <2>4. CASE ~Late
    BY <1>4, <2>2, <2>4
  <2> QED BY <2>3, <2>4
<1>5. used.candidates > config.max_candidates \/ used.candidates <= config.max_candidates
  BY <1>1
<1> QED BY <1>2, <1>3, <1>4, <1>5

\* The budgets checked around a candidate stop the scan truly, or let it go on.
LEMMA CheckStops ==
    ASSUME IInv, NEW judged \in BOOLEAN,
           (pc = "found" /\ ~judged) \/ (pc = "decoded" /\ judged),
           NEW e, e = Exhausted(used), e # <<>>, Stop(e[1], e[2], i, TRUE, StopCursor(judged)),
           UNCHANGED <<config, segs, i, tracker, gaps, used, buf, walk, now, searched>>
    PROVE  IInv'
<1>1. Walking /\ Typed /\ stop.kind = "none"
  <2>1. Walking
    BY DEF Walking
  <2> QED BY <2>1, Inside
<1>2. /\ used.candidates <= config.max_candidates + 1 /\ used.hits < config.max_hits
  BY <1>1 DEF IInv, Budgets
<1>3. /\ e[1] \in {"max_candidates", "max_decoded_bytes", "scan_deadline_seconds"}
      /\ e[2] \in Nat
      /\ e[1] = "max_candidates" => e[2] = config.max_candidates + 1
      /\ e[1] = "max_decoded_bytes" => e[2] > config.max_decoded_bytes
      /\ e[1] = "scan_deadline_seconds" => e[2] > config.scan_deadline_seconds
  BY <1>1, <1>2, ExhaustedMeans
<1>4. Advances
  BY <1>1, SearchRests
<1>5. /\ judged => searched'[i][walk.key] = walk.idx + 1
      /\ ~judged => searched'[i][walk.key] = walk.idx
  BY <1>1 DEF IInv, Passes
<1>6. PICK offset : /\ offset = StopCursor(judged) /\ offset \in Examined
                    /\ offset # Unmeasured => /\ \A k \in Keys : offset <= searched'[i][k]
                                              /\ searched'[i][LastKey] = offset
                                              /\ offset <= segs[i]
  <2>1. pc \in {"found", "decode", "decoded"}
    OBVIOUS
  <2> QED BY <1>4, <1>5, <2>1, CursorIsReached
<1>7. Typed'
  <2>1. i \in 1..Len(segs) /\ Len(segs) \in Nat
    BY <1>1, Inside
  <2>2. e[1] \in Kinds /\ i \in 0..(Len(segs) + 1)
    BY <1>3, <2>1 DEF Kinds
  <2>3. PICK started \in BOOLEAN : started = TRUE
    OBVIOUS
  <2>4. Stop(e[1], e[2], i, started, offset)
    BY <1>6, <2>3
  <2>5. stop' \in StopRecord /\ pc' = "stopped"
    BY <1>1, <1>3, <1>6, <2>2, <2>4, StopEffect
  <2> QED BY <1>1, <2>5 DEF Typed, StopRecord
<1>8. e[1] \in Kinds \ {"max_total_scanned_bytes"} /\ e[1] # "max_hits"
  BY <1>3 DEF Kinds
<1>9. used.hits <= config.max_hits /\ used.hits # config.max_hits
  <2>1. used.hits \in Nat /\ config.max_hits \in Nat
    BY <1>1, Bounds
  <2> QED BY <1>2, <2>1
<1>10. Stop(e[1], e[2], i, TRUE, offset)
  BY <1>6
<1> QED BY <1>1, <1>2, <1>3, <1>4, <1>6, <1>7, <1>8, <1>9, <1>10, InsideStop

LEMMA BeforeDecodeKeeps == ASSUME IInv, BeforeDecode PROVE IInv'
<1>1. /\ pc = "found"
      /\ UNCHANGED <<config, segs, i, tracker, gaps, used, buf, walk, now, searched>>
  BY DEF BeforeDecode
<1>2. PICK e : /\ e = Exhausted(used)
               /\ e # <<>> => Stop(e[1], e[2], i, TRUE, StopCursor(FALSE))
               /\ e = <<>> => pc' = "decode" /\ UNCHANGED stop
  BY DEF BeforeDecode
<1>3. CASE e # <<>>
  <2>1. PICK judged \in BOOLEAN : judged = FALSE /\ ~judged
    OBVIOUS
  <2>2. Stop(e[1], e[2], i, TRUE, StopCursor(judged))
    BY <1>2, <1>3, <2>1
  <2>3. (pc = "found" /\ ~judged) \/ (pc = "decoded" /\ judged)
    BY <1>1, <2>1
  <2>4. e = Exhausted(used)
    BY <1>2
  <2> QED BY <1>1, <1>3, <2>2, <2>3, <2>4, CheckStops
<1>4. CASE e = <<>>
  <2>1. Walking /\ Walking' /\ pc' = "decode" /\ UNCHANGED stop
    BY <1>1, <1>2, <1>4 DEF Walking
  <2>2. Typed' /\ Passes'
    BY <1>1, <2>1 DEF IInv, Typed, Passes, Walking
  <2>3. used.candidates <= config.max_candidates
    BY <1>2, <1>4, ExhaustedMeans DEF IInv, Budgets
  <2>4. used.candidates <= config.max_candidates + 1 /\ used.hits < config.max_hits
    BY <2>1, Inside DEF IInv, Budgets
  <2>5. Advances
    BY <1>1, <2>1, SearchRests
  <2> QED BY <1>1, <2>1, <2>2, <2>3, <2>4, <2>5, InsideStep
<1> QED BY <1>3, <1>4

LEMMA AfterDecodeKeeps == ASSUME IInv, AfterDecode PROVE IInv'
<1>1. /\ pc = "decoded"
      /\ UNCHANGED <<config, segs, i, tracker, gaps, used, buf, now, searched>>
  BY DEF AfterDecode
<1>2. PICK e : /\ e = Exhausted(used)
               /\ e # <<>> => Stop(e[1], e[2], i, TRUE, StopCursor(TRUE)) /\ UNCHANGED walk
               /\ e = <<>> => /\ walk' = [walk EXCEPT !.start = walk.idx + 1]
                             /\ pc' = "walk" /\ UNCHANGED stop
  BY DEF AfterDecode
<1>3. CASE e # <<>>
  <2>1. PICK judged \in BOOLEAN : judged = TRUE /\ judged
    OBVIOUS
  <2>2. Stop(e[1], e[2], i, TRUE, StopCursor(judged)) /\ UNCHANGED walk
    BY <1>2, <1>3, <2>1
  <2> QED BY <1>1, <1>2, <1>3, <2>1, <2>2, CheckStops
<1>4. CASE e = <<>>
  <2>1. /\ Walking /\ Walking' /\ pc' = "walk" /\ UNCHANGED stop
        /\ walk' = [walk EXCEPT !.start = walk.idx + 1]
    BY <1>1, <1>2, <1>4 DEF Walking
  <2>2. walk \in [key: Keys, start: Nat, idx: Nat] /\ walk.idx \in Nat /\ buf.len \in Nat
    BY <2>1, Inside DEF IInv, Typed
  <2>3. /\ walk' \in [key: Keys, start: Nat, idx: Nat]
        /\ walk'.key = walk.key /\ walk'.start = walk.idx + 1
    BY <2>1, <2>2
  <2>4. Typed'
    BY <1>1, <2>1, <2>3 DEF IInv, Typed
  <2>5. Passes'
    BY <1>1, <2>1, <2>2, <2>3 DEF IInv, Passes, Walking
  <2>6. used.candidates <= config.max_candidates
    BY <1>1 DEF IInv, Budgets
  <2>7. used.candidates <= config.max_candidates + 1 /\ used.hits < config.max_hits
    BY <2>1, Inside DEF IInv, Budgets
  <2>8. Advances
    BY <1>1, <2>1, SearchRests
  <2> QED BY <1>1, <2>1, <2>4, <2>5, <2>6, <2>7, <2>8, InsideStep
<1> QED BY <1>3, <1>4

\* The next marker of the key under the walk, found by a search that starts
\* where the last one ended.
LEMMA FindKeeps == ASSUME IInv, Find PROVE IInv'
<1>1. /\ pc = "walk" /\ pc' = "found" /\ Ahead # {} /\ Walking /\ Walking'
      /\ walk' = [walk EXCEPT !.idx = Min(Ahead)]
      /\ searched' = [searched EXCEPT ![i][walk.key] = Min(Ahead)]
      /\ used' = [used EXCEPT !.candidates = @ + 1]
      /\ UNCHANGED <<config, segs, i, tracker, gaps, stop, buf, now>>
  BY DEF Find, Walking
<1>2. /\ Typed /\ buf.len \in Nat /\ walk.start \in Nat
      /\ walk \in [key: Keys, start: Nat, idx: Nat]
      /\ used \in [candidates: Nat, decoded: Nat, scanned: Nat, hits: Nat]
      /\ config.max_candidates \in Nat
  BY <1>1, Inside, Bounds DEF Typed
<1>3. Min(Ahead) \in Ahead
  <2>1. Ahead \subseteq Nat
    BY <1>2 DEF Ahead
  <2>2. \E x \in Ahead : \A y \in Ahead : x <= y
    BY <1>1, <2>1, LeastNatural
  <2> QED BY <2>2 DEF Min
<1>4. PICK x : x = Min(Ahead) /\ x \in Nat /\ x < buf.len /\ x \in 0..buf.len
  <2>1. Min(Ahead) \in walk.start..(buf.len - 1)
    BY <1>3 DEF Ahead
  <2> QED BY <1>2, <2>1
<1>5. /\ walk' \in [key: Keys, start: Nat, idx: Nat]
      /\ walk'.key = walk.key /\ walk'.idx = x
  BY <1>1, <1>2, <1>4
<1>6. /\ used' \in [candidates: Nat, decoded: Nat, scanned: Nat, hits: Nat]
      /\ used'.candidates = used.candidates + 1 /\ used'.scanned = used.scanned
      /\ used'.hits = used.hits
  BY <1>1, <1>2
<1>7. Typed'
  BY <1>1, <1>2, <1>5, <1>6 DEF Typed
<1>8. /\ Advances /\ searched'[i][walk.key] = x
      /\ \A k \in Keys : k # walk.key => searched'[i][k] = searched[i][k]
  <2>1. searched' = [searched EXCEPT ![i][walk.key] = x]
    BY <1>1, <1>4
  <2> QED BY <1>1, <1>4, <2>1, SearchAdvances
<1>9. Passes'
  <2>1. \A k \in Keys : k < walk.key \/ k > walk.key => k # walk.key
    BY <1>2 DEF Keys
  <2> QED BY <1>1, <1>4, <1>5, <1>8, <2>1 DEF IInv, Passes, Walking
<1>10. /\ used.candidates <= config.max_candidates /\ used.hits < config.max_hits
  BY <1>1, Inside DEF IInv, Budgets
<1>11. used'.candidates <= config.max_candidates + 1
  BY <1>2, <1>6, <1>10
<1> QED BY <1>1, <1>6, <1>7, <1>8, <1>9, <1>10, <1>11, InsideStep

\* No marker of this key is left: its pass ends at the end of the data.
LEMMA NextKeyKeeps == ASSUME IInv, NextKey PROVE IInv'
<1>1. /\ pc = "walk" /\ Walking
      /\ searched' = [searched EXCEPT ![i][walk.key] = buf.len]
      /\ UNCHANGED <<config, segs, i, tracker, gaps, used, stop, buf, now>>
  BY DEF NextKey, Walking
<1>2. /\ Typed /\ buf.len \in Nat /\ buf.len \in 0..buf.len
      /\ walk \in [key: Keys, start: Nat, idx: Nat] /\ walk.key \in Keys
  BY SMTT(30), <1>1, Inside DEF Typed
<1>3. /\ Advances /\ searched'[i][walk.key] = buf.len
      /\ \A k \in Keys : k # walk.key => searched'[i][k] = searched[i][k]
  BY <1>1, <1>2, SearchAdvances
<1>4. /\ used.candidates <= config.max_candidates /\ used.hits < config.max_hits
      /\ used.candidates <= config.max_candidates + 1
  BY <1>1, Inside DEF IInv, Budgets
<1>5. CASE walk.key = LastKey /\ pc' = "after" /\ UNCHANGED walk
  <2>1. Typed' /\ Walking'
    BY <1>1, <1>2, <1>5 DEF Typed, Walking
  <2>2. \A k \in Keys : searched'[i][k] = buf.len
    <3>1. \A k \in Keys : k # LastKey => k < walk.key
      BY <1>5 DEF Keys, LastKey
    <3> QED BY <1>1, <1>3, <1>5, <3>1 DEF IInv, Passes
  <2>3. \A k \in Keys : ~(k > walk.key)
    BY <1>5 DEF Keys, LastKey
  <2>4. Passes'
    BY <1>1, <1>5, <2>2, <2>3 DEF IInv, Passes, Walking
  <2> QED BY <1>1, <1>3, <1>4, <1>5, <2>1, <2>4, InsideStep
<1>6. CASE /\ walk.key # LastKey /\ UNCHANGED pc
           /\ walk' = [key |-> walk.key + 1, start |-> 0, idx |-> 0]
  <2>1. walk.key = 1 /\ walk.key + 1 = 2 /\ 2 \in Keys
    BY <1>2, <1>6 DEF Keys, LastKey
  <2>2. walk' \in [key: Keys, start: Nat, idx: Nat] /\ walk'.key = 2 /\ walk'.start = 0
    BY <1>6, <2>1
  <2>3. Typed' /\ Walking'
    BY <1>1, <1>2, <1>6, <2>2 DEF Typed, Walking
  <2>4. Passes'
    <3>1. searched[i][2] = 0
      BY <1>1, <2>1 DEF IInv, Passes
    <3>2. searched'[i][1] = buf.len /\ searched'[i][2] = 0
      BY <1>3, <2>1, <3>1
    <3>3. \A k \in Keys : (k < 2 => k = 1) /\ ~(k > 2)
      BY DEF Keys
    <3> QED BY <1>1, <1>2, <1>6, <2>2, <3>2, <3>3 DEF IInv, Passes, Walking
  <2> QED BY <1>1, <1>3, <1>4, <1>6, <2>3, <2>4, InsideStep
<1> QED BY <1>5, <1>6 DEF NextKey

\* A candidate judged: its offset is searched, and a hit at the cap stops the scan.
LEMMA DecodeKeeps == ASSUME IInv, Decode PROVE IInv'
<1>1. /\ pc = "decode" /\ Walking
      /\ UNCHANGED <<config, segs, i, tracker, gaps, buf, walk, now>>
  BY DEF Decode, Walking
<1>2. PICK n \in Consumptions, new \in BOOLEAN :
         /\ used' = [used EXCEPT !.decoded = @ + n, !.hits = IF new THEN @ + 1 ELSE @]
         /\ searched' = [searched EXCEPT ![i][walk.key] = walk.idx + 1]
         /\ IF new /\ used'.hits >= config.max_hits
            THEN Stop("max_hits", used'.hits, i, TRUE, StopCursor(TRUE))
            ELSE pc' = "decoded" /\ UNCHANGED stop
  BY DEF Decode
<1>3. /\ Typed /\ buf.len \in Nat /\ walk.idx \in Nat /\ n \in Nat
      /\ used \in [candidates: Nat, decoded: Nat, scanned: Nat, hits: Nat]
      /\ config.max_hits \in Nat /\ stop.kind = "none"
  BY <1>1, Inside, Bounds, CsAssumption DEF Typed
<1>4. walk.idx < buf.len /\ searched[i][walk.key] = walk.idx /\ walk.idx + 1 \in 0..buf.len
  <2>1. walk.idx < buf.len /\ searched[i][walk.key] = walk.idx
    BY <1>1 DEF IInv, Passes
  <2> QED BY <1>3, <2>1
<1>5. /\ Advances /\ searched'[i][walk.key] = walk.idx + 1
      /\ \A k \in Keys : k # walk.key => searched'[i][k] = searched[i][k]
  BY <1>1, <1>2, <1>4, SearchAdvances
<1>6. /\ used.hits < config.max_hits
      /\ used.candidates <= config.max_candidates
      /\ used.candidates <= config.max_candidates + 1
  BY <1>1, <1>3 DEF IInv, Budgets
<1>7. /\ used' \in [candidates: Nat, decoded: Nat, scanned: Nat, hits: Nat]
      /\ used'.candidates = used.candidates /\ used'.scanned = used.scanned
      /\ new => used'.hits = used.hits + 1
      /\ ~new => used'.hits = used.hits
  <2>0. PICK d, h : d = used.decoded + n /\ h = used.hits + 1 /\ d \in Nat /\ h \in Nat
    BY <1>3
  <2>1. CASE new
    <3>1. used' = [used EXCEPT !.decoded = d, !.hits = h]
      BY <1>2, <2>0, <2>1
    <3>2. /\ used' \in [candidates: Nat, decoded: Nat, scanned: Nat, hits: Nat]
          /\ used'.candidates = used.candidates /\ used'.scanned = used.scanned
          /\ used'.hits = h
      BY <1>3, <2>0, <3>1
    <3> QED BY <2>0, <2>1, <3>2
  <2>2. CASE ~new
    <3>1. used' = [used EXCEPT !.decoded = d, !.hits = used.hits]
      BY <1>2, <2>0, <2>2
    <3>2. /\ used' \in [candidates: Nat, decoded: Nat, scanned: Nat, hits: Nat]
          /\ used'.candidates = used.candidates /\ used'.scanned = used.scanned
          /\ used'.hits = used.hits
      BY <1>3, <2>0, <3>1
    <3> QED BY <2>2, <3>2
  <2> QED BY <2>1, <2>2
<1>8. used'.hits <= config.max_hits
  BY <1>3, <1>6, <1>7
<1>9. CASE new /\ used'.hits >= config.max_hits
  <2>1. PICK judged \in BOOLEAN : judged = TRUE /\ judged
    OBVIOUS
  <2>2. PICK offset : /\ offset = StopCursor(judged) /\ offset \in Examined
                      /\ offset # Unmeasured => /\ \A k \in Keys : offset <= searched'[i][k]
                                                /\ searched'[i][LastKey] = offset
                                                /\ offset <= segs[i]
    <3>1. pc \in {"found", "decode", "decoded"}
      BY <1>1
    <3> QED BY <1>5, <2>1, <3>1, CursorIsReached
  <2>3. Stop("max_hits", used'.hits, i, TRUE, offset)
    BY <1>2, <1>9, <2>1, <2>2
  <2>4. used'.hits \in Nat /\ used'.hits = config.max_hits
    BY <1>3, <1>7, <1>8, <1>9
  <2>5. "max_hits" \in Kinds \ {"max_total_scanned_bytes"}
    BY DEF Kinds
  <2>6. Typed'
    <3>1. i \in 1..Len(segs) /\ Len(segs) \in Nat
      BY <1>1, Inside
    <3>2. i \in 0..(Len(segs) + 1)
      BY <3>1
    <3>3. PICK started \in BOOLEAN : started = TRUE
      OBVIOUS
    <3>4. Stop("max_hits", used'.hits, i, started, offset)
      BY <2>3, <3>3
    <3>5. stop' \in StopRecord /\ pc' = "stopped"
      BY <1>3, <2>2, <2>4, <2>5, <3>2, <3>4, StopEffect
    <3> QED BY <1>1, <1>3, <1>7, <3>5 DEF Typed, StopRecord
  <2>7. PICK kind \in Kinds \ {"max_total_scanned_bytes"} : kind = "max_hits"
    BY <2>5
  <2> QED BY <1>1, <1>5, <1>6, <1>7, <1>8, <2>2, <2>3, <2>4, <2>6, <2>7, InsideStop
<1>10. CASE ~(new /\ used'.hits >= config.max_hits)
  <2>1. pc' = "decoded" /\ UNCHANGED stop /\ Walking'
    BY <1>2, <1>10 DEF Walking
  <2>2. used'.hits < config.max_hits
    BY <1>3, <1>6, <1>7, <1>10
  <2>3. Typed'
    BY <1>1, <1>3, <1>7, <2>1 DEF Typed
  <2>4. Passes'
    <3>1. \A k \in Keys : k < walk.key \/ k > walk.key => k # walk.key
      BY <1>1, Inside DEF Keys
    <3> QED BY <1>1, <1>4, <1>5, <2>1, <3>1 DEF IInv, Passes, Walking
  <2> QED BY <1>1, <1>5, <1>6, <1>7, <2>1, <2>2, <2>3, <2>4, InsideStep
<1> QED BY <1>9, <1>10

\* A segment walked to its end is left behind, or is the last one before a stop.
LEMMA AfterSegmentKeeps == ASSUME IInv, AfterSegment PROVE IInv'
<1>1. /\ pc = "after" /\ Walking
      /\ UNCHANGED <<config, segs, tracker, gaps, used, buf, walk, now, searched>>
  BY DEF AfterSegment, Walking
<1>2. /\ Typed /\ i \in Nat /\ i \in 1..Len(segs) /\ Len(segs) \in Nat /\ segs[i] \in Nat
      /\ stop = NoStop /\ stop.kind = "none" /\ ~Done /\ buf.len \in Nat /\ buf.len \in 1..segs[i]
  BY <1>1, Inside
<1>3. CASE Late /\ Stop("scan_deadline_seconds", Elapsed, i + 1, FALSE, Unmeasured) /\ UNCHANGED i
  <2>1. i + 1 \in 1..(Len(segs) + 1)
    BY <1>2
  <2>2. Elapsed \in Nat /\ Elapsed > config.scan_deadline_seconds
    BY <1>2, <1>3, LateElapsed
  <2> QED BY <1>1, <1>3, <2>1, <2>2, StopBetween
<1>4. CASE i' = i + 1 /\ pc' = "top" /\ UNCHANGED stop
  <2>1. i' \in 1..(Len(segs) + 1) /\ ~Done' /\ ~Walking' /\ i' - 1 = i
    BY <1>2, <1>4 DEF Done, Walking
  <2>2. Typed' /\ DataType'
    BY <1>1, <1>4, <2>1 DEF IInv, Typed, DataType
  <2>3. Phase' /\ Passes' /\ Cursor'
    BY <1>1, <1>2, <1>4, <2>1 DEF IInv, Phase, Passes, Cursor, Ended, Walking
  <2>4. Ledger'
    BY <1>1, <1>4 DEF IInv, Ledger, Accounted
  <2>5. Scope'
    BY <1>1, <1>4, <2>1 DEF IInv, Scope
  <2>6. Budgets' /\ StopIsTrue' /\ EveryByteNamed'
    BY <1>1, <1>4, <2>1 DEF IInv, Budgets, StopIsTrue, EveryByteNamed
  <2>7. Behind'
    <3>1. \A q \in 1..Len(segs) : q = i => Closed(q)'
      <4> SUFFICES ASSUME NEW q \in 1..Len(segs), q = i PROVE Closed(q)'
        OBVIOUS
      <4>1. /\ buf.len \in 0..segs[q] /\ (\A k \in Keys : searched[q][k] = buf.len)
            /\ (buf.len < segs[q] => \E g \in gaps : g.seg = q /\ g.examined = buf.len)
        BY <1>1, <1>2 DEF IInv, Passes
      <4> QED BY <1>1, <4>1 DEF Closed
    <3> QED BY <1>1, <1>2, <1>4, <3>1, BehindGrows
  <2>8. Unreached'
    <3> SUFFICES ASSUME NEW q \in 1..Len(segs), q > i' \/ q = i' PROVE \A k \in Keys : searched[q][k] = 0
      BY <1>1, <1>2, <1>4 DEF Unreached
    <3>1. q > i
      BY <1>2, <1>4
    <3> QED BY <3>1 DEF IInv, Unreached
  <2>9. GapsSoFar'
    <3>1. \A g \in gaps : g.seg <= i => g.seg <= i' /\ g.seg # i'
      <4>1. \A g \in gaps : g.seg \in 1..Len(segs)
        BY <1>2 DEF Typed
      <4> QED BY <1>2, <1>4, <4>1
    <3> QED BY <1>1, <1>2, <2>1, <3>1 DEF IInv, GapsSoFar
  <2> QED BY <2>2, <2>3, <2>4, <2>5, <2>6, <2>7, <2>8, <2>9 DEF IInv
<1> QED BY <1>3, <1>4 DEF AfterSegment, NextSegment

\* What publication names of a segment a budget stop left behind.
LEMMA LeftBehindNamed ==
    ASSUME IInv, stop # NoStop, NEW q \in 1..Len(segs), q >= stop.index
    PROVE  \E g \in BudgetStopTargets :
             /\ g.seg = q /\ g.examined \in Examined
             /\ g.examined # Unmeasured => /\ g.examined \in Nat
                                           /\ \A k \in Keys : g.examined <= searched[q][k]
<1>1. /\ Len(segs) \in Nat /\ stop.index \in Nat /\ searched \in [1..Len(segs) -> [Keys -> Nat]]
      /\ stop.offset \in Examined
  BY Bounds DEF IInv, DataType, Typed
<1>2. q \in LeftBehind
  BY <1>1 DEF LeftBehind
<1>3. CASE q = stop.index /\ stop.started
  <2>1. PICK g : g = Target(q, "budget", stop.offset)
    OBVIOUS
  <2>2. g \in BudgetStopTargets /\ g.seg = q /\ g.examined = stop.offset
    BY <1>2, <1>3, <2>1 DEF BudgetStopTargets, Target
  <2>3. stop.offset # Unmeasured => /\ stop.offset \in Nat
                                    /\ \A k \in Keys : stop.offset <= searched[q][k]
    BY <1>1, <1>3 DEF IInv, Cursor, Examined
  <2> QED BY <1>1, <2>2, <2>3
<1>4. CASE ~(q = stop.index /\ stop.started)
  <2>1. PICK g : g = Target(q, "budget", 0)
    OBVIOUS
  <2>2. g \in BudgetStopTargets /\ g.seg = q /\ g.examined = 0
    BY <1>2, <1>4, <2>1 DEF BudgetStopTargets, Target
  <2>3. \A k \in Keys : 0 <= searched[q][k]
    BY <1>1
  <2> QED BY <2>2, <2>3 DEF Examined
<1> QED BY <1>3, <1>4

\* Each of them is a target of a segment in the list, and a measured one starts
\* where some key's search ended.
LEMMA LeftBehindTargets ==
    ASSUME IInv, NEW g \in BudgetStopTargets
    PROVE  /\ g \in GapRecord /\ stop # NoStop
           /\ g.examined # Unmeasured => \E k \in Keys : searched[g.seg][k] <= g.examined
<1>1. /\ Len(segs) \in Nat /\ stop.index \in Nat /\ searched \in [1..Len(segs) -> [Keys -> Nat]]
      /\ stop.offset \in Examined /\ i \in Nat /\ i >= 1 /\ Typed
  BY Bounds DEF IInv, DataType, Typed
<1>2. PICK q \in LeftBehind :
         g = Target(q, "budget", IF q = stop.index /\ stop.started THEN stop.offset ELSE 0)
  BY DEF BudgetStopTargets
<1>3. stop # NoStop /\ q \in stop.index..Len(segs)
  BY <1>2 DEF LeftBehind
<1>4. stop.index \in {i, i + 1}
  BY <1>3 DEF IInv, Phase
<1>5. q \in 1..Len(segs) /\ q >= stop.index
  BY <1>1, <1>3, <1>4
<1>6. CASE q = stop.index /\ stop.started
  <2>1. g = Target(q, "budget", stop.offset)
    BY <1>2, <1>6
  <2>2. g.seg = q /\ g.examined = stop.offset /\ g.code = "budget"
    BY <2>1 DEF Target
  <2>3. g \in GapRecord
    BY <1>1, <1>5, <2>1 DEF Target, GapRecord
  <2>4. stop.offset # Unmeasured => searched[q][LastKey] = stop.offset
    BY <1>3, <1>6 DEF IInv, Cursor
  <2>5. LastKey \in Keys /\ searched[q][LastKey] <= searched[q][LastKey]
    BY <1>1, <1>5 DEF LastKey, Keys
  <2> QED BY <1>3, <2>2, <2>3, <2>4, <2>5
<1>7. CASE ~(q = stop.index /\ stop.started)
  <2>1. g = Target(q, "budget", 0)
    BY <1>2, <1>7
  <2>2. g.seg = q /\ g.examined = 0
    BY <2>1 DEF Target
  <2>3. g \in GapRecord
    BY <1>5, <2>1 DEF Target, GapRecord, Examined
  <2>4. \A k \in Keys : searched[q][k] = 0
    BY <1>3, <1>5, <1>7 DEF IInv, Unreached
  <2>5. 1 \in Keys
    BY DEF Keys
  <2> QED BY <1>3, <2>2, <2>3, <2>4, <2>5
<1> QED BY <1>6, <1>7

\* The scope after publication covers every segment.
LEMMA ScopeIsWhole ==
    ASSUME IInv, pc = "stopped" \/ (pc = "top" /\ i > Len(segs)), NEW t, t = ScopeWithUnreached
    PROVE  /\ t \in Tracker /\ t.noted = tracker.noted /\ t.total = tracker.total
           /\ t.missed = tracker.missed /\ t.stray = tracker.stray
           /\ t.open_item = tracker.open_item /\ t.unsized = tracker.unsized
           /\ t.bytes >= Total(segs, Len(segs))
<1>1. /\ Len(segs) \in Nat /\ i \in Nat /\ i >= 1 /\ i <= Len(segs) + 1 /\ Typed
      /\ stop.index \in Nat /\ stop.index <= Len(segs) + 1 /\ segs \in Seq(Nat)
      /\ tracker \in Tracker /\ tracker.bytes \in Nat
      /\ \A q \in 0..Len(segs) : Total(segs, q) \in Nat
  <2>1. /\ Len(segs) \in Nat /\ i \in Nat /\ i >= 1 /\ i <= Len(segs) + 1 /\ Typed
        /\ stop.index \in Nat /\ stop.index <= Len(segs) + 1 /\ segs \in Seq(Nat)
        /\ \A q \in 0..Len(segs) : Total(segs, q) \in Nat
    BY Bounds DEF IInv
  <2>2. tracker \in Tracker
    BY <2>1 DEF Typed
  <2> QED BY <2>1, <2>2, TrackerFields
<1>2. CASE LeftBehind = {}
  <2>1. t = tracker
    BY <1>2 DEF ScopeWithUnreached
  <2>2. tracker.bytes = Total(segs, Len(segs))
    <3>1. CASE stop = NoStop
      <4>1. pc = "top" /\ i - 1 = Len(segs)
        BY <1>1, <3>1 DEF IInv, Phase
      <4> QED BY <4>1 DEF IInv, Scope
    <3>2. CASE stop # NoStop
      <4>1. stop.index = Len(segs) + 1
        <5>1. stop.index..Len(segs) = {}
          BY <1>2, <3>2 DEF LeftBehind
        <5>2. ~(stop.index <= Len(segs))
          <6> SUFFICES ASSUME stop.index <= Len(segs) PROVE FALSE
            OBVIOUS
          <6>1. Len(segs) \in stop.index..Len(segs)
            BY <1>1
          <6> QED BY <5>1, <6>1
        <5> QED BY <1>1, <5>2
      <4>2. ~stop.started
        <5>1. ~(stop.index <= Len(segs))
          BY <1>1, <4>1
        <5> QED BY <3>2, <5>1 DEF IInv, Cursor
      <4>3. pc = "stopped"
        BY <3>2 DEF IInv, Phase, Ended
      <4>4. tracker.bytes = Total(segs, stop.index - 1)
        BY <4>2, <4>3 DEF IInv, Scope
      <4>5. stop.index - 1 = Len(segs)
        BY <1>1, <4>1
      <4> QED BY <4>4, <4>5
    <3> QED BY <3>1, <3>2
  <2> QED BY <1>1, <2>1, <2>2
<1>3. CASE LeftBehind # {}
  <2>1. /\ stop # NoStop /\ stop.index <= Len(segs) /\ stop.index >= 1 /\ pc = "stopped"
    <3>1. stop # NoStop /\ stop.index..Len(segs) # {}
      BY <1>3 DEF LeftBehind
    <3>2. PICK q : q \in stop.index..Len(segs)
      BY <3>1
    <3>3. stop.index \in {i, i + 1} /\ pc = "stopped"
      BY <3>1 DEF IInv, Phase, Ended
    <3> QED BY SMTT(30), <1>1, <3>1, <3>2, <3>3
  <2>2. PICK before \in Nat, whole \in Nat :
           /\ before = Total(segs, stop.index - 1) /\ whole = Total(segs, Len(segs))
           /\ before <= whole /\ before <= tracker.bytes
    <3>1. stop.index - 1 \in 0..Len(segs) /\ stop.index \in 0..Len(segs) /\ Len(segs) \in 0..Len(segs)
          /\ stop.index - 1 <= stop.index /\ stop.index - 1 <= Len(segs)
      BY SMTT(30), <1>1, <2>1
    <3>2. Total(segs, stop.index - 1) <= Total(segs, Len(segs))
      BY <1>1, <3>1, TotalGrows
    <3>3. Total(segs, stop.index - 1) <= Total(segs, stop.index)
      BY <1>1, <3>1, TotalGrows
    <3>4. tracker.bytes = Total(segs, stop.index) \/ tracker.bytes = Total(segs, stop.index - 1)
      BY <2>1 DEF IInv, Scope
    <3>5. Total(segs, stop.index - 1) \in Nat /\ Total(segs, Len(segs)) \in Nat
      BY <1>1, <3>1
    <3>6. Total(segs, stop.index - 1) <= tracker.bytes
      BY <3>3, <3>4, <3>5
    <3> QED BY <3>2, <3>5, <3>6
  <2>3. t = [tracker EXCEPT !.bytes = tracker.bytes + (whole - before)]
    BY <1>3, <2>2 DEF ScopeWithUnreached, NoteUnreachedExtent
  <2>4. /\ t.noted = tracker.noted /\ t.total = tracker.total
        /\ t.missed = tracker.missed /\ t.stray = tracker.stray
        /\ t.open_item = tracker.open_item /\ t.unsized = tracker.unsized
        /\ t.bytes = tracker.bytes + (whole - before)
    BY <1>1, <2>3 DEF Tracker
  <2>5. tracker.bytes + (whole - before) \in Nat /\ tracker.bytes + (whole - before) >= whole
    BY <1>1, <2>2
  <2>6. t \in Tracker
    BY <1>1, <2>3, <2>5 DEF Tracker
  <2> QED BY <2>2, <2>4, <2>5, <2>6
<1> QED BY <1>2, <1>3

\* Publication closes the books: every byte is searched or named.
LEMMA PublishKeeps == ASSUME IInv, Publish PROVE IInv'
<1>1. /\ pc = "stopped" \/ (pc = "top" /\ i > Len(segs))
      /\ pc' = "done" /\ gaps' = gaps \union BudgetStopTargets /\ tracker' = ScopeWithUnreached
      /\ UNCHANGED <<config, segs, i, used, stop, buf, walk, now, searched>>
  BY DEF Publish
<1>2. Done' /\ ~Done /\ ~Walking /\ ~Walking' /\ pc \notin {"read", "found", "decode"}
  BY <1>1 DEF Done, Walking
<1>3. /\ tracker' \in Tracker /\ tracker'.noted = tracker.noted /\ tracker'.total = tracker.total
      /\ tracker'.missed = tracker.missed /\ tracker'.stray = tracker.stray
      /\ tracker'.open_item = tracker.open_item /\ tracker'.unsized = tracker.unsized
      /\ tracker'.bytes >= Total(segs, Len(segs))
  BY <1>1, ScopeIsWhole
<1>4. Typed' /\ DataType'
  <2>1. gaps' \subseteq GapRecord
    BY <1>1, LeftBehindTargets DEF IInv, Typed, GapRecord
  <2> QED BY <1>1, <1>3, <2>1 DEF IInv, Typed, DataType, GapRecord
<1>5. Phase'
  <2>1. pc = "top" /\ i > Len(segs) => i = Len(segs) + 1
    <3>1. i \in Nat /\ Len(segs) \in Nat /\ i <= Len(segs) + 1
      BY Bounds DEF IInv
    <3> QED BY <3>1
  <2> QED BY <1>1, <1>2, <2>1 DEF IInv, Phase, Ended, Walking
<1>6. Ledger'
  BY <1>1, <1>3 DEF IInv, Ledger, Accounted
<1>7. Scope' /\ Budgets' /\ Passes' /\ StopIsTrue'
  BY <1>1, <1>2, <1>3 DEF IInv, Scope, Budgets, Passes, StopIsTrue
<1>8. Behind' /\ Cursor'
  BY <1>1 DEF IInv, Behind, Reach, Closed, Cursor
<1>9. Unreached'
  BY <1>1 DEF IInv, Unreached
<1>10. GapsSoFar'
  BY <1>1, <1>2, LeftBehindTargets DEF IInv, GapsSoFar
<1>11. EveryByteNamed'
  <2> SUFFICES ASSUME NEW b \in Bytes
               PROVE  \/ Searched(b[1], b[2])
                      \/ \E g \in gaps' : /\ g.seg = b[1]
                                          /\ g.examined = Unmeasured \/ b \in Named(g)
    BY <1>1 DEF EveryByteNamed, Bytes, Searched, Named
  <2>0. PICK q \in 1..Len(segs) : b \in {q} \X (0..(segs[q] - 1))
    BY DEF Bytes
  <2>1. PICK o \in 0..(segs[q] - 1) : b = <<q, o>>
    BY <2>0
  <2>2. /\ o \in Nat /\ b[1] = q /\ b[2] = o /\ Len(segs) \in Nat /\ stop.index \in Nat
        /\ i \in Nat /\ i <= Len(segs) + 1 /\ i >= 1
    BY <2>1, Bounds DEF IInv
  <2>3. \A k \in Keys : searched[q][k] \in Nat
    BY DEF IInv, DataType
  <2>4. \A g : g.seg = q /\ g.examined \in Nat /\ g.examined <= o => b \in Named(g)
    BY <2>1, <2>2 DEF Named
  <2>5. CASE q < Reach
    <3>1. q \in 1..(Reach - 1)
      BY <2>2, <2>5 DEF Reach
    <3>2. PICK n \in 0..segs[q] : /\ \A k \in Keys : searched[q][k] = n
                                  /\ n < segs[q] => \E g \in gaps : g.seg = q /\ g.examined = n
      BY <3>1 DEF IInv, Behind, Closed
    <3>3. CASE o < n
      BY <2>2, <3>2, <3>3 DEF Searched
    <3>4. CASE ~(o < n)
      <4>1. n \in Nat /\ n <= o /\ n < segs[q]
        <5>1. segs[q] \in Nat
          BY Bounds DEF IInv
        <5> QED BY <2>1, <2>2, <3>4, <5>1
      <4>2. PICK g \in gaps : g.seg = q /\ g.examined = n
        BY <3>2, <4>1
      <4> QED BY <1>1, <2>2, <2>4, <4>1, <4>2
    <3> QED BY <3>3, <3>4
  <2>6. CASE ~(q < Reach)
    <3>1. stop # NoStop /\ q >= stop.index
      <4>1. CASE stop = NoStop
        <5>1. pc = "top" /\ i = Len(segs) + 1 /\ Reach = i
          BY <1>1, <2>2, <4>1 DEF IInv, Phase, Reach
        <5> QED BY <2>2, <2>6, <5>1
      <4>2. CASE stop # NoStop
        BY <2>2, <2>6, <4>2 DEF Reach
      <4> QED BY <4>1, <4>2
    <3>2. PICK g \in BudgetStopTargets :
             /\ g.seg = q /\ g.examined \in Examined
             /\ g.examined # Unmeasured => /\ g.examined \in Nat
                                           /\ \A k \in Keys : g.examined <= searched[q][k]
      BY <3>1, LeftBehindNamed
    <3>3. g \in gaps'
      BY <1>1, <3>2
    <3>4. CASE g.examined = Unmeasured
      BY <2>2, <3>2, <3>3, <3>4
    <3>5. CASE g.examined # Unmeasured /\ g.examined <= o
      BY <2>2, <2>4, <3>2, <3>3, <3>5
    <3>6. CASE g.examined # Unmeasured /\ ~(g.examined <= o)
      <4>1. \A k \in Keys : o < searched[q][k]
        BY <2>2, <2>3, <3>2, <3>6
      <4> QED BY <2>2, <4>1 DEF Searched
    <3> QED BY <3>4, <3>5, <3>6
  <2> QED BY <2>5, <2>6
<1> QED BY <1>4, <1>5, <1>6, <1>7, <1>8, <1>9, <1>10, <1>11 DEF IInv

LEMMA StutterKeeps == ASSUME IInv, UNCHANGED vars PROVE IInv'
<1>1. UNCHANGED <<config, segs, i, pc, tracker, gaps, used, stop, buf, walk, now, searched>>
  BY DEF vars
<1>2. Typed' /\ DataType'
  BY <1>1 DEF IInv, Typed, DataType
<1>3. Phase' /\ Ledger'
  BY <1>1 DEF IInv, Phase, Ledger, Walking, Ended, Accounted
<1>4. Scope'
  BY <1>1 DEF IInv, Scope, Walking
<1>5. Budgets'
  BY <1>1 DEF IInv, Budgets
<1>6. StopIsTrue'
  BY <1>1 DEF IInv, StopIsTrue
<1>7. Passes'
  BY <1>1 DEF IInv, Passes, Walking
<1>8. Behind'
  BY <1>1 DEF IInv, Behind, Reach, Closed
<1>9. Unreached' /\ Cursor'
  BY <1>1 DEF IInv, Unreached, Cursor
<1>10. GapsSoFar'
  BY <1>1 DEF IInv, GapsSoFar, Walking, Done
<1>11. EveryByteNamed'
  BY <1>1 DEF IInv, EveryByteNamed, Done, Bytes, Searched, Named
<1> QED BY <1>2, <1>3, <1>4, <1>5, <1>6, <1>7, <1>8, <1>9, <1>10, <1>11 DEF IInv

\* The invariant is inductive.
THEOREM NextKeeps == IInv /\ [Next]_vars => IInv'
<1> SUFFICES ASSUME IInv, [Next]_vars PROVE IInv'
  OBVIOUS
<1>1. CASE Top
  BY <1>1, TopKeeps
<1>2. CASE Oversize \/ ReadFails
  BY <1>2, UnreadKeep
<1>3. CASE Read
  BY <1>3, ReadKeeps
<1>4. CASE Find
  BY <1>4, FindKeeps
<1>5. CASE BeforeDecode
  BY <1>5, BeforeDecodeKeeps
<1>6. CASE Decode
  BY <1>6, DecodeKeeps
<1>7. CASE AfterDecode
  BY <1>7, AfterDecodeKeeps
<1>8. CASE NextKey
  BY <1>8, NextKeyKeeps
<1>9. CASE AfterSegment
  BY <1>9, AfterSegmentKeeps
<1>10. CASE Publish
  BY <1>10, PublishKeeps
<1>11. CASE Tick
  BY <1>11, TickKeeps
<1>12. CASE UNCHANGED vars
  BY <1>12, StutterKeeps
<1> QED BY <1>1, <1>2, <1>3, <1>4, <1>5, <1>6, <1>7, <1>8, <1>9, <1>10, <1>11, <1>12 DEF Next, Scan

THEOREM InvariantHolds == Spec => []IInv
<1> QED BY InitHolds, NextKeeps, PTL DEF Spec

\* Whatever the dump and the limits, the loop's state and its tracker are well
\* formed, the data under the walk is no longer than its segment, and neither the
\* walk's positions nor the cursor of a stop lie past its end.
THEOREM TypeCorrect == Spec => []TypeOK
<1>1. IInv => TypeOK
  <2> SUFFICES ASSUME IInv PROVE Placed
    BY DEF IInv, TypeOK
  <2>1. Walking => i <= Len(segs) /\ buf.len \in 1..segs[i]
    BY DEF IInv, Phase, Passes
  <2>2. pc = "walk" => walk.start <= buf.len
    BY DEF IInv, Passes, Walking
  <2>3. pc \in {"found", "decode", "decoded"} => walk.idx < buf.len
    BY DEF IInv, Passes, Walking
  <2>4. ASSUME stop.started
        PROVE  /\ stop.index \in 1..Len(segs)
               /\ stop.offset # Unmeasured => stop.offset <= segs[stop.index]
    <3>1. stop # NoStop
      BY <2>4 DEF NoStop
    <3>2. i \in Nat /\ i >= 1 /\ Len(segs) \in Nat
      BY Bounds DEF IInv
    <3>3. stop.index \in {i, i + 1} /\ stop.index <= Len(segs)
      BY <2>4, <3>1 DEF IInv, Phase, Cursor
    <3> QED BY <2>4, <3>1, <3>2, <3>3 DEF IInv, Cursor
  <2> QED BY <2>1, <2>2, <2>3, <2>4 DEF Placed, Walking
<1> QED BY <1>1, InvariantHolds, PTL

\* Once the scan has published, no byte of the dump is missing: each was searched
\* for both keys or lies in a gap that names it.
THEOREM NoByteGoesMissing == Spec => []EveryByteNamed
<1>1. IInv => EveryByteNamed
  BY DEF IInv
<1> QED BY <1>1, InvariantHolds, PTL

\* A measured gap holds no byte that every key searched: it may be handed to a
\* rescan as it stands.
THEOREM GapsAreExact == Spec => []ResidualIsExact
<1>1. IInv => ResidualIsExact
  <2> SUFFICES ASSUME IInv, Done, NEW g \in Measured, NEW b \in Named(g) PROVE ~Searched(b[1], b[2])
    BY DEF ResidualIsExact
  <2>1. g \in gaps /\ g.examined # Unmeasured /\ g \in GapRecord
    BY DEF Measured, IInv, Typed, GapRecord
  <2>2. g.seg \in 1..Len(segs) /\ g.examined \in Nat
    BY <2>1 DEF GapRecord, Examined
  <2>3. PICK k \in Keys : searched[g.seg][k] <= g.examined
    BY <2>1 DEF IInv, GapsSoFar
  <2>4. searched[g.seg][k] \in Nat
    BY <2>2 DEF IInv, DataType
  <2>5. PICK o \in g.examined..(segs[g.seg] - 1) : b = <<g.seg, o>>
    BY DEF Named
  <2>6. segs[g.seg] \in Nat
    BY <2>2, Bounds DEF IInv
  <2>7. o >= g.examined /\ o \in Nat
    BY <2>2, <2>5, <2>6
  <2>8. ~(o < searched[g.seg][k])
    BY <2>2, <2>3, <2>4, <2>7
  <2> QED BY <2>3, <2>5, <2>8 DEF Searched
<1> QED BY <1>1, InvariantHolds, PTL

\* What the scan publishes about itself adds up: every segment in scope has one
\* outcome, the scale covers the dump and every gap measured on it, and the budget
\* it names is the one that ran out.
THEOREM PublishedBooksClose == Spec => []BooksClose
<1>1. IInv => BooksClose
  <2> SUFFICES ASSUME IInv PROVE BooksClose
    OBVIOUS
  <2>1. LedgerCloses
    <3> SUFFICES ASSUME Done PROVE Reconciled(tracker)
      BY DEF LedgerCloses
    <3>1. /\ tracker.missed = 0 /\ tracker.stray = 0 /\ ~tracker.open_item
          /\ Accounted(tracker) + 0 = tracker.total
      BY DEF Done, IInv, Ledger
    <3>2. tracker \in Tracker
      BY DEF IInv, Typed
    <3>3. Accounted(tracker) \in Nat /\ tracker.total \in Nat
      BY <3>2, TrackerFields
    <3>4. Unaccounted(tracker) = 0 /\ OverAccounted(tracker) = 0
      BY <3>1 DEF Unaccounted, OverAccounted
    <3>5. LedgerImbalance(tracker) = 0
      BY <3>1, <3>3, <3>4 DEF LedgerImbalance
    <3> QED BY <3>4, <3>5 DEF Reconciled
  <2>2. ScaleCoversGaps
    <3> SUFFICES ASSUME Done
                 PROVE  /\ EligibleBytes(tracker) >= Cardinality(UNION {Named(g) : g \in Measured})
                        /\ EligibleBytes(tracker) >= Cardinality(Bytes)
      BY DEF ScaleCoversGaps
    <3> DEFINE covered == UNION {Named(g) : g \in Measured}
    <3>1. /\ segs \in Seq(Nat) /\ Len(segs) \in Nat /\ Total(segs, Len(segs)) \in Nat
          /\ \A q \in 1..Len(segs) : segs[q] \in Nat
      <4>1. /\ segs \in Seq(Nat) /\ Len(segs) \in Nat
            /\ \A q \in 0..Len(segs) : Total(segs, q) \in Nat
            /\ \A q \in 1..Len(segs) : segs[q] \in Nat
        BY Bounds DEF IInv
      <4> QED BY <4>1
    <3>2. IsFiniteSet(Bytes) /\ Cardinality(Bytes) <= Total(segs, Len(segs))
      BY <3>1, BytesCounted DEF Bytes
    <3>3. covered \subseteq Bytes
      <4> SUFFICES ASSUME NEW g \in Measured PROVE Named(g) \subseteq Bytes
        OBVIOUS
      <4>1. g \in GapRecord /\ g.examined # Unmeasured
        BY DEF Measured, IInv, Typed, GapRecord
      <4>2. g.seg \in 1..Len(segs) /\ g.examined \in Nat /\ segs[g.seg] \in Nat
        BY <3>1, <4>1 DEF GapRecord, Examined
      <4>3. g.examined..(segs[g.seg] - 1) \subseteq 0..(segs[g.seg] - 1)
        BY <4>2
      <4> QED BY <4>2, <4>3 DEF Named, Bytes
    <3>4. EligibleBytes(tracker) = tracker.bytes /\ tracker.bytes >= Total(segs, Len(segs))
          /\ tracker.bytes \in Nat
      <4>1. tracker.unsized = 0 /\ tracker.bytes >= Total(segs, Len(segs)) /\ tracker \in Tracker
        BY DEF Done, IInv, Ledger, Scope, Typed
      <4> QED BY <4>1, TrackerFields DEF EligibleBytes
    <3> HIDE DEF covered
    <3>5. Cardinality(covered) <= Cardinality(Bytes) /\ IsFiniteSet(covered)
      BY <3>2, <3>3, FS_Subset
    <3>6. Cardinality(covered) \in Nat /\ Cardinality(Bytes) \in Nat
      BY <3>2, <3>5, FS_CardinalityType
    <3>7. EligibleBytes(tracker) >= Cardinality(covered) /\ EligibleBytes(tracker) >= Cardinality(Bytes)
      BY <3>1, <3>2, <3>4, <3>5, <3>6
    <3> QED BY <3>7 DEF covered
  <2> QED BY <2>1, <2>2 DEF BooksClose, IInv
<1> QED BY <1>1, InvariantHolds, PTL

===============================================================================
