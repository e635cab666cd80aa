---------------------------- MODULE CsBeaconScan -----------------------------
(***************************************************************************)
(* The whole-scan loop of dumpex.hunt.cs_beacon.scanner: every captured    *)
(* segment is read and searched for the beacon marker once per XOR key,    *)
(* under five budgets, while the clock runs.  What it could not search it  *)
(* must name: an oversize, unreadable or short segment, and the segments   *)
(* a budget stop left behind.  Bytes are offsets; a segment's content is   *)
(* the set of offsets where each key's marker stands.                      *)
(***************************************************************************)
EXTENDS CoverageTracker, Sizes, FiniteSetsExt

CONSTANTS
    Dumps,        \* the segment size sequences considered, empty segments included
    Configs,      \* the CSBeaconConfig values considered
    Consumptions, \* bytes one candidate's TLV decode can consume
    MaxTime,      \* bound: the clock
    MaxMarks      \* bound: markers in one segment

Keys    == 1..2             \* _XOR_KEY_PASSES in order: 0x69, then 0x2e
LastKey == 2
Kinds   == {"scan_deadline_seconds", "max_total_scanned_bytes", "max_candidates",
            "max_decoded_bytes", "max_hits"}

Config == [max_seg_scan: Nat, max_total_scanned_bytes: Nat, max_candidates: Nat,
           max_decoded_bytes: Nat, max_hits: Nat \ {0}, scan_deadline_seconds: Int]

ASSUME CsAssumption ==
    /\ \A d \in Dumps : d \in Seq(Nat)
    /\ Configs \subseteq Config
    /\ Consumptions \subseteq Nat /\ MaxTime \in Nat /\ MaxMarks \in Nat

VARIABLES
    config,      \* the limits
    segs,        \* sizes of the segments with an extent
    i,           \* the segment the loop is at
    pc,          \* where the loop body is
    tracker,     \* coverage_counts
    gaps,        \* targets named so far: [seg, code, examined]
    used,        \* candidates, decoded and scanned bytes, hits
    stop,        \* the budget that ended the scan, and where
    buf,         \* the segment's data: its length and the markers in it
    walk,        \* the marker walk: key pass, next start, current candidate
    now,         \* time.monotonic()
    searched     \* history: bytes of each segment each key has searched

vars == <<config, segs, i, pc, tracker, gaps, used, stop, buf, walk, now, searched>>

NoStop == [kind |-> "none", index |-> 0, offset |-> Unmeasured, started |-> FALSE, consumed |-> 0]
NoData == [len |-> 0, marks |-> {}]
NoWalk == [key |-> 1, start |-> 0, idx |-> 0]

Init ==
    /\ config \in Configs
    /\ \E d \in Dumps : segs = WithExtent(d)
    /\ i = 1 /\ pc = "top"
    /\ tracker = NewTracker /\ gaps = {}
    /\ used = [candidates |-> 0, decoded |-> 0, scanned |-> 0, hits |-> 0]
    /\ stop = NoStop
    /\ buf = NoData /\ walk = NoWalk /\ now = 0
    /\ searched = [s \in 1..Len(segs) |-> [k \in Keys |-> 0]]

Late == now > config.scan_deadline_seconds

\* A target: which segment, and how much of it was examined (or unknown).
Target(s, code, examined) == [seg |-> s, code |-> code, examined |-> examined]

\* Mutant: the cursor names the candidate after the unexamined one.
CursorPast(candidateExamined) ==
    IF walk.key # LastKey THEN Unmeasured
    ELSE IF walk.idx + 1 < buf.len THEN walk.idx + 1 ELSE buf.len

\* Mutant: a judged candidate is reported as not yet examined.
CursorAt(candidateExamined) == IF walk.key # LastKey THEN Unmeasured ELSE walk.idx

\* _stop_cursor: the first offset not searched by every key, if one exists.
StopCursor(candidateExamined) ==
    IF walk.key # LastKey THEN Unmeasured
    ELSE IF ~candidateExamined THEN walk.idx
    ELSE IF walk.idx + 1 < buf.len THEN walk.idx + 1 ELSE buf.len

\* _mark_budget_exhausted; the loop breaks, so it runs once.
Stop(kind, consumed, index, started, offset) ==
    /\ stop' = [kind |-> kind, index |-> index, offset |-> offset,
                started |-> started, consumed |-> consumed]
    /\ pc' = "stopped"

Elapsed == IF now > 0 THEN now ELSE 0

\* Mutant: only what was already read counts against the byte budget.
TopReadOnly ==
    /\ pc = "top" /\ i <= Len(segs)
    /\ \/ Late /\ Stop("scan_deadline_seconds", Elapsed, i, FALSE, Unmeasured)
               /\ UNCHANGED tracker
       \/ /\ ~Late /\ used.scanned > config.max_total_scanned_bytes
          /\ Stop("max_total_scanned_bytes", used.scanned, i, FALSE, Unmeasured)
          /\ UNCHANGED tracker
       \/ /\ ~Late /\ used.scanned <= config.max_total_scanned_bytes
          /\ tracker' = NoteEligible(tracker, segs[i])
          /\ pc' = "read" /\ UNCHANGED stop
    /\ UNCHANGED <<config, segs, i, gaps, used, buf, walk, now, searched>>

\* Before a segment: the deadline, then the planned read against the byte budget.
Top ==
    /\ pc = "top" /\ i <= Len(segs)
    /\ LET over == used.scanned + segs[i] > config.max_total_scanned_bytes
       IN  \/ /\ Late /\ UNCHANGED tracker
              /\ Stop("scan_deadline_seconds", Elapsed, i, FALSE, Unmeasured)
           \/ /\ ~Late /\ over /\ UNCHANGED tracker
              /\ Stop("max_total_scanned_bytes", used.scanned, i, FALSE, Unmeasured)
           \/ /\ ~Late /\ ~over
              /\ tracker' = NoteEligible(tracker, segs[i])
              /\ pc' = "read" /\ UNCHANGED stop
    /\ UNCHANGED <<config, segs, i, gaps, used, buf, walk, now, searched>>

\* Mutant: the loop advances twice, skipping a segment.
SkipSegment == i' = i + 2 /\ pc' = "top"

NextSegment == i' = i + 1 /\ pc' = "top"

Oversize ==
    /\ pc = "read" /\ segs[i] > config.max_seg_scan
    /\ tracker' = Note(tracker, "skipped_oversize")
    /\ gaps' = gaps \union {Target(i, "oversize", 0)}
    /\ NextSegment
    /\ UNCHANGED <<config, segs, used, stop, buf, walk, now, searched>>

\* The read raises, or returns nothing.
ReadFails ==
    /\ pc = "read" /\ segs[i] <= config.max_seg_scan
    /\ tracker' = Note(tracker, "read_failed")
    /\ gaps' = gaps \union {Target(i, "read_failed", 0)}
    /\ NextSegment
    /\ UNCHANGED <<config, segs, used, stop, buf, walk, now, searched>>

\* Mutant: the walk's segment is recorded only when the walk completes.
ReadThenScan ==
    /\ pc = "read" /\ segs[i] <= config.max_seg_scan
    /\ \E n \in 1..segs[i] : \E m \in SUBSET (Keys \X (0..(n - 1))) :
         /\ Cardinality(m) <= MaxMarks
         /\ buf' = [len |-> n, marks |-> m]
         /\ used' = [used EXCEPT !.scanned = @ + n]
         /\ tracker' = IF n < segs[i] THEN NoteShortRead(tracker) ELSE tracker
         /\ gaps' = IF n < segs[i] THEN gaps \union {Target(i, "short_read", n)} ELSE gaps
    /\ walk' = NoWalk /\ pc' = "walk"
    /\ UNCHANGED <<config, segs, i, stop, now, searched>>

\* Data comes back, possibly short; the segment is scanned from here on,
\* whatever stops its walk.
Read ==
    /\ pc = "read" /\ segs[i] <= config.max_seg_scan
    /\ \E n \in 1..segs[i] : \E m \in SUBSET (Keys \X (0..(n - 1))) :
         /\ Cardinality(m) <= MaxMarks
         /\ buf' = [len |-> n, marks |-> m]
         /\ used' = [used EXCEPT !.scanned = @ + n]
         /\ tracker' = Note(IF n < segs[i] THEN NoteShortRead(tracker) ELSE tracker, "scanned")
         /\ gaps' = IF n < segs[i] THEN gaps \union {Target(i, "short_read", n)} ELSE gaps
    /\ walk' = NoWalk /\ pc' = "walk"
    /\ UNCHANGED <<config, segs, i, stop, now, searched>>

Ahead == {x \in walk.start..(buf.len - 1) : <<walk.key, x>> \in buf.marks}

\* _resource_kind_and_consumed, with the counts as the caller has left them.
Exhausted(u) == CASE u.candidates > config.max_candidates -> <<"max_candidates", u.candidates>>
                  [] u.candidates <= config.max_candidates
                     /\ u.decoded > config.max_decoded_bytes -> <<"max_decoded_bytes", u.decoded>>
                  [] OTHER -> IF Late THEN <<"scan_deadline_seconds", Elapsed>> ELSE <<>>

\* The walk finds the next marker of the current key; the search itself covers
\* the bytes before it.
Find ==
    /\ pc = "walk" /\ Ahead # {}
    /\ walk' = [walk EXCEPT !.idx = Min(Ahead)]
    /\ searched' = [searched EXCEPT ![i][walk.key] = Min(Ahead)]
    /\ used' = [used EXCEPT !.candidates = @ + 1]
    /\ pc' = "found"
    /\ UNCHANGED <<config, segs, i, tracker, gaps, stop, buf, now>>

\* Budgets are checked before the candidate is decoded ...
BeforeDecode ==
    /\ pc = "found"
    /\ LET e == Exhausted(used)
       IN  IF e # <<>> THEN Stop(e[1], e[2], i, TRUE, StopCursor(FALSE))
           ELSE pc' = "decode" /\ UNCHANGED stop
    /\ UNCHANGED <<config, segs, i, tracker, gaps, used, buf, walk, now, searched>>

\* ... the candidate is decoded and judged; a configuration at an address not
\* seen before is a hit, and the hit cap is checked at once ...
Decode ==
    /\ pc = "decode"
    /\ \E n \in Consumptions, new \in BOOLEAN :
         /\ used' = [used EXCEPT !.decoded = @ + n,
                                 !.hits = IF new THEN @ + 1 ELSE @]
         /\ searched' = [searched EXCEPT ![i][walk.key] = walk.idx + 1]
         /\ IF new /\ used'.hits >= config.max_hits
            THEN Stop("max_hits", used'.hits, i, TRUE, StopCursor(TRUE))
            ELSE pc' = "decoded" /\ UNCHANGED stop
    /\ UNCHANGED <<config, segs, i, tracker, gaps, buf, walk, now>>

\* ... and the budgets again after it, in case no iteration follows.
AfterDecode ==
    /\ pc = "decoded"
    /\ LET e == Exhausted(used)
       IN  IF e # <<>> THEN Stop(e[1], e[2], i, TRUE, StopCursor(TRUE)) /\ UNCHANGED walk
           ELSE /\ walk' = [walk EXCEPT !.start = walk.idx + 1]
                /\ pc' = "walk" /\ UNCHANGED stop
    /\ UNCHANGED <<config, segs, i, tracker, gaps, used, buf, now, searched>>

\* Mutant: the passes over the keys start again after the last.
NextKeyWraps ==
    /\ pc = "walk" /\ Ahead = {}
    /\ searched' = [searched EXCEPT ![i][walk.key] = buf.len]
    /\ walk' = [key |-> (walk.key % LastKey) + 1, start |-> 0, idx |-> 0]
    /\ UNCHANGED <<config, segs, i, pc, tracker, gaps, used, stop, buf, now>>

\* No marker of this key is left: the next key's pass begins.
NextKey ==
    /\ pc = "walk" /\ Ahead = {}
    /\ searched' = [searched EXCEPT ![i][walk.key] = buf.len]
    /\ IF walk.key = LastKey THEN pc' = "after" /\ UNCHANGED walk
       ELSE walk' = [key |-> walk.key + 1, start |-> 0, idx |-> 0] /\ UNCHANGED pc
    /\ UNCHANGED <<config, segs, i, tracker, gaps, used, stop, buf, now>>

\* Mutant: the late check after a segment blames the segment just finished.
AfterSegmentSame ==
    /\ pc = "after"
    /\ IF Late THEN Stop("scan_deadline_seconds", Elapsed, i, FALSE, Unmeasured) /\ UNCHANGED i
       ELSE NextSegment /\ UNCHANGED stop
    /\ UNCHANGED <<config, segs, tracker, gaps, used, buf, walk, now, searched>>

\* After a whole segment: a deadline that passed leaves only later ones behind.
AfterSegment ==
    /\ pc = "after"
    /\ IF Late THEN Stop("scan_deadline_seconds", Elapsed, i + 1, FALSE, Unmeasured) /\ UNCHANGED i
       ELSE NextSegment /\ UNCHANGED stop
    /\ UNCHANGED <<config, segs, tracker, gaps, used, buf, walk, now, searched>>

LeftBehind == IF stop = NoStop THEN {} ELSE stop.index..Len(segs)

\* Mutant: the segment at the stop counts as reached.
BudgetStopLater ==
    {Target(s, "budget", 0) : s \in LeftBehind \ {stop.index}}

\* budget_stop_targets: only the first segment can have been begun.
BudgetStopTargets ==
    {Target(s, "budget", IF s = stop.index /\ stop.started THEN stop.offset ELSE 0) :
        s \in LeftBehind}

\* Mutant: segments left behind never join the scope.
ScopeIgnored == tracker

\* Every target left behind joins the scope, the one already begun included:
\* the extents noted one by one add up to what the total gains after the stop.
ScopeWithUnreached ==
    IF LeftBehind = {} THEN tracker
    ELSE NoteUnreachedExtent(tracker, Total(segs, Len(segs)) - Total(segs, stop.index - 1))

Publish ==
    /\ pc = "stopped" \/ (pc = "top" /\ i > Len(segs))
    /\ gaps' = gaps \union BudgetStopTargets
    /\ tracker' = ScopeWithUnreached
    /\ pc' = "done"
    /\ UNCHANGED <<config, segs, i, used, stop, buf, walk, now, searched>>

Tick == /\ pc # "done" /\ now < MaxTime /\ now' = now + 1
        /\ UNCHANGED <<config, segs, i, pc, tracker, gaps, used, stop, buf, walk, searched>>

Scan == \/ Top \/ Oversize \/ ReadFails \/ Read \/ Find \/ BeforeDecode \/ Decode
        \/ AfterDecode \/ NextKey \/ AfterSegment \/ Publish

Next == Scan \/ Tick

Spec == Init /\ [][Next]_vars

\* One thread runs the loop; nothing suspends it for ever.
FairSpec == Spec /\ WF_vars(Scan)

------------------------------------------------------------------------------
Examined == Nat \union {Unmeasured}

\* The shape of the loop's state, and a tracker that is still one.
Typed ==
    /\ config \in Configs /\ segs \in Seq(Nat \ {0}) /\ i \in 1..(Len(segs) + 1)
    /\ pc \in {"top", "read", "walk", "found", "decode", "decoded", "after", "stopped", "done"}
    /\ tracker \in Tracker /\ now \in 0..MaxTime
    /\ used \in [candidates: Nat, decoded: Nat, scanned: Nat, hits: Nat]
    /\ gaps \subseteq [seg: 1..Len(segs),
                       code: {"oversize", "read_failed", "short_read", "budget"},
                       examined: Examined]
    /\ stop \in [kind: Kinds \union {"none"}, index: 0..(Len(segs) + 1), offset: Examined,
                 started: BOOLEAN, consumed: Nat]
    /\ walk \in [key: Keys, start: Nat, idx: Nat]

\* Where the walk stands: its data is no longer than its segment, its cursor
\* and its candidate lie inside the data, and a stop names a place of the dump.
Placed ==
    /\ pc \in {"walk", "found", "decode", "decoded", "after"} =>
          i <= Len(segs) /\ buf.len \in 1..segs[i]
    /\ pc = "walk" => walk.start <= buf.len
    /\ pc \in {"found", "decode", "decoded"} => walk.idx < buf.len
    /\ stop.started => /\ stop.index \in 1..Len(segs)
                       /\ stop.offset # Unmeasured => stop.offset <= segs[stop.index]

\* The state is well formed, and no position of the walk or of a stop leaves
\* the segment it is in.
TypeOK == Typed /\ Placed

Done == pc = "done"
Bytes == UNION {{s} \X (0..(segs[s] - 1)) : s \in 1..Len(segs)}
Searched(s, o) == \A k \in Keys : o < searched[s][k]
Measured == {g \in gaps : g.examined # Unmeasured}
Named(g) == {g.seg} \X (g.examined..(segs[g.seg] - 1))

\* No byte goes missing in silence: once the scan has published, every byte was
\* searched for both keys or lies in a gap, measured or not.
EveryByteNamed ==
    Done => \A b \in Bytes : \/ Searched(b[1], b[2])
                             \/ \E g \in gaps : /\ g.seg = b[1]
                                                /\ g.examined = Unmeasured \/ b \in Named(g)

\* A measured gap is exact: it names no byte that was searched.
ResidualIsExact == Done => \A g \in Measured : \A b \in Named(g) : ~Searched(b[1], b[2])

\* Every segment taken into scope has exactly one outcome whichever of the
\* seven exits of the loop body it left by.
LedgerCloses == Done => Reconciled(tracker)

\* The published scale covers the whole dump and every gap measured on it.
ScaleCoversGaps ==
    Done => /\ EligibleBytes(tracker) >= Cardinality(UNION {Named(g) : g \in Measured})
            /\ EligibleBytes(tracker) >= Cardinality(Bytes)

\* The comment on note_unreached_extent: the targets of a budget stop never
\* became eligible, so the scale counts each captured byte once.
ScaleCountsOnce == Done => EligibleBytes(tracker) = Cardinality(Bytes)

\* The budget the scan names is the one that ran out, and no other was overrun
\* by more than the one candidate in hand.
StopIsTrue ==
    /\ stop.kind = "scan_deadline_seconds" => stop.consumed > config.scan_deadline_seconds
    /\ stop.kind = "max_total_scanned_bytes" =>
          used.scanned + segs[stop.index] > config.max_total_scanned_bytes
    /\ stop.kind = "max_candidates" => stop.consumed = config.max_candidates + 1
    /\ stop.kind = "max_decoded_bytes" => stop.consumed > config.max_decoded_bytes
    /\ stop.kind = "max_hits" <=> used.hits = config.max_hits
    /\ used.scanned <= config.max_total_scanned_bytes /\ used.hits <= config.max_hits
    /\ used.candidates <= config.max_candidates + 1

\* What the scan publishes about itself adds up: outcomes, scale and budget.
BooksClose == LedgerCloses /\ ScaleCoversGaps /\ StopIsTrue

\* However many markers a dump holds, the scan ends.
ScanEnds == <>Done
==============================================================================
