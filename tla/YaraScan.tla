------------------------------- MODULE YaraScan -------------------------------
(***************************************************************************)
(* The whole-scan loop of dumpex.hunt.yara_hunt.scanner: every captured    *)
(* segment is read and matched against every compiled rule file, under a   *)
(* deadline, a byte budget and a cap on hits, while the clock runs.  A     *)
(* match() call is one step that takes time and can time out or fail; how  *)
(* far it got is never known.                                              *)
(***************************************************************************)
EXTENDS Sizes, FiniteSets

CONSTANTS
    Dumps,       \* the segment size sequences considered, empty segments included
    Configs,     \* the YaraConfig values considered
    RuleFiles,   \* number of compiled rule files
    Unmeasured,  \* Python's None: an extent nobody knows
    MaxMatches,  \* bound: matches of one match() call
    MaxTime      \* bound: the clock

Config == [max_seg_scan: Nat, max_total_bytes_scanned: Nat, max_total_hits: Nat,
           scan_deadline_seconds: Nat]
Rules  == 1..RuleFiles

ASSUME YaraAssumption ==
    /\ \A d \in Dumps : d \in Seq(Nat)
    /\ Configs \subseteq Config
    /\ RuleFiles \in Nat \ {0} /\ MaxMatches \in Nat /\ MaxTime \in Nat
    /\ Unmeasured \notin Nat

VARIABLES
    config,   \* the limits
    segs,     \* sizes of the segments with an extent
    s,        \* seg_index
    pc,       \* where the loop bodies are
    rule,     \* rule_index, from 1
    pending,  \* matches of the last call not yet looked at
    hits,     \* all_hits
    scanned,  \* segments counted as scanned
    total,    \* total_bytes_scanned
    gaps,     \* targets named so far: [seg, code, examined]
    stop,     \* the first budget exhaustion
    cut,      \* truncated_stop_index, 0 while not truncated
    now,      \* time.monotonic()
    got,      \* history: bytes each segment's read returned
    called,   \* history: segments given to a match() call
    ran       \* history: rule files whose every match on the segment was looked at

vars == <<config, segs, s, pc, rule, pending, hits, scanned, total, gaps, stop, cut, now,
          got, called, ran>>

NoStop == [kind |-> "none", consumed |-> 0, index |-> 0, started |-> FALSE]

Init ==
    /\ config \in Configs
    /\ \E d \in Dumps : segs = WithExtent(d)
    /\ s = 1 /\ pc = "top" /\ rule = 1 /\ pending = 0
    /\ hits = 0 /\ scanned = 0 /\ total = 0
    /\ gaps = {} /\ stop = NoStop /\ cut = 0 /\ now = 0
    /\ got = [q \in 1..Len(segs) |-> 0] /\ called = {}
    /\ ran = [q \in 1..Len(segs) |-> {}]

Late == now > config.scan_deadline_seconds

Target(q, code, examined) == [seg |-> q, code |-> code, examined |-> examined]

\* _mark_budget_exhausted: the first exhaustion keeps its place and its reason.
\* One that leaves the current segment complete starts at the next.
MarkBudgetExhausted(kind, consumed, affected, started) ==
    stop' = IF stop # NoStop THEN stop
            ELSE [kind |-> kind, consumed |-> consumed,
                  index |-> IF affected THEN s ELSE s + 1, started |-> started /\ affected]

\* Mutant: the loop advances twice, skipping a segment.
SkipSegment == s' = s + 2 /\ pc' = "top"

NextSegment == s' = s + 1 /\ pc' = "top"

\* Mutant: only what was already read counts against the byte budget.
Overdrawn == total > config.max_total_bytes_scanned

OverBudget == total + segs[s] > config.max_total_bytes_scanned

\* Before a segment: the deadline, its size, then the planned read.
Top ==
    /\ pc = "top" /\ s <= Len(segs)
    /\ LET oversize == segs[s] > config.max_seg_scan
       IN  \/ /\ Late /\ MarkBudgetExhausted("scan_deadline_seconds", now, TRUE, FALSE)
              /\ pc' = "stopped" /\ UNCHANGED <<s, gaps>>
           \/ /\ ~Late /\ oversize /\ gaps' = gaps \union {Target(s, "oversize", 0)}
              /\ NextSegment /\ UNCHANGED stop
           \/ /\ ~Late /\ ~oversize /\ OverBudget
              /\ MarkBudgetExhausted("max_total_bytes_scanned", total, TRUE, FALSE)
              /\ pc' = "stopped" /\ UNCHANGED <<s, gaps>>
           \/ /\ ~Late /\ ~oversize /\ ~OverBudget
              /\ pc' = "read" /\ UNCHANGED <<s, gaps, stop>>
    /\ UNCHANGED <<config, segs, rule, pending, hits, scanned, total, cut, now, got, called, ran>>

\* The read raises, or returns nothing.
ReadFails ==
    /\ pc = "read"
    /\ gaps' = gaps \union {Target(s, "read_failed", 0)}
    /\ NextSegment
    /\ UNCHANGED <<config, segs, rule, pending, hits, scanned, total, stop, cut, now, got, called, ran>>

\* Data comes back, clipped to the segment, possibly short.
Read ==
    /\ pc = "read"
    /\ \E n \in 1..segs[s] :
         /\ got' = [got EXCEPT ![s] = n]
         /\ total' = total + n
         /\ gaps' = IF n < segs[s] THEN gaps \union {Target(s, "short_read", n)} ELSE gaps
    /\ scanned' = scanned + 1
    /\ rule' = 1 /\ pc' = "rule"
    /\ UNCHANGED <<config, segs, s, pending, hits, stop, cut, now, called, ran>>

\* A rule is only tried with time remaining; at the deadline itself there is
\* none, though the outer loop still goes on to the next segment.
StartRule ==
    /\ pc = "rule" /\ rule <= RuleFiles
    /\ IF now >= config.scan_deadline_seconds
       THEN /\ MarkBudgetExhausted("scan_deadline_seconds", now, TRUE, TRUE)
            /\ NextSegment /\ UNCHANGED called
       ELSE /\ called' = called \union {s}
            /\ pc' = "match" /\ UNCHANGED <<s, stop>>
    /\ UNCHANGED <<config, segs, rule, pending, hits, scanned, total, gaps, cut, now, got, ran>>

\* Mutant: a deadline noticed after a rule spares the segment it was run on.
LateAfterSegment == IF Late THEN MarkBudgetExhausted("scan_deadline_seconds", now, FALSE, TRUE)
                    ELSE UNCHANGED stop

\* Mutant: a deadline noticed after the last rule still names the segment.
LateInSegment == IF Late THEN MarkBudgetExhausted("scan_deadline_seconds", now, TRUE, TRUE)
                 ELSE UNCHANGED stop

\* After a call: the rules not yet tried are what a passed deadline costs this
\* segment.
NoticeDeadline == IF Late THEN MarkBudgetExhausted("scan_deadline_seconds", now, rule < RuleFiles, TRUE)
                  ELSE UNCHANGED stop

\* Mutant: a call that timed out is tried again.
RetryRule ==
    /\ pc = "match"
    /\ \E code \in {"timed_out", "match_failed"} :
         gaps' = gaps \union {Target(s, code, Unmeasured)}
    /\ NoticeDeadline
    /\ IF Late THEN NextSegment /\ UNCHANGED rule
       ELSE pc' = "rule" /\ UNCHANGED <<s, rule>>
    /\ UNCHANGED <<config, segs, pending, hits, scanned, total, cut, now, got, called, ran>>

\* match() raises, for a timeout or anything else.
MatchFails ==
    /\ pc = "match"
    /\ \E code \in {"timed_out", "match_failed"} :
         gaps' = gaps \union {Target(s, code, Unmeasured)}
    /\ NoticeDeadline
    /\ IF Late THEN NextSegment /\ UNCHANGED rule
       ELSE rule' = rule + 1 /\ pc' = "rule" /\ UNCHANGED s
    /\ UNCHANGED <<config, segs, pending, hits, scanned, total, cut, now, got, called, ran>>

\* match() returns; its matches are looked at even if the deadline has passed.
Matched ==
    /\ pc = "match"
    /\ pending' \in 0..MaxMatches
    /\ NoticeDeadline
    /\ pc' = "hits"
    /\ UNCHANGED <<config, segs, s, rule, hits, scanned, total, gaps, cut, now, got, called, ran>>

\* One match: its memory context keeps it as a hit, or suppresses it.
Hit ==
    /\ pc = "hits" /\ pending > 0 /\ hits < config.max_total_hits
    /\ pending' = pending - 1
    /\ hits' \in {hits, hits + 1}
    /\ UNCHANGED <<config, segs, s, pc, rule, scanned, total, gaps, stop, cut, now, got, called, ran>>

\* _mark_truncated: a match beyond the cap ends the scan.
Truncate ==
    /\ pc = "hits" /\ pending > 0 /\ hits >= config.max_total_hits
    /\ cut' = s /\ pending' = 0 /\ pc' = "stopped"
    /\ UNCHANGED <<config, segs, s, rule, hits, scanned, total, gaps, stop, now, got, called, ran>>

\* All matches were looked at: the next rule, unless a budget is exhausted.
RuleDone ==
    /\ pc = "hits" /\ pending = 0
    /\ ran' = [ran EXCEPT ![s] = @ \union {rule}]
    /\ IF stop # NoStop THEN NextSegment /\ UNCHANGED rule
       ELSE rule' = rule + 1 /\ pc' = "rule" /\ UNCHANGED s
    /\ UNCHANGED <<config, segs, pending, hits, scanned, total, gaps, stop, cut, now, got, called>>

SegmentDone ==
    /\ pc = "rule" /\ rule > RuleFiles
    /\ NextSegment
    /\ UNCHANGED <<config, segs, rule, pending, hits, scanned, total, gaps, stop, cut, now, got, called, ran>>

\* budget_stop_targets: every segment from the stop on, the first unmeasured if
\* it had been started.
StopTargets(code, first, started) ==
    {Target(q, code, IF q = first /\ started THEN Unmeasured ELSE 0) : q \in first..Len(segs)}

Publish ==
    /\ pc = "stopped" \/ (pc = "top" /\ s > Len(segs))
    /\ gaps' = gaps \union (IF cut = 0 THEN {} ELSE StopTargets("truncated", cut, TRUE))
                    \union (IF stop = NoStop THEN {}
                            ELSE StopTargets("budget", stop.index, stop.started))
    /\ pc' = "done"
    /\ UNCHANGED <<config, segs, s, rule, pending, hits, scanned, total, stop, cut, now, got, called, ran>>

Tick == /\ pc # "done" /\ now < MaxTime /\ now' = now + 1
        /\ UNCHANGED <<config, segs, s, pc, rule, pending, hits, scanned, total, gaps, stop, cut,
                       got, called, ran>>

Scan == \/ Top \/ ReadFails \/ Read \/ StartRule \/ MatchFails \/ Matched \/ Hit \/ Truncate
        \/ RuleDone \/ SegmentDone \/ Publish

Next == Scan \/ Tick

Spec == Init /\ [][Next]_vars

\* One thread runs the loop; nothing suspends it for ever.
FairSpec == Spec /\ WF_vars(Scan)

------------------------------------------------------------------------------
\* The loop stays inside the segments and the rule files, and a target names a
\* segment of the dump.
TypeOK ==
    /\ config \in Configs /\ segs \in Seq(Nat \ {0}) /\ s \in 1..(Len(segs) + 1)
    /\ pc \in {"top", "read", "rule", "match", "hits", "stopped", "done"}
    /\ rule \in 1..(RuleFiles + 1) /\ pending \in 0..MaxMatches
    /\ hits \in Nat /\ scanned \in 0..Len(segs) /\ total \in Nat /\ now \in 0..MaxTime
    /\ gaps \subseteq [seg: 1..Len(segs),
                       code: {"oversize", "read_failed", "short_read", "timed_out",
                              "match_failed", "truncated", "budget"},
                       examined: Nat \union {Unmeasured}]
    /\ stop \in [kind: {"none", "scan_deadline_seconds", "max_total_bytes_scanned"}, consumed: Nat,
                 index: 0..(Len(segs) + 1), started: BOOLEAN]
    /\ cut \in 0..Len(segs) /\ called \subseteq 1..Len(segs)
    /\ got \in [1..Len(segs) -> Nat] /\ ran \in [1..Len(segs) -> SUBSET Rules]

Done == pc = "done"
Measured == {g \in gaps : g.examined # Unmeasured}
Named(g) == {x \in 0..(segs[g.seg] - 1) : g.examined = Unmeasured \/ x >= g.examined}

\* No rule is silently not applied to a byte: once the scan has published, each
\* rule file has looked at each byte, all its matches were judged, or the byte
\* lies in a gap.
EveryRuleNamed ==
    Done => \A q \in 1..Len(segs), k \in Rules : \A x \in 0..(segs[q] - 1) :
               \/ k \in ran[q] /\ x < got[q]
               \/ \E g \in gaps : g.seg = q /\ x \in Named(g)

\* Gaps do not overstate: a measured one holds no byte given to a rule, and an
\* unmeasured one names a segment some rule was not finished on.
GapsAreReal ==
    Done => /\ \A g \in Measured : g.seg \in called => \A x \in Named(g) : x >= got[g.seg]
            /\ \A g \in gaps \ Measured : ran[g.seg] # Rules

\* The budget named is one that ran out, and none is overrun.
StopIsTrue ==
    /\ stop.kind = "scan_deadline_seconds" => stop.consumed >= config.scan_deadline_seconds
    /\ stop.kind = "max_total_bytes_scanned" =>
          total + segs[stop.index] > config.max_total_bytes_scanned
    /\ total <= config.max_total_bytes_scanned /\ hits <= config.max_total_hits
    /\ cut # 0 => hits = config.max_total_hits

\* Neither a gap nor the budget it is blamed on is made up.
StopsAreReal == GapsAreReal /\ StopIsTrue

\* Timeouts, failures and caps in any order: the scan ends.
ScanEnds == <>Done
===============================================================================
