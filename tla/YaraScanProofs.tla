---------------------------- MODULE YaraScanProofs ----------------------------
(***************************************************************************)
(* For every dump, every limit, any number of rule files and matches and   *)
(* any clock: the loop of YaraScan never drops a byte or a rule without    *)
(* naming it, and names no gap and no exhausted budget that is not real.   *)
(***************************************************************************)
EXTENDS YaraScan, SizesProofs

InRules == pc \in {"rule", "match", "hits"}
Reached == InRules \/ pc \in {"stopped", "done"}

\* Where the loop is, and what a phase has established about the counters.
Phase ==
    /\ pc \in {"read", "stopped"} \/ InRules => s <= Len(segs)
    /\ pc \in {"match", "hits"} => rule <= RuleFiles
    /\ pc = "read" => total + segs[s] <= config.max_total_bytes_scanned
    /\ scanned <= (IF Reached THEN s ELSE s - 1)
    /\ cut # 0 => pc \in {"stopped", "done"} /\ cut = s
    /\ pc = "stopped" => cut = s \/ (stop # NoStop /\ stop.index <= s)

\* What has not been reached has no history; the rules that ran on the current
\* segment are among those already passed.
Fresh ==
    /\ \A q \in 1..Len(segs) : q > s \/ (q = s /\ pc \in {"top", "read"})
                                 => q \notin called /\ ran[q] = {} /\ got[q] = 0
    /\ InRules => ran[s] \subseteq 1..(rule - 1)
    /\ cut # 0 => RuleFiles \notin ran[cut]

\* A budget that ran out: nothing is matched from its place on.
StopFixed ==
    stop # NoStop =>
      /\ stop.kind # "none" /\ stop.index >= 1
      /\ pc \in {"stopped", "done"} \/ now >= config.scan_deadline_seconds
      /\ pc # "match"
      /\ \/ stop.index <= s
         \/ stop.index = s + 1 /\ ((pc = "hits" /\ rule = RuleFiles) \/ cut = s)
      /\ \A q \in called : q <= stop.index /\ (q = stop.index => stop.started)
      /\ stop.started => /\ stop.index <= Len(segs) /\ RuleFiles \notin ran[stop.index]
                         /\ pc = "hits" /\ stop.index = s => rule < RuleFiles
      /\ stop.kind = "max_total_bytes_scanned" => pc \in {"stopped", "done"}

Unfinished(g) == \E k \in Rules : k \notin ran[g.seg] /\ (InRules /\ g.seg = s => k < rule)

\* The gaps named before the scan publishes.
GapsSoFar ==
    \A g \in gaps :
      /\ g.seg <= s /\ (g.seg = s => pc \notin {"top", "read"})
      /\ g.examined # Unmeasured /\ g.seg \in called => g.examined >= got[g.seg]
      /\ InRules /\ g.seg = s => g.examined \in {got[s], Unmeasured}
      /\ g.examined = Unmeasured => Unfinished(g)

\* A byte a rule file did not look at lies in a gap.
Covered(q) == \A k \in Rules : \A x \in 0..(segs[q] - 1) :
                 \/ k \in ran[q] /\ x < got[q]
                 \/ \E g \in gaps : g.seg = q /\ x \in Named(g)

\* The segments behind the loop are covered already, or will be by the stop.
Behind == \A q \in 1..(s - 1) : Covered(q) \/ (stop # NoStop /\ stop.index <= q)

\* The current one is covered as far as its bytes came back and its rules went.
Current ==
    InRules =>
      /\ \A x \in 0..(segs[s] - 1) : x >= got[s] => \E g \in gaps : g.seg = s /\ x \in Named(g)
      /\ \A k \in 1..(rule - 1) : \/ k \in ran[s]
                                  \/ \E g \in gaps : g.seg = s /\ g.examined = Unmeasured

IInv == /\ TypeOK /\ Phase /\ Fresh /\ StopFixed /\ StopIsTrue
        /\ ~Done => GapsSoFar /\ Behind /\ Current
        /\ EveryRuleNamed /\ GapsAreReal
------------------------------------------------------------------------------
StopRecord == [kind: {"none", "scan_deadline_seconds", "max_total_bytes_scanned"}, consumed: Nat,
               index: 0..(Len(segs) + 1), started: BOOLEAN]

GapRecord == [seg: 1..Len(segs),
              code: {"oversize", "read_failed", "short_read", "timed_out",
                     "match_failed", "truncated", "budget"},
              examined: Nat \union {Unmeasured}]

LEMMA Bounds ==
    ASSUME TypeOK
    PROVE  /\ config.max_seg_scan \in Nat /\ config.max_total_bytes_scanned \in Nat
           /\ config.max_total_hits \in Nat /\ config.scan_deadline_seconds \in Nat
           /\ Len(segs) \in Nat /\ s \in Nat /\ s >= 1 /\ s <= Len(segs) + 1
           /\ RuleFiles \in Nat /\ RuleFiles >= 1
           /\ rule \in Nat /\ rule >= 1 /\ rule <= RuleFiles + 1
           /\ now \in Nat /\ total \in Nat /\ hits \in Nat /\ scanned \in Nat /\ cut \in Nat
           /\ \A q \in 1..Len(segs) : /\ segs[q] \in Nat /\ segs[q] > 0 /\ got[q] \in Nat
                                      /\ ran[q] \subseteq 1..RuleFiles
           /\ Unmeasured \notin Nat
<1>1. config \in Config
  BY YaraAssumption DEF TypeOK
<1>2. RuleFiles \in Nat /\ RuleFiles >= 1 /\ MaxTime \in Nat /\ Unmeasured \notin Nat
  BY YaraAssumption
<1>3. segs \in Seq(Nat \ {0})
  BY DEF TypeOK
<1>4. Len(segs) \in Nat /\ \A q \in 1..Len(segs) : segs[q] \in Nat /\ segs[q] > 0
  BY <1>3
<1>5. \A q \in 1..Len(segs) : got[q] \in Nat /\ ran[q] \subseteq 1..RuleFiles
  BY DEF TypeOK, Rules
<1>6. /\ config.max_seg_scan \in Nat /\ config.max_total_bytes_scanned \in Nat
      /\ config.max_total_hits \in Nat /\ config.scan_deadline_seconds \in Nat
  BY <1>1 DEF Config
<1>7. /\ s \in 1..(Len(segs) + 1) /\ rule \in 1..(RuleFiles + 1) /\ now \in 0..MaxTime
      /\ total \in Nat /\ hits \in Nat /\ scanned \in 0..Len(segs) /\ cut \in 0..Len(segs)
  BY DEF TypeOK
<1> QED BY <1>2, <1>4, <1>5, <1>6, <1>7

\* What a noticed exhaustion does: the first one stays.
LEMMA MarkEffect ==
    ASSUME TypeOK, s <= Len(segs), NEW consumed \in Nat, NEW affected \in BOOLEAN,
           NEW started \in BOOLEAN,
           NEW kind \in {"scan_deadline_seconds", "max_total_bytes_scanned"},
           MarkBudgetExhausted(kind, consumed, affected, started)
    PROVE  /\ stop' \in StopRecord /\ stop' # NoStop
           /\ stop # NoStop => stop' = stop
           /\ stop = NoStop => /\ stop'.kind = kind /\ stop'.consumed = consumed
                               /\ stop'.index = IF affected THEN s ELSE s + 1
                               /\ stop'.started = (started /\ affected)
<1>1. CASE stop # NoStop
  <2>1. stop' = stop
    BY <1>1 DEF MarkBudgetExhausted
  <2>2. stop \in StopRecord
    BY DEF TypeOK, StopRecord
  <2> QED BY <1>1, <2>1, <2>2
<1>2. CASE stop = NoStop
  <2>1. stop' = [kind |-> kind, consumed |-> consumed,
                 index |-> IF affected THEN s ELSE s + 1, started |-> started /\ affected]
    BY <1>2 DEF MarkBudgetExhausted
  <2>2. (IF affected THEN s ELSE s + 1) \in 0..(Len(segs) + 1)
    BY SMTT(30), Bounds
  <2>3. stop' \in StopRecord
    BY <2>1, <2>2 DEF StopRecord
  <2>4. stop'.kind # "none"
    BY <2>1
  <2>5. NoStop.kind = "none"
    BY DEF NoStop
  <2> QED BY <1>2, <2>1, <2>3, <2>4, <2>5
<1> QED BY <1>1, <1>2

\* A gap of the segment the loop is at is a target.
LEMMA GapType ==
    ASSUME TypeOK, s <= Len(segs), NEW examined \in Nat \union {Unmeasured},
           NEW code \in {"oversize", "read_failed", "short_read", "timed_out", "match_failed"}
    PROVE  /\ Target(s, code, examined) \in GapRecord
           /\ Target(s, code, examined).seg = s
           /\ Target(s, code, examined).examined = examined
BY Bounds DEF Target, GapRecord

\* A byte once covered stays covered, so the segments behind the loop do, and
\* the one it leaves joins them.
LEMMA BehindGrows ==
    ASSUME TypeOK, Behind, segs' = segs, gaps \subseteq gaps',
           s' \in {s, s + 1}, s <= Len(segs) \/ s' = s,
           s' = s + 1 => \A q \in 1..Len(segs) :
                           q = s => Covered(q)' \/ (stop' # NoStop /\ stop'.index <= q),
           stop # NoStop => stop' = stop,
           \A q \in 1..(s - 1) : ran[q] \subseteq ran'[q] /\ got'[q] = got[q]
    PROVE  Behind'
<1> SUFFICES ASSUME NEW q \in 1..(s' - 1)
             PROVE  Covered(q)' \/ (stop' # NoStop /\ stop'.index <= q)
  BY DEF Behind
<1>1. CASE q \in 1..(s - 1)
  <2>1. CASE stop # NoStop /\ stop.index <= q
    BY <2>1
  <2>2. CASE Covered(q)
    BY <1>1, <2>2 DEF Covered, Named
  <2> QED BY <1>1, <2>1, <2>2 DEF Behind
<1>2. CASE q \notin 1..(s - 1)
  <2>1. s' = s + 1 /\ q = s /\ s \in 1..Len(segs)
    BY SMTT(30), <1>2, Bounds
  <2> QED BY <2>1
<1> QED BY <1>1, <1>2

\* All rules tried: the segment is covered.
LEMMA SegmentCovered ==
    ASSUME TypeOK, Current, InRules, s <= Len(segs), UNCHANGED <<segs, gaps, got>>,
           \A q \in 1..Len(segs) : q = s => ran[q] \subseteq ran'[q] /\ rule..RuleFiles \subseteq ran'[q]
    PROVE  \A q \in 1..Len(segs) : q = s => Covered(q)'
<1> SUFFICES ASSUME NEW q \in 1..Len(segs), q = s, NEW k \in Rules, NEW x \in 0..(segs[q] - 1)
             PROVE  \/ k \in ran'[q] /\ x < got[q]
                    \/ \E g \in gaps : g.seg = q /\ x \in Named(g)
  BY DEF Covered, Named
<1>1. k \in 1..(rule - 1) \/ k \in ran'[q]
  <2>1. k \in 1..(rule - 1) \/ k \in rule..RuleFiles
    BY Bounds DEF Rules
  <2>2. rule..RuleFiles \subseteq ran'[q]
    OBVIOUS
  <2> QED BY <2>1, <2>2
<1>2. segs[q] \in Nat /\ got[q] \in Nat /\ ran[q] \subseteq ran'[q]
  BY Bounds
<1>3. CASE x >= got[q]
  BY <1>3 DEF Current
<1>4. CASE x < got[q] /\ k \notin ran'[q]
  <2>1. PICK g \in gaps : g.seg = s /\ g.examined = Unmeasured
    BY <1>1, <1>2, <1>4 DEF Current
  <2> QED BY <2>1 DEF Named
<1> QED BY <1>2, <1>3, <1>4

------------------------------------------------------------------------------
THEOREM InitHolds == Init => IInv
<1> SUFFICES ASSUME Init PROVE IInv
  OBVIOUS
<1>1. segs \in Seq(Nat \ {0})
  BY YaraAssumption, WithExtentType DEF Init
<1>2. /\ config \in Config /\ Configs \subseteq Config /\ MaxTime \in Nat /\ MaxMatches \in Nat
      /\ RuleFiles \in Nat /\ RuleFiles >= 1
  BY YaraAssumption DEF Init
<1>3. Len(segs) \in Nat
  BY <1>1
<1>4. stop = NoStop /\ NoStop \in StopRecord /\ NoStop.kind = "none"
  <2>1. NoStop \in StopRecord /\ NoStop.kind = "none"
    BY <1>3 DEF NoStop, StopRecord
  <2> QED BY <2>1 DEF Init
<1>5. TypeOK
  <2>1. /\ got \in [1..Len(segs) -> Nat] /\ ran \in [1..Len(segs) -> SUBSET Rules]
        /\ called \subseteq 1..Len(segs) /\ gaps = {}
    BY DEF Init
  <2>2. /\ s \in 1..(Len(segs) + 1) /\ rule \in 1..(RuleFiles + 1) /\ pending \in 0..MaxMatches
        /\ hits \in Nat /\ scanned \in 0..Len(segs) /\ total \in Nat /\ now \in 0..MaxTime
        /\ cut \in 0..Len(segs) /\ config \in Configs /\ pc = "top"
    BY <1>2, <1>3 DEF Init
  <2> QED BY <1>1, <1>4, <2>1, <2>2 DEF TypeOK, StopRecord
<1>6. Phase /\ Fresh /\ StopFixed
  BY <1>2, <1>3 DEF Init, Phase, Fresh, StopFixed, InRules, Reached
<1>7. StopIsTrue
  <2>1. total = 0 /\ hits = 0 /\ cut = 0
    BY DEF Init
  <2> QED BY <1>4, <1>5, <2>1, Bounds DEF StopIsTrue
<1>8. GapsSoFar /\ Behind /\ Current /\ ~Done
  BY DEF Init, GapsSoFar, Behind, Current, InRules, Done
<1> QED BY <1>5, <1>6, <1>7, <1>8 DEF IInv, EveryRuleNamed, GapsAreReal

LEMMA TickKeeps == ASSUME IInv, Tick PROVE IInv'
<1>1. /\ now' = now + 1 /\ now < MaxTime /\ pc # "done"
      /\ UNCHANGED <<config, segs, s, pc, rule, pending, hits, scanned, total, gaps, stop, cut,
                     got, called, ran>>
  BY DEF Tick
<1>2. TypeOK'
  <2>1. now' \in 0..MaxTime
    <3>1. now \in 0..MaxTime /\ MaxTime \in Nat
      BY YaraAssumption DEF IInv, TypeOK
    <3> QED BY <1>1, <3>1
  <2> QED BY <1>1, <2>1 DEF IInv, TypeOK
<1>3. Phase' /\ Fresh' /\ StopIsTrue'
  BY <1>1 DEF IInv, Phase, Fresh, StopIsTrue, InRules, Reached
<1>4. StopFixed'
  <2>1. now \in Nat /\ config.scan_deadline_seconds \in Nat
    BY Bounds DEF IInv
  <2> QED BY <1>1, <2>1 DEF IInv, StopFixed
<1>5. GapsSoFar' /\ Behind' /\ Current' /\ ~Done'
  BY <1>1 DEF IInv, GapsSoFar, Unfinished, Behind, Covered, Named, Current, InRules, Done
<1> QED BY <1>2, <1>3, <1>4, <1>5 DEF IInv, EveryRuleNamed, GapsAreReal

\* At the top of the loop a stop ends the scan where it is.
LEMMA StopAtTop ==
    ASSUME IInv, pc = "top", s <= Len(segs), pc' = "stopped",
           NEW kind \in {"scan_deadline_seconds", "max_total_bytes_scanned"},
           NEW consumed \in Nat, MarkBudgetExhausted(kind, consumed, TRUE, FALSE),
           kind = "scan_deadline_seconds" => consumed >= config.scan_deadline_seconds,
           kind = "max_total_bytes_scanned" => total + segs[s] > config.max_total_bytes_scanned,
           UNCHANGED <<config, segs, s, gaps, rule, pending, hits, scanned, total, cut, now, got,
                       called, ran>>
    PROVE  IInv'
<1>1. /\ stop' \in StopRecord /\ stop' # NoStop
      /\ stop # NoStop => stop' = stop
      /\ stop = NoStop => /\ stop'.kind = kind /\ stop'.consumed = consumed
                          /\ stop'.index = s /\ stop'.started = FALSE
  BY MarkEffect DEF IInv
<1>2. TypeOK'
  BY <1>1 DEF IInv, TypeOK, StopRecord
<1>3. cut = 0 /\ s >= 1 /\ s \in Nat /\ scanned \in Nat
  <2>1. s >= 1 /\ s \in Nat /\ scanned \in Nat
    BY Bounds DEF IInv
  <2> QED BY <2>1 DEF IInv, Phase
<1>4. stop'.index <= s /\ stop'.index >= 1 /\ stop'.kind # "none"
  <2>1. CASE stop = NoStop
    BY <1>1, <1>3, <2>1
  <2>2. CASE stop # NoStop
    BY <1>1, <1>3, <2>2 DEF IInv, StopFixed
  <2> QED BY <2>1, <2>2
<1>5. Phase'
  BY <1>1, <1>3, <1>4 DEF IInv, Phase, InRules, Reached
<1>6. Fresh'
  BY <1>3, Bounds DEF IInv, Fresh, InRules
<1>7. called \subseteq 1..(s - 1)
  <2> SUFFICES ASSUME NEW q \in called PROVE q \in 1..(s - 1)
    OBVIOUS
  <2>1. q \in 1..Len(segs)
    BY DEF IInv, TypeOK
  <2> QED BY <2>1, Bounds DEF IInv, Fresh
<1>8. StopFixed'
  <2>1. CASE stop = NoStop
    BY <1>1, <1>3, <1>4, <1>7, <2>1 DEF StopFixed
  <2>2. CASE stop # NoStop
    BY <1>1, <1>3, <1>4, <1>7, <2>2 DEF IInv, StopFixed
  <2> QED BY <2>1, <2>2
<1>9. StopIsTrue'
  <2>1. CASE stop = NoStop
    BY <1>1, <2>1 DEF IInv, StopIsTrue
  <2>2. CASE stop # NoStop
    BY <1>1, <2>2 DEF IInv, StopIsTrue
  <2> QED BY <2>1, <2>2
<1>10. ~Done /\ ~Done'
  BY DEF Done
<1>11. Behind'
  BY <1>1, <1>10, BehindGrows DEF IInv
<1>12. GapsSoFar' /\ Current'
  BY <1>10 DEF IInv, GapsSoFar, Unfinished, Current, InRules
<1> QED BY <1>2, <1>5, <1>6, <1>8, <1>9, <1>10, <1>11, <1>12 DEF IInv, EveryRuleNamed, GapsAreReal

\* A segment that is not searched is named whole.
LEMMA SegmentSkipped ==
    ASSUME IInv, pc \in {"top", "read"}, s <= Len(segs), pc' = "top", s' = s + 1,
           NEW code \in {"oversize", "read_failed"},
           gaps' = gaps \union {Target(s, code, 0)},
           UNCHANGED <<config, segs, rule, pending, hits, scanned, total, stop, cut, now, got,
                       called, ran>>
    PROVE  IInv'
<1>1. PICK new : /\ new = Target(s, code, 0)
                 /\ new \in GapRecord /\ new.seg = s /\ new.examined = 0
  BY GapType DEF IInv
<1>2. /\ s \in Nat /\ s \in 1..Len(segs) /\ s' \in 1..(Len(segs) + 1) /\ Unmeasured # 0
      /\ Len(segs) \in Nat
  BY SMTT(30), Bounds DEF IInv
<1>3. gaps' = gaps \union {new} /\ gaps' \subseteq GapRecord
  BY <1>1 DEF IInv, TypeOK, GapRecord
<1>4. TypeOK'
  BY <1>2, <1>3 DEF IInv, TypeOK, GapRecord
<1>5. cut = 0
  BY DEF IInv, Phase
<1>6. Phase'
  BY <1>2, <1>5, Bounds DEF IInv, Phase, InRules, Reached
<1>7. Fresh'
  BY <1>2, <1>5 DEF IInv, Fresh, InRules
<1>8. StopFixed'
  <2> SUFFICES ASSUME stop # NoStop PROVE StopFixed'
    BY DEF StopFixed
  <2>1. stop.index <= s'
    <3>1. stop.index \in Nat
      BY DEF IInv, TypeOK
    <3> QED BY <1>2, <1>5, <3>1 DEF IInv, StopFixed
  <2>2. stop.kind # "max_total_bytes_scanned" /\ now >= config.scan_deadline_seconds
    BY DEF IInv, StopFixed
  <2>3. /\ stop.kind # "none" /\ stop.index >= 1
        /\ \A q \in called : q <= stop.index /\ (q = stop.index => stop.started)
        /\ stop.started => stop.index <= Len(segs) /\ RuleFiles \notin ran[stop.index]
    BY DEF IInv, StopFixed
  <2> QED BY <2>1, <2>2, <2>3 DEF StopFixed
<1>9. StopIsTrue'
  BY DEF IInv, StopIsTrue
<1>10. ~Done /\ ~Done'
  BY DEF Done
<1>11. s \notin called
  BY <1>2 DEF IInv, Fresh
<1>12. GapsSoFar'
  <2> SUFFICES ASSUME NEW g \in gaps'
               PROVE  /\ g.seg < s + 1
                      /\ g.examined # Unmeasured /\ g.seg \in called => g.examined >= got[g.seg]
                      /\ g.examined = Unmeasured => Unfinished(g)'
    BY <1>2, <1>3 DEF GapsSoFar, InRules, GapRecord
  <2>1. CASE g \in gaps
    <3>1. g.seg \in 1..Len(segs)
      BY <2>1 DEF IInv, TypeOK
    <3> QED BY <1>2, <1>10, <2>1, <3>1 DEF IInv, GapsSoFar, Unfinished, InRules
  <2>2. CASE g = new
    BY <1>1, <1>2, <1>11, <2>2
  <2> QED BY <1>3, <2>1, <2>2
<1>13. \A q \in 1..Len(segs) : q = s => Covered(q)'
  <2> SUFFICES ASSUME NEW q \in 1..Len(segs), q = s, NEW x \in 0..(segs[q] - 1)
               PROVE  \E g \in gaps' : g.seg = q /\ x \in Named(g)'
    BY DEF Covered
  <2>1. x \in Named(new)'
    <3>1. x \in 0..(segs[new.seg] - 1) /\ x >= 0
      BY <1>1
    <3> QED BY <1>1, <3>1 DEF Named
  <2>2. new \in gaps'
    BY <1>3
  <2> QED BY <1>1, <2>1, <2>2
<1>14. Behind'
  BY <1>2, <1>10, <1>13, BehindGrows DEF IInv
<1>15. Current'
  BY DEF Current, InRules
<1> QED BY <1>4, <1>6, <1>7, <1>8, <1>9, <1>10, <1>12, <1>14, <1>15
        DEF IInv, EveryRuleNamed, GapsAreReal

LEMMA TopKeeps == ASSUME IInv, Top PROVE IInv'
<1>1. CASE Late /\ MarkBudgetExhausted("scan_deadline_seconds", now, TRUE, FALSE)
           /\ pc' = "stopped" /\ UNCHANGED <<s, gaps>>
  <2>1. now \in Nat /\ now >= config.scan_deadline_seconds
    BY <1>1, Bounds DEF IInv, Late
  <2>2. /\ pc = "top" /\ s <= Len(segs)
        /\ UNCHANGED <<config, segs, s, gaps, rule, pending, hits, scanned, total, cut, now, got,
                       called, ran>>
    BY <1>1 DEF Top
  <2> QED BY <1>1, <2>1, <2>2, StopAtTop
<1>2. CASE ~Late /\ OverBudget /\ pc' = "stopped" /\ UNCHANGED <<s, gaps>>
           /\ MarkBudgetExhausted("max_total_bytes_scanned", total, TRUE, FALSE)
  BY <1>2, StopAtTop, Bounds DEF IInv, Top, OverBudget
<1>3. CASE gaps' = gaps \union {Target(s, "oversize", 0)} /\ NextSegment /\ UNCHANGED stop
  BY <1>3, SegmentSkipped DEF Top, NextSegment
<1>4. CASE ~OverBudget /\ pc' = "read" /\ UNCHANGED <<s, gaps, stop>>
  <2>1. /\ pc = "top" /\ s <= Len(segs)
        /\ UNCHANGED <<config, segs, s, rule, pending, hits, scanned, total, gaps, stop, cut, now,
                       got, called, ran>>
    BY <1>4 DEF Top
  <2>2. TypeOK'
    BY <1>4, <2>1 DEF IInv, TypeOK
  <2>3. total + segs[s] <= config.max_total_bytes_scanned
    BY SMTT(30), <1>4, <2>1, Bounds DEF IInv, OverBudget
  <2>4. Phase' /\ Fresh' /\ StopFixed' /\ StopIsTrue'
    BY <1>4, <2>1, <2>3 DEF IInv, Phase, Fresh, StopFixed, StopIsTrue, InRules, Reached
  <2>5. GapsSoFar' /\ Behind' /\ Current' /\ ~Done'
    BY <1>4, <2>1
       DEF IInv, GapsSoFar, Unfinished, Behind, Covered, Named, Current, InRules, Done
  <2> QED BY <2>2, <2>4, <2>5 DEF IInv, EveryRuleNamed, GapsAreReal
<1> QED BY <1>1, <1>2, <1>3, <1>4 DEF Top

LEMMA ReadFailsKeeps == ASSUME IInv, ReadFails PROVE IInv'
<1>1. s <= Len(segs)
  BY DEF IInv, Phase, ReadFails
<1> QED BY <1>1, SegmentSkipped DEF ReadFails, NextSegment

\* Read: what came back is counted, and what did not is named.
LEMMA ReadKeeps == ASSUME IInv, Read PROVE IInv'
<1>1. /\ pc = "read" /\ pc' = "rule" /\ rule' = 1 /\ scanned' = scanned + 1
      /\ UNCHANGED <<config, segs, s, pending, hits, stop, cut, now, called, ran>>
  BY DEF Read
<1>2. /\ s \in Nat /\ s \in 1..Len(segs) /\ Len(segs) \in Nat /\ segs[s] \in Nat /\ total \in Nat
      /\ got[s] \in Nat /\ scanned \in Nat /\ RuleFiles >= 1 /\ RuleFiles \in Nat
      /\ config.max_total_bytes_scanned \in Nat /\ Unmeasured \notin Nat
  BY SMTT(30), <1>1, Bounds DEF IInv, Phase
<1>3. PICK n \in 1..segs[s] :
        /\ got' = [got EXCEPT ![s] = n] /\ total' = total + n
        /\ gaps' = IF n < segs[s] THEN gaps \union {Target(s, "short_read", n)} ELSE gaps
  BY DEF Read
<1>4. n \in Nat /\ total' \in Nat /\ total' <= config.max_total_bytes_scanned
  BY <1>1, <1>2, <1>3 DEF IInv, Phase
<1>5. PICK new : /\ new = Target(s, "short_read", n)
                 /\ new \in GapRecord /\ new.seg = s /\ new.examined = n
  BY <1>1, <1>2, <1>4, GapType DEF IInv
<1>6. /\ gaps \subseteq gaps' /\ gaps' \subseteq gaps \union {new}
      /\ n < segs[s] => new \in gaps'
  BY <1>3, <1>5
<1>7. got' \in [1..Len(segs) -> Nat] /\ got'[s] = n /\ \A q \in 1..Len(segs) : q # s => got'[q] = got[q]
  BY <1>2, <1>3, <1>4 DEF IInv, TypeOK
<1>8. cut = 0 /\ scanned' <= s /\ s \notin called /\ ran[s] = {}
  <2>1. scanned <= s - 1 /\ cut = 0
    BY <1>1 DEF IInv, Phase, InRules, Reached
  <2>2. s \notin called /\ ran[s] = {}
    BY <1>1, <1>2 DEF IInv, Fresh
  <2> QED BY <1>1, <1>2, <2>1, <2>2
<1>9. TypeOK'
  <2>1. scanned' \in 0..Len(segs) /\ rule' \in 1..(RuleFiles + 1)
    BY <1>1, <1>2, <1>8
  <2>2. gaps' \subseteq GapRecord
    BY <1>5, <1>6 DEF IInv, TypeOK, GapRecord
  <2> QED BY <1>1, <1>4, <1>7, <2>1, <2>2 DEF IInv, TypeOK, GapRecord
<1>10. Phase'
  BY <1>1, <1>2, <1>8 DEF Phase, InRules, Reached
<1>11. Fresh'
  BY <1>1, <1>2, <1>7, <1>8 DEF IInv, Fresh, InRules
<1>12. StopFixed'
  BY <1>1, <1>2, <1>8 DEF IInv, StopFixed
<1>13. StopIsTrue'
  <2>1. stop.kind # "max_total_bytes_scanned"
    BY <1>1 DEF IInv, StopFixed, NoStop
  <2> QED BY <1>1, <1>4, <2>1 DEF IInv, StopIsTrue
<1>14. ~Done /\ ~Done'
  BY <1>1 DEF Done
<1>15. GapsSoFar'
  <2> SUFFICES ASSUME NEW g \in gaps'
               PROVE  /\ g.seg <= s
                      /\ g.examined # Unmeasured /\ g.seg \in called => g.examined >= got'[g.seg]
                      /\ g.seg = s => g.examined \in {got'[s], Unmeasured}
                      /\ g.examined = Unmeasured => Unfinished(g)'
    BY <1>1 DEF GapsSoFar
  <2>1. CASE g \in gaps
    <3>1. g.seg \in 1..Len(segs) /\ g.seg <= s /\ g.seg # s
      BY <1>1, <1>14, <2>1 DEF IInv, TypeOK, GapsSoFar
    <3> QED BY <1>1, <1>7, <1>14, <2>1, <3>1 DEF IInv, GapsSoFar, Unfinished, InRules
  <2>2. CASE g = new
    BY <1>2, <1>4, <1>5, <1>7, <1>8, <2>2
  <2> QED BY <1>6, <2>1, <2>2
<1>16. Behind'
  <2>1. \A q \in 1..(s - 1) : ran[q] \subseteq ran'[q] /\ got'[q] = got[q]
    BY <1>1, <1>2, <1>7
  <2>2. s' = s /\ s' # s + 1 /\ stop' = stop /\ segs' = segs
    BY <1>1, <1>2
  <2> QED BY <1>6, <1>14, <2>1, <2>2, BehindGrows DEF IInv
<1>17. Current'
  <2>1. ASSUME NEW x \in 0..(segs[s] - 1), x >= n PROVE new \in gaps' /\ x \in Named(new)'
    BY <1>1, <1>2, <1>4, <1>5, <1>6, <2>1 DEF Named
  <2> QED BY <1>1, <1>5, <1>7, <2>1 DEF Current
<1> QED BY <1>9, <1>10, <1>11, <1>12, <1>13, <1>14, <1>15, <1>16, <1>17
        DEF IInv, EveryRuleNamed, GapsAreReal

\* What holds wherever rules are being tried.
LEMMA Inside ==
    ASSUME IInv, InRules
    PROVE  /\ TypeOK /\ s \in Nat /\ s \in 1..Len(segs) /\ Len(segs) \in Nat /\ ~Done /\ cut = 0
           /\ scanned \in Nat /\ scanned <= s /\ ran[s] \subseteq 1..(rule - 1)
           /\ rule \in Nat /\ rule >= 1 /\ RuleFiles \in Nat /\ RuleFiles >= 1
           /\ now \in Nat /\ config.scan_deadline_seconds \in Nat /\ Unmeasured \notin Nat
           /\ \A q \in called : q \in 1..Len(segs) /\ q <= s
           /\ \A g \in gaps : g.seg \in 1..Len(segs) /\ g.seg <= s
           /\ stop.kind # "max_total_bytes_scanned"
<1>1. /\ s \in Nat /\ s \in 1..Len(segs) /\ Len(segs) \in Nat /\ scanned \in Nat
      /\ rule \in Nat /\ rule >= 1 /\ RuleFiles \in Nat /\ RuleFiles >= 1
      /\ now \in Nat /\ config.scan_deadline_seconds \in Nat /\ Unmeasured \notin Nat
  BY Bounds DEF IInv, Phase
<1>2. cut = 0 /\ scanned <= s /\ ~Done
  BY DEF IInv, Phase, InRules, Reached, Done
<1>3. ran[s] \subseteq 1..(rule - 1)
  BY DEF IInv, Fresh
<1>4. \A q \in called : q \in 1..Len(segs) /\ q <= s
  <2> SUFFICES ASSUME NEW q \in called PROVE q \in 1..Len(segs) /\ q <= s
    OBVIOUS
  <2>1. q \in 1..Len(segs)
    BY DEF IInv, TypeOK
  <2> QED BY <1>1, <2>1 DEF IInv, Fresh
<1>5. \A g \in gaps : g.seg \in 1..Len(segs) /\ g.seg <= s
  BY <1>2 DEF IInv, TypeOK, GapsSoFar
<1>6. stop.kind # "max_total_bytes_scanned"
  BY DEF IInv, StopFixed, InRules, NoStop
<1> QED BY <1>1, <1>2, <1>3, <1>4, <1>5, <1>6 DEF IInv

\* The counters no step of a rule touches keep what is known of them.
LEMMA StopStaysTrue ==
    ASSUME IInv, TypeOK', InRules, UNCHANGED <<config, segs, total, hits, cut>>,
           stop' = stop \/ (/\ stop'.kind = "scan_deadline_seconds" /\ stop'.consumed = now
                            /\ now >= config.scan_deadline_seconds)
    PROVE  StopIsTrue'
<1>1. stop'.kind # "max_total_bytes_scanned"
  BY Inside
<1>2. stop'.kind = "scan_deadline_seconds" => stop'.consumed >= config.scan_deadline_seconds
  BY DEF IInv, StopIsTrue
<1> QED BY <1>1, <1>2 DEF IInv, StopIsTrue

\* A deadline noticed inside a segment stops there if work on it is left, and
\* after it otherwise.
LEMMA DeadlineEffect ==
    ASSUME TypeOK, s <= Len(segs), NEW affected \in BOOLEAN,
           MarkBudgetExhausted("scan_deadline_seconds", now, affected, TRUE)
    PROVE  /\ stop' \in StopRecord /\ stop' # NoStop
           /\ stop # NoStop => stop' = stop
           /\ stop = NoStop => /\ stop'.kind = "scan_deadline_seconds" /\ stop'.consumed = now
                               /\ affected => stop'.index = s /\ stop'.started
                               /\ ~affected => stop'.index = s + 1 /\ ~stop'.started
<1>1. now \in Nat
  BY Bounds
<1>2. "scan_deadline_seconds" \in {"scan_deadline_seconds", "max_total_bytes_scanned"}
      /\ TRUE \in BOOLEAN
  OBVIOUS
<1>3. /\ stop' \in StopRecord /\ stop' # NoStop
      /\ stop # NoStop => stop' = stop
      /\ stop = NoStop => /\ stop'.kind = "scan_deadline_seconds" /\ stop'.consumed = now
                          /\ stop'.index = (IF affected THEN s ELSE s + 1)
                          /\ stop'.started = (TRUE /\ affected)
  BY <1>1, <1>2, MarkEffect
<1> QED BY <1>3

LEMMA StartRuleKeeps == ASSUME IInv, StartRule PROVE IInv'
<1>1. /\ pc = "rule" /\ rule <= RuleFiles /\ InRules
      /\ UNCHANGED <<config, segs, rule, pending, hits, scanned, total, gaps, cut, now, got, ran>>
  BY DEF StartRule, InRules
<1>2. /\ TypeOK /\ s \in Nat /\ s \in 1..Len(segs) /\ Len(segs) \in Nat /\ ~Done /\ cut = 0
      /\ scanned \in Nat /\ scanned <= s /\ ran[s] \subseteq 1..(rule - 1)
      /\ rule \in Nat /\ rule >= 1 /\ RuleFiles \in Nat /\ RuleFiles >= 1
      /\ now \in Nat /\ config.scan_deadline_seconds \in Nat /\ Unmeasured \notin Nat
      /\ \A q \in called : q \in 1..Len(segs) /\ q <= s
      /\ \A g \in gaps : g.seg \in 1..Len(segs) /\ g.seg <= s
  BY <1>1, Inside
<1>3. CASE now >= config.scan_deadline_seconds
  <2>1. /\ MarkBudgetExhausted("scan_deadline_seconds", now, TRUE, TRUE)
        /\ s' = s + 1 /\ pc' = "top" /\ called' = called
    BY <1>3 DEF StartRule, NextSegment
  <2>2. /\ stop' \in StopRecord /\ stop' # NoStop
        /\ stop # NoStop => stop' = stop
        /\ stop = NoStop => /\ stop'.kind = "scan_deadline_seconds" /\ stop'.consumed = now
                            /\ stop'.index = s /\ stop'.started
    <3>1. s <= Len(segs) /\ TRUE \in BOOLEAN
      BY <1>2
    <3> QED BY <1>2, <2>1, <3>1, DeadlineEffect
  <2>3. TypeOK'
    <3>1. s' \in 1..(Len(segs) + 1)
      BY <1>2, <2>1
    <3> QED BY <1>1, <2>1, <2>2, <3>1 DEF IInv, TypeOK, StopRecord
  <2>4. Phase'
    BY <1>1, <1>2, <2>1 DEF Phase, InRules, Reached
  <2>5. Fresh'
    BY <1>1, <1>2, <2>1 DEF IInv, Fresh, InRules
  <2>6. stop'.index <= s
    <3>1. CASE stop = NoStop
      BY <1>2, <2>2, <3>1
    <3>2. CASE stop # NoStop
      BY <1>1, <1>2, <2>2, <3>2 DEF IInv, StopFixed
    <3> QED BY <3>1, <3>2
  <2>7. StopFixed'
    <3>0. stop'.index \in Nat /\ stop'.index <= s'
      BY <1>2, <2>1, <2>2, <2>6 DEF StopRecord
    <3>1. CASE stop = NoStop
      <4>1. /\ \A q \in called' : q <= stop'.index /\ (q = stop'.index => stop'.started)
            /\ stop'.index <= Len(segs) /\ RuleFiles \notin ran[stop'.index]
        BY <1>1, <1>2, <2>1, <2>2, <3>1
      <4> QED BY <1>1, <1>2, <1>3, <2>1, <2>2, <3>0, <3>1, <4>1 DEF StopFixed
    <3>2. CASE stop # NoStop
      BY <1>1, <1>2, <1>3, <2>1, <2>2, <3>0, <3>2 DEF IInv, StopFixed
    <3> QED BY <3>1, <3>2
  <2>8. StopIsTrue'
    <3>1. stop' = stop \/ (/\ stop'.kind = "scan_deadline_seconds" /\ stop'.consumed = now
                           /\ now >= config.scan_deadline_seconds)
      BY <1>3, <2>2
    <3> QED BY <1>1, <2>3, <3>1, StopStaysTrue
  <2>9. GapsSoFar'
    BY <1>1, <1>2, <2>1 DEF IInv, GapsSoFar, Unfinished, InRules
  <2>10. Behind'
    <3>1. \A q \in 1..(s - 1) : ran[q] \subseteq ran'[q] /\ got'[q] = got[q]
      BY <1>1
    <3>2. \A q \in 1..Len(segs) : q = s => stop' # NoStop /\ stop'.index <= q
      BY <2>2, <2>6
    <3> QED BY <1>1, <1>2, <2>1, <2>2, <3>1, <3>2, BehindGrows DEF IInv
  <2>11. Current' /\ ~Done'
    BY <2>1 DEF Current, InRules, Done
  <2> QED BY <2>3, <2>4, <2>5, <2>7, <2>8, <2>9, <2>10, <2>11
          DEF IInv, EveryRuleNamed, GapsAreReal
<1>4. CASE ~(now >= config.scan_deadline_seconds)
  <2>1. called' = called \union {s} /\ pc' = "match" /\ UNCHANGED <<s, stop>>
    BY <1>4 DEF StartRule
  <2>2. stop = NoStop
    BY <1>1, <1>4 DEF IInv, StopFixed
  <2>3. TypeOK'
    BY <1>1, <1>2, <2>1 DEF TypeOK
  <2>4. Phase'
    BY <1>1, <1>2, <2>1 DEF Phase, InRules, Reached
  <2>5. Fresh'
    BY <1>1, <1>2, <2>1 DEF IInv, Fresh, InRules
  <2>6. StopFixed' /\ StopIsTrue'
    BY <1>1, <2>1, <2>2 DEF IInv, StopFixed, StopIsTrue
  <2>7. GapsSoFar'
    <3> SUFFICES ASSUME NEW g \in gaps
                 PROVE  /\ g.examined # Unmeasured /\ g.seg \in called' => g.examined >= got[g.seg]
                        /\ g.seg = s => g.examined \in {got[s], Unmeasured}
                        /\ g.examined = Unmeasured => Unfinished(g)
      BY <1>1, <1>2, <2>1 DEF GapsSoFar, Unfinished, InRules
    <3>1. /\ g.examined # Unmeasured /\ g.seg \in called => g.examined >= got[g.seg]
          /\ g.seg = s => g.examined \in {got[s], Unmeasured}
          /\ g.examined = Unmeasured => Unfinished(g)
      BY <1>1, <1>2 DEF IInv, GapsSoFar
    <3>2. got[s] \in Nat
      BY <1>2 DEF TypeOK
    <3> QED BY <2>1, <3>1, <3>2
  <2>8. Behind' /\ Current' /\ ~Done'
    BY <1>1, <1>2, <2>1 DEF IInv, Behind, Covered, Named, Current, InRules, Done
  <2> QED BY <2>3, <2>4, <2>5, <2>6, <2>7, <2>8 DEF IInv, EveryRuleNamed, GapsAreReal
<1> QED BY <1>3, <1>4

\* After a call the first stop is set, if at all, and its place is known.
LEMMA NoticeEffect ==
    ASSUME IInv, pc = "match", NoticeDeadline
    PROVE  /\ stop = NoStop
           /\ ~Late => stop' = NoStop
           /\ Late => /\ stop' \in StopRecord /\ stop'.kind = "scan_deadline_seconds"
                      /\ stop'.consumed = now /\ now >= config.scan_deadline_seconds
                      /\ rule < RuleFiles => stop'.index = s /\ stop'.started
                      /\ ~(rule < RuleFiles) => stop'.index = s + 1 /\ ~stop'.started
           /\ stop' \in StopRecord
           /\ stop' = stop \/ (/\ stop'.kind = "scan_deadline_seconds" /\ stop'.consumed = now
                               /\ now >= config.scan_deadline_seconds)
<1>1. stop = NoStop /\ NoStop \in StopRecord
  <2>1. stop = NoStop
    BY DEF IInv, StopFixed
  <2> QED BY <2>1 DEF IInv, TypeOK, StopRecord
<1>2. CASE Late
  <2>1. now >= config.scan_deadline_seconds
    BY <1>2, Bounds DEF IInv, Late
  <2>2. PICK affected \in BOOLEAN :
           /\ MarkBudgetExhausted("scan_deadline_seconds", now, affected, TRUE)
           /\ affected <=> rule < RuleFiles
    <3>1. MarkBudgetExhausted("scan_deadline_seconds", now, rule < RuleFiles, TRUE)
      BY <1>2 DEF NoticeDeadline
    <3>2. (rule < RuleFiles) \in BOOLEAN
      OBVIOUS
    <3> QED BY <3>1, <3>2, Zenon
  <2>3. TypeOK /\ s <= Len(segs)
    BY DEF IInv, Phase, InRules
  <2> QED BY <1>1, <1>2, <2>1, <2>2, <2>3, DeadlineEffect
<1>3. CASE ~Late
  BY <1>1, <1>3 DEF NoticeDeadline
<1> QED BY <1>2, <1>3

\* The stop noticed after a call, once the loop is past it.
LEMMA NoticedStopFixed ==
    ASSUME IInv, pc = "match", NoticeDeadline, TypeOK',
           UNCHANGED <<config, segs, now, rule, called, cut, ran>>,
           \/ s' = s + 1 /\ pc' = "top"
           \/ s' = s /\ pc' = "hits"
           \/ s' = s /\ ~Late
    PROVE  StopFixed'
<1>1. /\ stop = NoStop
      /\ ~Late => stop' = NoStop
      /\ Late => /\ stop' \in StopRecord /\ stop'.kind = "scan_deadline_seconds"
                 /\ stop'.consumed = now /\ now >= config.scan_deadline_seconds
                 /\ rule < RuleFiles => stop'.index = s /\ stop'.started
                 /\ ~(rule < RuleFiles) => stop'.index = s + 1 /\ ~stop'.started
  BY NoticeEffect
<1>2. /\ s \in Nat /\ s \in 1..Len(segs) /\ Len(segs) \in Nat
      /\ ran[s] \subseteq 1..(rule - 1) /\ rule \in Nat /\ rule >= 1 /\ RuleFiles \in Nat
      /\ \A q \in called : q \in 1..Len(segs) /\ q <= s
      /\ rule <= RuleFiles
  BY Inside DEF IInv, Phase, InRules
<1> SUFFICES ASSUME stop' # NoStop PROVE StopFixed'
  BY DEF StopFixed
<1>3. Late
  BY <1>1
<1>4. CASE rule < RuleFiles
  BY <1>1, <1>2, <1>3, <1>4 DEF StopFixed
<1>5. CASE ~(rule < RuleFiles)
  BY <1>1, <1>2, <1>3, <1>5 DEF StopFixed
<1> QED BY <1>4, <1>5

LEMMA MatchFailsKeeps == ASSUME IInv, MatchFails PROVE IInv'
<1>1. /\ pc = "match" /\ InRules /\ NoticeDeadline
      /\ UNCHANGED <<config, segs, pending, hits, scanned, total, cut, now, got, called, ran>>
  BY DEF MatchFails, InRules
<1>2. /\ TypeOK /\ s \in Nat /\ s \in 1..Len(segs) /\ Len(segs) \in Nat /\ ~Done /\ cut = 0
      /\ scanned \in Nat /\ scanned <= s /\ ran[s] \subseteq 1..(rule - 1)
      /\ rule \in Nat /\ rule >= 1 /\ RuleFiles \in Nat /\ RuleFiles >= 1
      /\ Unmeasured \notin Nat
      /\ \A q \in called : q \in 1..Len(segs) /\ q <= s
      /\ \A g \in gaps : g.seg \in 1..Len(segs) /\ g.seg <= s
      /\ rule <= RuleFiles /\ rule \in Rules
  <2>1. rule <= RuleFiles
    BY <1>1 DEF IInv, Phase
  <2> QED BY <1>1, <2>1, Inside DEF Rules
<1>3. PICK new : /\ gaps' = gaps \union {new} /\ new \in GapRecord
                 /\ new.seg = s /\ new.examined = Unmeasured
  <2>1. PICK code \in {"timed_out", "match_failed"} :
           gaps' = gaps \union {Target(s, code, Unmeasured)}
    BY DEF MatchFails
  <2>2. s <= Len(segs) /\ Unmeasured \in Nat \union {Unmeasured}
    BY <1>2
  <2> QED BY <1>2, <2>1, <2>2, GapType
<1>4. /\ stop = NoStop
      /\ ~Late => stop' = NoStop
      /\ stop' \in StopRecord
      /\ stop' = stop \/ (/\ stop'.kind = "scan_deadline_seconds" /\ stop'.consumed = now
                          /\ now >= config.scan_deadline_seconds)
  BY <1>1, NoticeEffect
<1>5. \/ Late /\ s' = s + 1 /\ pc' = "top" /\ rule' = rule
      \/ ~Late /\ s' = s /\ pc' = "rule" /\ rule' = rule + 1
  BY DEF MatchFails, NextSegment
<1>6. TypeOK'
  <2>1. s' \in 1..(Len(segs) + 1) /\ rule' \in 1..(RuleFiles + 1)
    BY <1>2, <1>5
  <2>2. gaps' \subseteq GapRecord
    BY <1>3 DEF IInv, TypeOK, GapRecord
  <2> QED BY <1>1, <1>4, <1>5, <2>1, <2>2 DEF IInv, TypeOK, StopRecord, GapRecord
<1>7. Phase'
  BY <1>1, <1>2, <1>5 DEF Phase, InRules, Reached
<1>8. Fresh'
  BY <1>1, <1>2, <1>5 DEF IInv, Fresh, InRules
<1>9. StopFixed'
  <2>1. CASE Late
    BY <1>1, <1>5, <1>6, <2>1, NoticedStopFixed
  <2>2. CASE ~Late
    BY <1>4, <2>2 DEF StopFixed
  <2> QED BY <2>1, <2>2
<1>10. StopIsTrue'
  BY <1>1, <1>4, <1>6, StopStaysTrue
<1>11. Unfinished(new)'
  BY <1>2, <1>3, <1>5, <1>1 DEF Unfinished, InRules
<1>12. GapsSoFar'
  <2> SUFFICES ASSUME NEW g \in gaps'
               PROVE  /\ g.seg <= s' /\ (g.seg = s' => pc' \notin {"top", "read"})
                      /\ g.examined # Unmeasured /\ g.seg \in called => g.examined >= got[g.seg]
                      /\ g.seg = s => g.examined \in {got[s], Unmeasured}
                      /\ g.examined = Unmeasured => Unfinished(g)'
    BY <1>1, <1>5 DEF GapsSoFar, InRules
  <2>1. CASE g \in gaps
    <3>1. /\ g.examined # Unmeasured /\ g.seg \in called => g.examined >= got[g.seg]
          /\ g.seg = s => g.examined \in {got[s], Unmeasured}
          /\ g.examined = Unmeasured => Unfinished(g)
      BY <1>1, <1>2, <2>1 DEF IInv, GapsSoFar
    <3>2. Unfinished(g) => Unfinished(g)'
      BY <1>1, <1>2, <1>5 DEF Unfinished, InRules, Rules
    <3>3. g.seg <= s' /\ (g.seg = s' => pc' \notin {"top", "read"})
      BY <1>2, <1>5, <2>1
    <3> QED BY <3>1, <3>2, <3>3
  <2>2. CASE g = new
    BY <1>2, <1>3, <1>5, <1>11, <2>2
  <2> QED BY <1>3, <2>1, <2>2
<1>13. Behind'
  <2>1. \A q \in 1..Len(segs) : q = s => Covered(q)'
    <3>1. \A x \in 0..(segs[s] - 1) : x \in Named(new)'
      BY <1>1, <1>3 DEF Named
    <3> QED BY <1>1, <1>3, <3>1 DEF Covered
  <2>2. \A q \in 1..(s - 1) : ran[q] \subseteq ran'[q] /\ got'[q] = got[q]
    BY <1>1
  <2> QED BY <1>1, <1>2, <1>3, <1>4, <1>5, <2>1, <2>2, BehindGrows DEF IInv
<1>14. Current'
  <2> SUFFICES ASSUME pc' = "rule"
               PROVE  /\ \A x \in 0..(segs[s] - 1) : x >= got[s] => \E g \in gaps' : g.seg = s /\ x \in Named(g)
                      /\ \E g \in gaps' : g.seg = s /\ g.examined = Unmeasured
    BY <1>1, <1>5 DEF Current, InRules, Named
  <2> QED BY <1>3 DEF Named
<1>15. ~Done'
  BY <1>5 DEF Done
<1> QED BY <1>6, <1>7, <1>8, <1>9, <1>10, <1>12, <1>13, <1>14, <1>15
        DEF IInv, EveryRuleNamed, GapsAreReal

LEMMA MatchedKeeps == ASSUME IInv, Matched PROVE IInv'
<1>1. /\ pc = "match" /\ pc' = "hits" /\ InRules /\ NoticeDeadline /\ pending' \in 0..MaxMatches
      /\ UNCHANGED <<config, segs, s, rule, hits, scanned, total, gaps, cut, now, got, called, ran>>
  BY DEF Matched, InRules
<1>2. TypeOK /\ s \in Nat /\ s \in 1..Len(segs) /\ ~Done /\ cut = 0
  BY <1>1, Inside
<1>3. /\ stop = NoStop /\ stop' \in StopRecord
      /\ stop' = stop \/ (/\ stop'.kind = "scan_deadline_seconds" /\ stop'.consumed = now
                          /\ now >= config.scan_deadline_seconds)
  BY <1>1, NoticeEffect
<1>4. TypeOK'
  BY <1>1, <1>3 DEF IInv, TypeOK, StopRecord
<1>5. Phase' /\ Fresh'
  BY <1>1 DEF IInv, Phase, Fresh, InRules, Reached
<1>6. StopFixed'
  BY <1>1, <1>4, NoticedStopFixed
<1>7. StopIsTrue'
  BY <1>1, <1>3, <1>4, StopStaysTrue
<1>8. GapsSoFar' /\ Current' /\ ~Done'
  BY <1>1, <1>2 DEF IInv, GapsSoFar, Unfinished, Current, Named, InRules, Done
<1>9. Behind'
  BY <1>1, <1>2, <1>3 DEF IInv, Behind, Covered, Named
<1> QED BY <1>4, <1>5, <1>6, <1>7, <1>8, <1>9 DEF IInv, EveryRuleNamed, GapsAreReal

LEMMA HitKeeps == ASSUME IInv, Hit PROVE IInv'
<1>1. /\ pc = "hits" /\ InRules /\ pending > 0 /\ pending' = pending - 1
      /\ hits < config.max_total_hits /\ hits' \in {hits, hits + 1}
      /\ UNCHANGED <<config, segs, s, pc, rule, scanned, total, gaps, stop, cut, now, got, called, ran>>
  BY DEF Hit, InRules
<1>2. TypeOK /\ ~Done /\ cut = 0
  BY <1>1, Inside
<1>3. hits \in Nat /\ config.max_total_hits \in Nat
  BY <1>2, Bounds
<1>4. hits' \in Nat /\ hits' <= config.max_total_hits
  BY <1>1, <1>3
<1>5. TypeOK'
  <2>1. pending' \in 0..MaxMatches
    <3>1. pending \in 0..MaxMatches /\ MaxMatches \in Nat
      BY <1>2, YaraAssumption DEF TypeOK
    <3> QED BY <1>1, <3>1
  <2> QED BY <1>1, <1>4, <2>1 DEF IInv, TypeOK
<1>6. Phase' /\ Fresh' /\ StopFixed'
  BY <1>1 DEF IInv, Phase, Fresh, StopFixed, InRules, Reached
<1>7. StopIsTrue'
  BY <1>1, <1>2, <1>4 DEF IInv, StopIsTrue
<1>8. GapsSoFar' /\ Behind' /\ Current' /\ ~Done'
  BY <1>1, <1>2 DEF IInv, GapsSoFar, Unfinished, Behind, Covered, Named, Current, InRules, Done
<1> QED BY <1>5, <1>6, <1>7, <1>8 DEF IInv, EveryRuleNamed, GapsAreReal

LEMMA TruncateKeeps == ASSUME IInv, Truncate PROVE IInv'
<1>1. /\ pc = "hits" /\ InRules /\ pending' = 0 /\ pc' = "stopped" /\ cut' = s
      /\ hits >= config.max_total_hits
      /\ UNCHANGED <<config, segs, s, rule, hits, scanned, total, gaps, stop, now, got, called, ran>>
  BY DEF Truncate, InRules
<1>2. /\ TypeOK /\ s \in Nat /\ s \in 1..Len(segs) /\ Len(segs) \in Nat /\ ~Done /\ cut = 0
      /\ ran[s] \subseteq 1..(rule - 1) /\ rule \in Nat /\ RuleFiles \in Nat
      /\ scanned \in Nat /\ scanned <= s
  BY <1>1, Inside
<1>3. rule <= RuleFiles /\ hits = config.max_total_hits
  BY <1>1, <1>2, Bounds DEF IInv, Phase, StopIsTrue
<1>4. TypeOK'
  <2>1. pending' \in 0..MaxMatches /\ cut' \in 0..Len(segs)
    BY <1>1, <1>2, YaraAssumption
  <2> QED BY <1>1, <2>1 DEF IInv, TypeOK
<1>5. Phase'
  BY <1>1, <1>2 DEF Phase, InRules, Reached
<1>6. Fresh'
  <2>1. RuleFiles \notin ran[s]
    BY <1>2, <1>3
  <2> QED BY <1>1, <1>2, <2>1 DEF IInv, Fresh, InRules
<1>7. StopFixed'
  BY <1>1, <1>2 DEF IInv, StopFixed
<1>8. StopIsTrue'
  BY <1>1, <1>3 DEF IInv, StopIsTrue
<1>9. GapsSoFar'
  BY <1>1, <1>2 DEF IInv, GapsSoFar, Unfinished, InRules
<1>10. Behind' /\ Current' /\ ~Done'
  BY <1>1, <1>2 DEF IInv, Behind, Covered, Named, Current, InRules, Done
<1> QED BY <1>4, <1>5, <1>6, <1>7, <1>8, <1>9, <1>10 DEF IInv, EveryRuleNamed, GapsAreReal

\* A segment is left after its last rule, or when a budget has stopped.
LEMMA RuleDoneKeeps == ASSUME IInv, RuleDone PROVE IInv'
<1>1. /\ pc = "hits" /\ InRules /\ pending = 0 /\ ran' = [ran EXCEPT ![s] = @ \union {rule}]
      /\ UNCHANGED <<config, segs, pending, hits, scanned, total, gaps, stop, cut, now, got, called>>
  BY DEF RuleDone, InRules
<1>2. /\ TypeOK /\ s \in Nat /\ s \in 1..Len(segs) /\ Len(segs) \in Nat /\ ~Done /\ cut = 0
      /\ ran[s] \subseteq 1..(rule - 1) /\ rule \in Nat /\ rule >= 1 /\ RuleFiles \in Nat
      /\ RuleFiles >= 1 /\ scanned \in Nat /\ scanned <= s
      /\ \A q \in called : q \in 1..Len(segs) /\ q <= s
      /\ \A g \in gaps : g.seg \in 1..Len(segs) /\ g.seg <= s
      /\ rule <= RuleFiles
  <2>1. rule <= RuleFiles
    BY <1>1 DEF IInv, Phase
  <2> QED BY <1>1, <2>1, Inside
<1>3. \/ stop # NoStop /\ s' = s + 1 /\ pc' = "top" /\ rule' = rule
      \/ stop = NoStop /\ s' = s /\ pc' = "rule" /\ rule' = rule + 1
  BY DEF RuleDone, NextSegment
<1>4. /\ ran' \in [1..Len(segs) -> SUBSET Rules] /\ ran'[s] = ran[s] \union {rule}
      /\ \A q \in 1..Len(segs) : q # s => ran'[q] = ran[q]
  <2>1. rule \in Rules /\ ran \in [1..Len(segs) -> SUBSET Rules]
    BY <1>2 DEF TypeOK, Rules
  <2>2. ran[s] \union {rule} \in SUBSET Rules
    BY <1>2, <2>1
  <2> QED BY <1>1, <1>2, <2>1, <2>2
<1>5. TypeOK'
  <2>1. s' \in 1..(Len(segs) + 1) /\ rule' \in 1..(RuleFiles + 1)
    BY <1>2, <1>3
  <2> QED BY <1>1, <1>3, <1>4, <2>1 DEF IInv, TypeOK
<1>6. Phase'
  BY <1>1, <1>2, <1>3 DEF Phase, InRules, Reached
<1>7. Fresh'
  <2>1. \A q \in 1..Len(segs) : q > s' \/ (q = s' /\ pc' = "top") => q > s
    BY <1>2, <1>3
  <2>2. \A q \in 1..Len(segs) : q > s => q \notin called /\ ran'[q] = {} /\ got[q] = 0
    BY <1>2, <1>4 DEF IInv, Fresh
  <2>3. pc' = "rule" => ran'[s] \subseteq 1..(rule' - 1)
    BY <1>2, <1>3, <1>4
  <2> QED BY <1>1, <1>2, <1>3, <2>1, <2>2, <2>3 DEF Fresh, InRules
<1>8. StopFixed'
  <2> SUFFICES ASSUME stop # NoStop PROVE StopFixed'
    BY <1>1 DEF StopFixed
  <2>1. /\ stop.kind # "none" /\ stop.index >= 1 /\ now >= config.scan_deadline_seconds
        /\ stop.index <= s \/ stop.index = s + 1
        /\ \A q \in called : q <= stop.index /\ (q = stop.index => stop.started)
        /\ stop.started => /\ stop.index <= Len(segs) /\ RuleFiles \notin ran[stop.index]
                           /\ stop.index = s => rule < RuleFiles
        /\ stop.kind # "max_total_bytes_scanned"
    BY <1>1, <1>2 DEF IInv, StopFixed
  <2>2. stop.index \in Nat
    BY <1>2 DEF TypeOK
  <2>3. stop.started => RuleFiles \notin ran'[stop.index]
    BY <1>2, <1>4, <2>1, <2>2
  <2>4. stop.index <= s'
    BY <1>2, <1>3, <2>1, <2>2
  <2> QED BY <1>1, <1>3, <2>1, <2>3, <2>4 DEF StopFixed
<1>9. StopIsTrue'
  BY <1>1, <1>5, StopStaysTrue
<1>10. GapsSoFar'
  <2> SUFFICES ASSUME NEW g \in gaps
               PROVE  /\ g.seg <= s' /\ (g.seg = s' => pc' \notin {"top", "read"})
                      /\ g.examined # Unmeasured /\ g.seg \in called => g.examined >= got[g.seg]
                      /\ g.seg = s => g.examined \in {got[s], Unmeasured}
                      /\ g.examined = Unmeasured => Unfinished(g)'
    BY <1>1, <1>3 DEF GapsSoFar, InRules
  <2>1. /\ g.examined # Unmeasured /\ g.seg \in called => g.examined >= got[g.seg]
        /\ g.seg = s => g.examined \in {got[s], Unmeasured}
        /\ g.examined = Unmeasured => Unfinished(g)
    BY <1>1, <1>2 DEF IInv, GapsSoFar
  <2>2. Unfinished(g) => Unfinished(g)'
    <3> SUFFICES ASSUME Unfinished(g) PROVE Unfinished(g)'
      OBVIOUS
    <3>1. PICK k \in Rules : k \notin ran[g.seg] /\ (g.seg = s => k < rule)
      BY <1>1 DEF Unfinished
    <3>2. k \notin ran'[g.seg]
      BY <1>2, <1>4, <3>1 DEF Rules
    <3>3. g.seg = s => k < rule + 1
      BY <1>2, <3>1 DEF Rules
    <3> QED BY <1>3, <3>1, <3>2, <3>3 DEF Unfinished, InRules
  <2>3. g.seg <= s' /\ (g.seg = s' => pc' \notin {"top", "read"})
    BY <1>2, <1>3
  <2> QED BY <2>1, <2>2, <2>3
<1>11. Behind'
  <2>1. \A q \in 1..(s - 1) : ran[q] \subseteq ran'[q] /\ got'[q] = got[q]
    BY <1>1, <1>2, <1>4
  <2>2. CASE stop # NoStop /\ stop.index <= s
    BY <1>1, <1>2, <1>3, <2>1, <2>2, BehindGrows DEF IInv
  <2>3. CASE stop # NoStop /\ ~(stop.index <= s)
    <3>1. rule = RuleFiles
      BY <1>2, <2>3 DEF IInv, StopFixed
    <3>2. \A q \in 1..Len(segs) : q = s => ran[q] \subseteq ran'[q] /\ rule..RuleFiles \subseteq ran'[q]
      BY <1>2, <1>4, <3>1
    <3>3. \A q \in 1..Len(segs) : q = s => Covered(q)'
      BY <1>1, <1>2, <3>2, SegmentCovered DEF IInv
    <3> QED BY <1>1, <1>2, <1>3, <2>1, <2>3, <3>3, BehindGrows DEF IInv
  <2>4. CASE stop = NoStop
    BY <1>1, <1>2, <1>3, <2>1, <2>4, BehindGrows DEF IInv
  <2> QED BY <2>2, <2>3, <2>4
<1>12. Current'
  <2> SUFFICES ASSUME pc' = "rule"
               PROVE  /\ \A x \in 0..(segs[s] - 1) : x >= got[s] => \E g \in gaps : g.seg = s /\ x \in Named(g)
                      /\ \A k \in 1..rule : \/ k \in ran'[s]
                                            \/ \E g \in gaps : g.seg = s /\ g.examined = Unmeasured
    BY <1>1, <1>2, <1>3 DEF Current, InRules, Named
  <2>1. \A k \in 1..rule : k \in 1..(rule - 1) \/ k = rule
    BY <1>2
  <2> QED BY <1>1, <1>2, <1>4, <2>1 DEF IInv, Current
<1>13. ~Done'
  BY <1>3 DEF Done
<1> QED BY <1>5, <1>6, <1>7, <1>8, <1>9, <1>10, <1>11, <1>12, <1>13
        DEF IInv, EveryRuleNamed, GapsAreReal

LEMMA SegmentDoneKeeps == ASSUME IInv, SegmentDone PROVE IInv'
<1>1. /\ pc = "rule" /\ InRules /\ rule > RuleFiles /\ s' = s + 1 /\ pc' = "top"
      /\ UNCHANGED <<config, segs, rule, pending, hits, scanned, total, gaps, stop, cut, now, got,
                     called, ran>>
  BY DEF SegmentDone, NextSegment, InRules
<1>2. /\ TypeOK /\ s \in Nat /\ s \in 1..Len(segs) /\ Len(segs) \in Nat /\ ~Done /\ cut = 0
      /\ rule \in Nat /\ RuleFiles \in Nat /\ scanned \in Nat /\ scanned <= s
      /\ \A g \in gaps : g.seg \in 1..Len(segs) /\ g.seg <= s
  BY <1>1, Inside
<1>3. TypeOK'
  <2>1. s' \in 1..(Len(segs) + 1)
    BY <1>1, <1>2
  <2> QED BY <1>1, <2>1 DEF IInv, TypeOK
<1>4. Phase'
  BY <1>1, <1>2 DEF Phase, InRules, Reached
<1>5. Fresh'
  BY <1>1, <1>2 DEF IInv, Fresh, InRules
<1>6. StopFixed'
  <2> SUFFICES ASSUME stop # NoStop PROVE StopFixed'
    BY <1>1 DEF StopFixed
  <2>1. stop.index <= s /\ stop.index \in Nat
    BY <1>1, <1>2 DEF IInv, StopFixed, TypeOK
  <2>2. stop.index <= s'
    BY <1>1, <1>2, <2>1
  <2> QED BY <1>1, <2>2 DEF IInv, StopFixed
<1>7. StopIsTrue'
  BY <1>1, <1>3, StopStaysTrue
<1>8. GapsSoFar'
  BY <1>1, <1>2 DEF IInv, GapsSoFar, Unfinished, InRules
<1>9. Behind'
  <2>1. \A q \in 1..Len(segs) : q = s => ran[q] \subseteq ran'[q] /\ rule..RuleFiles \subseteq ran'[q]
    BY <1>1, <1>2
  <2>2. \A q \in 1..Len(segs) : q = s => Covered(q)'
    BY <1>1, <1>2, <2>1, SegmentCovered DEF IInv
  <2>3. \A q \in 1..(s - 1) : ran[q] \subseteq ran'[q] /\ got'[q] = got[q]
    BY <1>1
  <2> QED BY <1>1, <1>2, <2>2, <2>3, BehindGrows DEF IInv
<1>10. Current' /\ ~Done'
  BY <1>1 DEF Current, InRules, Done
<1> QED BY <1>3, <1>4, <1>5, <1>6, <1>7, <1>8, <1>9, <1>10 DEF IInv, EveryRuleNamed, GapsAreReal

\* What the stop names once the scan publishes: every segment from its place on.
LEMMA StopTargetsEffect ==
    ASSUME TypeOK, NEW code \in {"truncated", "budget"}, NEW first \in 1..(Len(segs) + 1),
           NEW started \in BOOLEAN
    PROVE  /\ \A g \in StopTargets(code, first, started) :
                 /\ g \in GapRecord /\ g.seg >= first
                 /\ g.examined = Unmeasured => g.seg = first /\ started
                 /\ g.seg = first /\ started => g.examined = Unmeasured
                 /\ g.examined # Unmeasured => g.examined = 0
           /\ \A q \in first..Len(segs) : \E g \in StopTargets(code, first, started) :
                 g.seg = q /\ g.examined \in {0, Unmeasured}
<1>1. Len(segs) \in Nat /\ Unmeasured # 0
  BY Bounds
<1>2. \A q \in first..Len(segs) : q \in 1..Len(segs)
  BY <1>1
<1>3. ASSUME NEW q \in first..Len(segs), NEW examined \in {0, Unmeasured}
      PROVE  /\ Target(q, code, examined) \in GapRecord
             /\ Target(q, code, examined).seg = q
             /\ Target(q, code, examined).examined = examined
  BY <1>2 DEF Target, GapRecord
<1>4. ASSUME NEW g \in StopTargets(code, first, started)
      PROVE  /\ g \in GapRecord /\ g.seg >= first
             /\ g.examined = Unmeasured => g.seg = first /\ started
             /\ g.seg = first /\ started => g.examined = Unmeasured
             /\ g.examined # Unmeasured => g.examined = 0
  <2>1. PICK q \in first..Len(segs) :
           g = Target(q, code, IF q = first /\ started THEN Unmeasured ELSE 0)
    BY DEF StopTargets
  <2>2. CASE q = first /\ started
    BY <1>1, <1>3, <2>1, <2>2
  <2>3. CASE ~(q = first /\ started)
    BY <1>1, <1>3, <2>1, <2>3
  <2> QED BY <2>2, <2>3
<1>5. ASSUME NEW q \in first..Len(segs)
      PROVE  \E g \in StopTargets(code, first, started) : g.seg = q /\ g.examined \in {0, Unmeasured}
  <2>1. PICK examined \in {0, Unmeasured} :
           examined = IF q = first /\ started THEN Unmeasured ELSE 0
    OBVIOUS
  <2>2. Target(q, code, examined) \in StopTargets(code, first, started)
    BY <2>1 DEF StopTargets
  <2> QED BY <1>3, <2>2
<1> QED BY <1>4, <1>5

\* Publication is where the books are closed: all the properties of a finished
\* scan are earned here.
LEMMA PublishKeeps == ASSUME IInv, Publish PROVE IInv'
<1>1. /\ (pc = "stopped" \/ (pc = "top" /\ s > Len(segs))) /\ pc' = "done"
      /\ UNCHANGED <<config, segs, s, rule, pending, hits, scanned, total, stop, cut, now, got, called, ran>>
  BY DEF Publish
<1>2. /\ TypeOK /\ s \in Nat /\ s >= 1 /\ s <= Len(segs) + 1 /\ Len(segs) \in Nat /\ ~Done
      /\ scanned \in Nat /\ scanned <= s /\ Unmeasured \notin Nat /\ cut \in Nat
      /\ RuleFiles \in Nat /\ RuleFiles >= 1 /\ RuleFiles \in Rules
  <2>1. /\ s \in Nat /\ s >= 1 /\ s <= Len(segs) + 1 /\ Len(segs) \in Nat
        /\ scanned \in Nat /\ Unmeasured \notin Nat /\ RuleFiles \in Nat /\ RuleFiles >= 1 /\ cut \in Nat
    BY Bounds DEF IInv
  <2>2. scanned <= s /\ ~Done
    BY <1>1, <2>1 DEF IInv, Phase, Done
  <2> QED BY <2>1, <2>2 DEF IInv, Rules
<1>3. PICK T, B : /\ T = IF cut = 0 THEN {} ELSE StopTargets("truncated", cut, TRUE)
                  /\ B = IF stop = NoStop THEN {} ELSE StopTargets("budget", stop.index, stop.started)
                  /\ gaps' = gaps \union T \union B
  BY DEF Publish
<1>4. ASSUME cut # 0
      PROVE  /\ cut = s /\ cut \in 1..Len(segs) /\ RuleFiles \notin ran[cut]
             /\ \A g \in T : /\ g \in GapRecord /\ g.seg >= s
                             /\ g.examined = Unmeasured => g.seg = s
                             /\ g.seg = s => g.examined = Unmeasured
                             /\ g.examined # Unmeasured => g.examined = 0
             /\ \A q \in s..Len(segs) : \E g \in T : g.seg = q /\ g.examined \in {0, Unmeasured}
  <2>1. cut = s /\ pc = "stopped"
    BY <1>1, <1>4 DEF IInv, Phase
  <2>2. cut \in 1..Len(segs) /\ RuleFiles \notin ran[cut]
    BY <1>2, <1>4, <2>1 DEF IInv, Phase, Fresh
  <2>3. cut \in 1..(Len(segs) + 1) /\ TRUE \in BOOLEAN
    BY <1>2, <2>2
  <2>4. T = StopTargets("truncated", cut, TRUE)
    BY <1>3, <1>4
  <2>5. PICK started \in BOOLEAN : started /\ started = TRUE
    OBVIOUS
  <2>6. T = StopTargets("truncated", cut, started) /\ "truncated" \in {"truncated", "budget"}
    BY <2>4, <2>5
  <2>7. /\ \A g \in T : /\ g \in GapRecord /\ g.seg >= cut
                        /\ g.examined = Unmeasured => g.seg = cut /\ started
                        /\ g.seg = cut /\ started => g.examined = Unmeasured
                        /\ g.examined # Unmeasured => g.examined = 0
        /\ \A q \in cut..Len(segs) : \E g \in T : g.seg = q /\ g.examined \in {0, Unmeasured}
    BY <1>2, <2>3, <2>6, StopTargetsEffect
  <2>8. \A g \in T : /\ g \in GapRecord /\ g.seg >= s
                     /\ g.examined = Unmeasured => g.seg = s
                     /\ g.seg = s => g.examined = Unmeasured
                     /\ g.examined # Unmeasured => g.examined = 0
    BY <2>1, <2>5, <2>7
  <2> QED BY <2>1, <2>2, <2>7, <2>8
<1>5. ASSUME stop # NoStop
      PROVE  /\ stop.index \in 1..(Len(segs) + 1)
             /\ \A q \in called : q <= stop.index /\ (q = stop.index => stop.started)
             /\ stop.started => stop.index <= Len(segs) /\ RuleFiles \notin ran[stop.index]
             /\ \A g \in B : /\ g \in GapRecord /\ g.seg >= stop.index
                             /\ g.examined = Unmeasured => g.seg = stop.index /\ stop.started
                             /\ g.seg = stop.index /\ stop.started => g.examined = Unmeasured
                             /\ g.examined # Unmeasured => g.examined = 0
             /\ \A q \in stop.index..Len(segs) :
                   \E g \in B : g.seg = q /\ g.examined \in {0, Unmeasured}
  <2>1. stop.index \in 0..(Len(segs) + 1) /\ stop.started \in BOOLEAN
    BY <1>2 DEF TypeOK
  <2>2. /\ stop.index >= 1
        /\ \A q \in called : q <= stop.index /\ (q = stop.index => stop.started)
        /\ stop.started => stop.index <= Len(segs) /\ RuleFiles \notin ran[stop.index]
    BY <1>5 DEF IInv, StopFixed
  <2>3. B = StopTargets("budget", stop.index, stop.started)
    BY <1>3, <1>5
  <2>4. stop.index \in 1..(Len(segs) + 1)
    BY <1>2, <2>1, <2>2
  <2> QED BY <1>2, <2>1, <2>2, <2>3, <2>4, StopTargetsEffect
<1>6. \A g \in gaps' : g \in gaps \/ (cut # 0 /\ g \in T) \/ (stop # NoStop /\ g \in B)
  BY <1>3
<1>7. gaps \subseteq gaps' /\ T \subseteq gaps' /\ B \subseteq gaps'
  BY <1>3
<1>8. got \in [1..Len(segs) -> Nat] /\ ran \in [1..Len(segs) -> SUBSET Rules] /\ called \subseteq 1..Len(segs)
  BY <1>2 DEF TypeOK
<1>9. TypeOK'
  <2>0. \A g \in gaps : g \in GapRecord
    BY <1>2 DEF TypeOK, GapRecord
  <2>1. gaps' \subseteq GapRecord
    BY <1>4, <1>5, <1>6, <2>0
  <2> QED BY <1>1, <2>1 DEF IInv, TypeOK, GapRecord
<1>10. Phase'
  BY <1>1, <1>2 DEF IInv, Phase, InRules, Reached
<1>11. Fresh' /\ StopFixed' /\ StopIsTrue' /\ Done'
  BY <1>1 DEF IInv, Fresh, StopFixed, StopIsTrue, InRules, Done
<1>12. EveryRuleNamed'
  <2> SUFFICES ASSUME NEW q \in 1..Len(segs), NEW k \in Rules, NEW x \in 0..(segs[q] - 1)
               PROVE  \/ k \in ran[q] /\ x < got[q]
                      \/ \E g \in gaps' : g.seg = q /\ x \in Named(g)
    BY <1>1 DEF EveryRuleNamed, Named
  <2>0. x \in 0..(segs[q] - 1) /\ x >= 0
    OBVIOUS
  <2>1. ASSUME stop # NoStop, stop.index <= q
        PROVE  \E g \in gaps' : g.seg = q /\ x \in Named(g)
    <3>1. q \in stop.index..Len(segs)
      BY <1>5, <2>1
    <3>2. PICK g \in B : g.seg = q /\ g.examined \in {0, Unmeasured}
      BY <1>5, <2>1, <3>1
    <3> QED BY <1>7, <2>0, <3>2 DEF Named
  <2>2. CASE q < s
    <3>1. Covered(q) \/ (stop # NoStop /\ stop.index <= q)
      BY <1>2, <2>2 DEF IInv, Behind
    <3> QED BY <1>7, <2>1, <3>1 DEF Covered
  <2>3. CASE ~(q < s)
    <3>1. pc = "stopped" /\ q \in s..Len(segs)
      BY <1>1, <1>2, <2>3
    <3>2. CASE cut = s
      <4>1. PICK g \in T : g.seg = q /\ g.examined \in {0, Unmeasured}
        BY <1>2, <1>4, <3>1, <3>2
      <4> QED BY <1>7, <2>0, <4>1 DEF Named
    <3>3. CASE stop # NoStop /\ stop.index <= s
      <4>1. stop.index <= q
        BY <1>2, <1>5, <2>3, <3>3
      <4> QED BY <2>1, <3>3, <4>1
    <3> QED BY <3>1, <3>2, <3>3 DEF IInv, Phase
  <2> QED BY <2>2, <2>3
<1>13. GapsAreReal'
  <2>1. ASSUME NEW g \in gaps', g.examined # Unmeasured, g.seg \in called, NEW x \in Named(g)
        PROVE  x >= got[g.seg]
    <3>1. x \in Int /\ x >= g.examined
      BY <2>1 DEF Named
    <3>2. CASE g \in gaps
      <4>1. g.examined >= got[g.seg] /\ g.examined \in Nat /\ got[g.seg] \in Nat
        BY <1>2, <1>8, <2>1, <3>2 DEF IInv, GapsSoFar, TypeOK
      <4> QED BY <3>1, <4>1
    <3>3. CASE cut # 0 /\ g \in T
      <4>1. g.seg > s /\ g.seg \in 1..Len(segs)
        BY <1>2, <1>4, <1>8, <2>1, <3>3 DEF GapRecord
      <4> QED BY <2>1, <4>1 DEF IInv, Fresh
    <3>4. CASE stop # NoStop /\ g \in B
      BY <1>2, <1>5, <1>8, <2>1, <3>4 DEF GapRecord
    <3> QED BY <1>6, <3>2, <3>3, <3>4
  <2>2. ASSUME NEW g \in gaps', g.examined = Unmeasured PROVE ran[g.seg] # Rules
    <3>1. CASE g \in gaps
      BY <1>2, <2>2, <3>1 DEF IInv, GapsSoFar, Unfinished
    <3>2. CASE cut # 0 /\ g \in T
      BY <1>2, <1>4, <2>2, <3>2
    <3>3. CASE stop # NoStop /\ g \in B
      BY <1>2, <1>5, <2>2, <3>3
    <3> QED BY <1>6, <3>1, <3>2, <3>3
  <2> QED BY <1>1, <2>1, <2>2 DEF GapsAreReal, Measured, Named
<1> QED BY <1>9, <1>10, <1>11, <1>12, <1>13 DEF IInv

\* No step of the scan or of the clock breaks the invariant.
THEOREM NextKeeps == ASSUME IInv, [Next]_vars PROVE IInv'
<1>1. CASE Tick
  BY <1>1, TickKeeps
<1>2. CASE Scan
  BY <1>2, TopKeeps, ReadFailsKeeps, ReadKeeps, StartRuleKeeps, MatchFailsKeeps, MatchedKeeps,
     HitKeeps, TruncateKeeps, RuleDoneKeeps, SegmentDoneKeeps, PublishKeeps DEF Scan
<1>3. CASE UNCHANGED vars
  BY SMTT(30), <1>3 DEF vars, IInv, TypeOK, Phase, Fresh, StopFixed, StopIsTrue, GapsSoFar, Unfinished, Behind,
              Covered, Named, Current, InRules, Reached, Done, EveryRuleNamed, GapsAreReal, Measured
<1> QED BY <1>1, <1>2, <1>3 DEF Next

\* The invariant holds of every behaviour of the loop.
THEOREM InvariantHolds == Spec => []IInv
BY InitHolds, NextKeeps, PTL DEF Spec

\* The loop stays inside the segments and the rule files.
THEOREM TypeCorrect == Spec => []TypeOK
BY InvariantHolds, PTL DEF IInv

\* scanner.py: for any dump, limits and clock, whatever match() does, a byte a
\* rule file did not look at lies in a gap of the published coverage.
THEOREM EveryRuleIsNamed == Spec => []EveryRuleNamed
BY InvariantHolds, PTL DEF IInv

\* scanner.py: no gap covers a byte every rule had looked at, and the exhausted
\* budget it is blamed on was exhausted.
THEOREM StopsAreAlwaysReal == Spec => []StopsAreReal
<1>1. IInv => StopsAreReal
  BY DEF IInv, StopsAreReal
<1> QED BY <1>1, InvariantHolds, PTL

===============================================================================
