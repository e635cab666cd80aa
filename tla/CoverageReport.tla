---------------------------- MODULE CoverageReport ----------------------------
(***************************************************************************)
(* The arithmetic of dumpex.output.coverage: how a report's status is      *)
(* derived from its sources and its gaps, and how many bytes its gaps add  *)
(* up to.  A limitation is [code, source, scope, targets, count]; a target *)
(* is a range with how much of it the dump holds and a scan examined.      *)
(***************************************************************************)
EXTENDS CapturedBytes

Unmeasured == -1        \* examined_size is None
NoScale    == -1        \* eligible_bytes is None

\* segment_scan_target: a segment is captured whole, and no MemoryInfo describes it.
SegmentTarget(seg, examined) ==
    [kind |-> "memory_segment", range |-> VirtualRange(seg.base, seg.size), access |-> "",
     captured |-> seg.size, examined |-> examined]

\* region_scan_target, with the region's own protection.
RegionTarget(table, r, examined) ==
    LET captured == CapturedRangeLength(table, r.base, r.size)
    IN [kind |-> "memory_region", range |-> VirtualRange(r.base, r.size), access |-> r.kind,
        captured |-> captured,
        examined |-> IF examined = Unmeasured THEN Unmeasured ELSE Min({examined, captured})]

\* unexamined_bytes: nothing captured is nothing missed, whatever was examined.
UnexaminedBytes(t) ==
    IF t.captured = 0 THEN 0
    ELSE IF t.examined = Unmeasured THEN Unmeasured ELSE t.captured - t.examined

\* _unexamined_range: the suffix of the captured prefix.
UnexaminedRange(t) ==
    VirtualRange(t.range.base + (t.captured - UnexaminedBytes(t)), UnexaminedBytes(t))

Gap(code, source, scope, targets) ==
    [code |-> code, source |-> source, scope |-> scope, targets |-> targets, count |-> Len(targets)]
Counted(code, source, scope, n) ==
    [code |-> code, source |-> source, scope |-> scope, targets |-> <<>>, count |-> n]

\* _CODE_SPECS[code].memory_gap, for the codes of the composed hunters.
MemoryGapKind(code) ==
    CASE code \in {"SCAN_REGION_OVERSIZED_SKIPPED", "SCAN_REGION_READ_FAILED",
                   "SCAN_REGION_SHORT_READ", "SCAN_BUDGET_EXHAUSTED",
                   "CS_BEACON_SCAN_BUDGET_EXHAUSTED"} -> "target_extent"
      [] code \in {"SCAN_ITEMS_UNACCOUNTED", "SCAN_REGION_SEARCH_INCOMPLETE",
                   "MODULE_HEADER_READ_FAILED", "STOMPING_SECTION_MEMORY_READ_FAILED",
                   "STOMPING_SHORT_READ"} -> "unmeasured"
      [] OTHER -> ""

------------------------------------------------------------------------------
(* MissedBytes *)

\* Mutant: a range nested in the one before it cuts that one short.
MergeTakesLastEnd(ranges) ==
    LET sorted == StableSort(Filtered(ranges, LAMBDA r : r.size > 0), ByBaseEnd)
        Step(sweep, r) ==
          IF r.base > sweep.stop
          THEN [bytes |-> sweep.bytes + r.size, count |-> sweep.count + 1, stop |-> End(r)]
          ELSE [sweep EXCEPT !.bytes = @ + (End(r) - sweep.stop), !.stop = End(r)]
        sweep[n \in 0..Len(sorted)] ==
          IF n = 0 THEN [bytes |-> 0, count |-> 0, stop |-> -1]
          ELSE Step(sweep[n - 1], sorted[n])
    IN sweep[Len(sorted)]

\* _union_length: one sweep over the sorted ranges, touching ones merged.
UnionLength(ranges) ==
    LET sorted == StableSort(Filtered(ranges, LAMBDA r : r.size > 0), ByBaseEnd)
        Step(sweep, r) ==
          IF r.base > sweep.stop
          THEN [bytes |-> sweep.bytes + r.size, count |-> sweep.count + 1, stop |-> End(r)]
          ELSE LET stop == Max({sweep.stop, End(r)})
               IN [sweep EXCEPT !.bytes = @ + (stop - sweep.stop), !.stop = stop]
        sweep[n \in 0..Len(sorted)] ==
          IF n = 0 THEN [bytes |-> 0, count |-> 0, stop |-> -1]
          ELSE Step(sweep[n - 1], sorted[n])
    IN sweep[Len(sorted)]

\* _pass_key: a scope is a pass only where the producer declared it one.
PassKey(limitation, passScopes) ==
    <<limitation.source, IF limitation.scope \in passScopes THEN limitation.scope ELSE "">>

Itemized(limitation) ==
    MemoryGapKind(limitation.code) = "target_extent" /\ limitation.targets # <<>>

\* _limitation_gap_count: a gap nobody counted is one gap.
GapCount(limitation) == IF limitation.count = 0 THEN 1 ELSE limitation.count

\* summarize_missed_bytes: known over all gaps, work undone summed pass by pass.
SummarizeMissedBytes(limitations, eligible, passScopes) ==
    LET counting   == Filtered(limitations, LAMBDA l : MemoryGapKind(l.code) # "")
        itemized   == Filtered(counting, Itemized)
        targets    == FlattenSeq([i \in DOMAIN itemized |->
                        [j \in DOMAIN itemized[i].targets |->
                           [pass |-> PassKey(itemized[i], passScopes),
                            target |-> itemized[i].targets[j]]]])
        quantified == Filtered(targets, LAMBDA x : UnexaminedBytes(x.target) # Unmeasured)
        Ranges(xs) == [i \in DOMAIN xs |-> UnexaminedRange(xs[i].target)]
        whole      == UnionLength(Ranges(quantified))
        perPass    == MapThenSumSet(
                        LAMBDA p : UnionLength(Ranges(
                                     Filtered(quantified, LAMBDA x : x.pass = p))).bytes,
                        {x.pass : x \in ToSet(quantified)})
    IN [known |-> whole.bytes, distinct |-> whole.count,
        quantified |-> Len(quantified),
        unquantified |-> Len(targets) - Len(quantified)
             + Total([i \in DOMAIN counting |->
                        IF Itemized(counting[i]) THEN 0 ELSE GapCount(counting[i])],
                     Len(counting)),
        undone |-> perPass,
        eligible |-> IF perPass > eligible THEN NoScale ELSE eligible]

\* MissedBytes.state
MissedState(m) ==
    IF m.unquantified = 0 THEN "exact" ELSE IF m.quantified > 0 THEN "lower_bound" ELSE "unknown"

------------------------------------------------------------------------------
(* CoverageReport *)

\* A completeness check is a requirement on a source or a gap already built.
Requires(source, absentCode) == [requires |-> source, code |-> absentCode]
Found(limitation) == [requires |-> "", gap |-> limitation]

\* _derive_required_source_limitation, for requirements without a counterpart.
DeriveLimitation(sources, check) ==
    IF check.requires = "" THEN <<check.gap>>
    ELSE CASE sources[check.requires] = "absent" ->
                  <<Counted(check.code, check.requires, "dump", 0)>>
           [] sources[check.requires] = "failed" ->
                  <<Counted("SOURCE_FAILED", check.requires, "dump", 0)>>
           [] OTHER -> <<>>

\* EvaluationRequirement: sources that rule an evaluation out when all are absent.
Required(members) ==
    [members |-> members,
     code |-> IF Len(members) = 1 THEN "SOURCE_ABSENT" ELSE "SOURCE_GROUP_ABSENT"]

\* build_coverage_report: an absent evaluation group outranks every check, and
\* then only the failed sources are still reported.
BuildCoverageReport(sources, groups, checks, eligible, passScopes) ==
    LET silent  == Picked(groups, {i \in DOMAIN groups :
                       \A n \in DOMAIN groups[i].members : sources[groups[i].members[n]] = "absent"})
        failing == Filtered(checks, LAMBDA c : c.requires # "" /\ sources[c.requires] = "failed")
        kept    == IF silent # <<>> THEN failing ELSE checks
        absent  == [i \in DOMAIN silent |-> Counted(silent[i].code, silent[i].members[1], "dump", 0)]
        found   == absent \o FlattenSeq([i \in DOMAIN kept |-> DeriveLimitation(sources, kept[i])])
    IN [status |-> IF silent # <<>> THEN "not_evaluated"
                   ELSE IF found # <<>> THEN "partial" ELSE "complete",
        limitations |-> found, eligible |-> eligible, passScopes |-> passScopes]

\* CoverageReport.missed_bytes: a report that evaluated nothing states no scale.
MissedBytesOf(report) ==
    IF report.status = "not_evaluated"
    THEN SummarizeMissedBytes(report.limitations, NoScale, {})
    ELSE SummarizeMissedBytes(report.limitations, report.eligible, report.passScopes)

\* combine_missed_bytes: unioned over the reports, with no scale.
CombineMissedBytes(reports) ==
    SummarizeMissedBytes(FlattenSeq([i \in DOMAIN reports |-> reports[i].limitations]), NoScale, {})

\* exit_code_for
ExitCode(status) == CASE status = "complete" -> 0 [] status = "partial" -> 3 [] OTHER -> 4
==============================================================================
