-------------------------- MODULE InvestigationQueue --------------------------
(***************************************************************************)
(* dumpex.hunt._investigation: the queue of ranges a --hunt all run could  *)
(* not examine, built from the targets of every record's gaps.  A record   *)
(* is [hunter, coverage, evidence]; evidence is the set of ranges its      *)
(* signals resolved to, empty for a hunter with nothing to investigate.    *)
(***************************************************************************)
EXTENDS CoverageReport

HUNTERS == <<"injection", "hollowing", "stomping", "pipe", "cs-beacon", "yara", "obfuscation">>

\* AnalyzerRegistry: who can rescan a range an investigator names.
TargetedCapable == {"stomping", "pipe", "cs-beacon", "yara", "obfuscation"}

\* _TARGET_BEARING_LIMITATION_CAUSES, for the codes of the composed hunters.
Cause(code) ==
    CASE code = "SCAN_REGION_OVERSIZED_SKIPPED" -> "oversized_skipped"
      [] code = "SCAN_REGION_READ_FAILED"       -> "read_failed"
      [] code = "SCAN_REGION_SHORT_READ"        -> "short_read"
      [] code \in {"SCAN_BUDGET_EXHAUSTED", "CS_BEACON_SCAN_BUDGET_EXHAUSTED"} ->
             "scan_budget_exhausted"
      [] OTHER -> ""

\* build_region_correlations: the regions in which two hunters saw something.
RegionCorrelations(records, regions) ==
    {r \in {VirtualRange(regions[i].base, regions[i].size) : i \in DOMAIN regions} :
        Cardinality({h \in DOMAIN records : r \in records[h].evidence}) >= 2}

\* Every target of every gap, in record order, with the relationship it stands for.
Skips(records) ==
    FlattenSeq([h \in DOMAIN records |->
        LET ls == Filtered(records[h].coverage.limitations, LAMBDA l : Cause(l.code) # "")
        IN FlattenSeq([i \in DOMAIN ls |->
             [j \in DOMAIN ls[i].targets |->
                [target |-> ls[i].targets[j],
                 by |-> [hunter |-> records[h].hunter, source |-> ls[i].source,
                         scope |-> ls[i].scope, cause |-> Cause(ls[i].code)]]]])])

\* Mutant: a gap in a segment and a gap in the region it backs stay apart.
KindAndRange(target) == <<target.kind, target.range>>

\* _dedup_key: the physical range alone, whatever kind of target names it.
DedupKey(target) == <<"", target.range>>

\* _find_matching_memory_info: the first region that holds the whole range.
MatchingMemoryInfo(regions, r) ==
    SelectInSeq(regions, LAMBDA info : info.base <= r.base /\ End(r) <= End(info))

\* _merge_target_group: a region target if there is one, else a segment target
\* described by the region that holds it.
MergeTargetGroup(targets, regions) ==
    LET region == SelectInSeq(targets, LAMBDA t : t.kind = "memory_region")
        info   == MatchingMemoryInfo(regions, targets[1].range)
    IN IF region # 0 THEN targets[region]
       ELSE IF info = 0 THEN targets[1]
       ELSE [targets[1] EXCEPT !.kind = "memory_region", !.access = regions[info].kind,
                               !.examined = Unmeasured]

\* _has_exec_signal: private executable memory, or RWX.
HasExecSignal(target) == target.access = "rwx"

\* _evidence_availability_for, and its rank in the queue.
Availability(target) ==
    IF target.captured = 0 THEN "not_captured"
    ELSE IF target.captured >= target.range.size THEN "captured" ELSE "partial"
AvailabilityRank == [captured |-> 0, partial |-> 1, not_captured |-> 2]

\* _is_shared_absence_fanout: several failed reads of bytes the dump never held.
SharedAbsence(target, skippedBy) ==
    Availability(target) = "not_captured" /\ \A s \in skippedBy : s.cause = "read_failed"

\* _derive_priority and its rank.
Priority(exec, correlated) ==
    IF exec /\ correlated THEN "high" ELSE IF exec \/ correlated THEN "medium" ELSE "low"
PriorityRank == [high |-> 0, medium |-> 1, low |-> 2]

\* _recommended_actions: which hunters a rescan is recommended for.
RescanHunters(availability, hunters) ==
    IF availability = "not_captured" THEN {} ELSE hunters \intersect TargetedCapable

\* One InvestigationAction for a group of skips.
InvestigationAction(group, regions, correlated) ==
    LET target    == MergeTargetGroup([i \in DOMAIN group |-> group[i].target], regions)
        skippedBy == {s.by : s \in ToSet(group)}
        scopes    == {<<s.hunter, s.source, s.scope>> : s \in skippedBy}
        shared    == SharedAbsence(target, skippedBy)
        exec      == IF HasExecSignal(target)
                     THEN {"PRIVATE_EXECUTABLE_MEMORY", "RWX_PROTECTION"} ELSE {}
        related   == (IF Cardinality(scopes) > 1 /\ ~shared THEN {"MULTIPLE_SCOPES_SKIPPED"} ELSE {})
              \union (IF target.kind = "memory_region" /\ target.range \in correlated
                      THEN {"CORRELATED_REGION_EVIDENCE"} ELSE {})
    IN [target |-> target, skippedBy |-> skippedBy, reasons |-> exec \union related,
        priority |-> Priority(exec # {}, related # {}),
        availability |-> Availability(target),
        rescan |-> RescanHunters(Availability(target), {s.hunter : s \in skippedBy})]

\* _sort_key: priority, then availability, then how many skipped it, then where it is.
ActionBefore(a, b) ==
    LET Key(x) == <<PriorityRank[x.priority], AvailabilityRank[x.availability],
                    -Cardinality(x.skippedBy), x.target.range.base>>
        p == Key(a)
        q == Key(b)
    IN \E n \in 1..4 : p[n] < q[n] /\ \A m \in 1..(n - 1) : p[m] = q[m]

\* build_investigation_queue
BuildInvestigationQueue(records, regions) ==
    LET skips      == Skips(records)
        Group(key) == Filtered(skips, LAMBDA s : DedupKey(s.target) = key)
        firsts     == Filtered([i \in DOMAIN skips |-> i], LAMBDA i :
                         \A j \in 1..(i - 1) : DedupKey(skips[j].target) # DedupKey(skips[i].target))
        correlated == RegionCorrelations(records, regions)
    IN StableSort([n \in DOMAIN firsts |->
           InvestigationAction(Group(DedupKey(skips[firsts[n]].target)), regions, correlated)],
         ActionBefore)
==============================================================================
