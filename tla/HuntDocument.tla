----------------------------- MODULE HuntDocument -----------------------------
(***************************************************************************)
(* A full-scope hunt from its first scan to its document.  Each selected   *)
(* hunter walks the dump's regions or segments in passes, under budgets    *)
(* that may run out at any moment; what a pass could not examine becomes   *)
(* the limitations of the hunter's record, and the records become one      *)
(* document: its coverage, its missed bytes, its exit code and the queue of*)
(* ranges to look at again.  Composed here are the three hunters with the  *)
(* most different walks: pipe (two budgets over one pass), cs-beacon       *)
(* (segments, one budget that ends the scan) and obfuscation (three passes,*)
(* one budget for two of them).                                            *)
(***************************************************************************)
EXTENDS InvestigationQueue

CONSTANTS
    Dumps,      \* [regions, table, handles, threads]: no region at all when the dump
                \* has no MemoryInfo; handles absent, failed, truncated or present;
                \* threads absent, unparsed (no CONTEXT parsed), gaps or whole
    Rosters,    \* the hunters a run selects, in HUNTERS order
    Cap,        \* [pass |-> largest range the pass reads]
    MinInput,   \* smallest range the sleep-mask and entropy passes measure
    SampleFrom  \* smallest buffer the sleep-mask pass only samples

ASSUME DocumentAssumption ==
    /\ \A d \in Dumps :
          /\ d.regions \in Seq([base: Nat, size: Nat, kind: STRING])
          /\ d.table \in Seq([base: Nat, size: Nat, offset: Nat])
          /\ d.handles \in {"absent", "failed", "truncated", "present"}
          /\ d.threads \in {"absent", "unparsed", "gaps", "whole"}
          /\ \A i \in DOMAIN d.regions : d.regions[i].base > 0 /\ d.regions[i].size > 0
          /\ \A i, j \in DOMAIN d.regions : i < j => End(d.regions[i]) <= d.regions[j].base
          /\ \A i \in DOMAIN d.table : Representable(d.table[i]) /\ d.table[i].base > 0
    /\ \A r \in Rosters :
          /\ r \in Seq({"pipe", "cs-beacon", "obfuscation"}) /\ r # <<>>
          /\ \A i, j \in DOMAIN r : r[i] = r[j] => i = j
    /\ MinInput \in Nat /\ SampleFrom \in Nat

VARIABLES
    dump, roster,  \* the run
    answer,        \* how many bytes a read of a range returns
    pc, h, p, k,   \* where the run is: hunter, pass, item
    spent,         \* the budgets of this hunter that have run out
    notes,         \* gaps so far: [pass, code, target]
    scanned,       \* passes that analysed something
    eligible,      \* captured bytes each pass took into scope
    evidence,      \* ranges this hunter's signals resolve to
    seen,          \* history: [pass, range, captured, examined] per item in scope
    sampled,       \* history: the sleep mask only sampled a buffer it read
    records, document

vars == <<dump, roster, answer, pc, h, p, k, spent, notes, scanned, eligible, evidence, seen,
          sampled, records, document>>
Run  == <<dump, roster, answer>>
Out  == <<records, document>>

Passes(hunter) ==
    IF hunter = "obfuscation" THEN <<"sleep_mask", "entropy", "decode">> ELSE <<hunter>>
Layers == {"sleep_mask", "entropy", "decode"}
AllPasses == Layers \union {"pipe", "cs-beacon"}

Hunter == roster[h]
Pass   == Passes(Hunter)[p]

\* The budgets a hunter builds for one run.
Budgets(hunter) == CASE hunter = "pipe"        -> {"pipe_name", "c2_context"}
                     [] hunter = "obfuscation" -> {"decode"}
                     [] OTHER                  -> {"cs-beacon"}

\* The filters at the top of each region walk.
Accepts(pass, r) ==
    CASE pass = "sleep_mask" -> r.kind = "heap" /\ r.size >= MinInput
      [] pass = "entropy"    -> r.kind \in {"heap", "rwx"}
      [] pass = "decode"     -> r.kind \in {"heap", "rwx", "backed", "image"}
      [] OTHER               -> r.kind # "reserve"

\* What a pass walks: the segments with an extent, or the regions it accepts.
ItemsOf(pass) ==
    IF pass = "cs-beacon" THEN Picked(dump.table, {i \in DOMAIN dump.table : dump.table[i].size > 0})
    ELSE Picked(dump.regions, {i \in DOMAIN dump.regions : Accepts(pass, dump.regions[i])})
Items == ItemsOf(Pass)

RangeOf(x) == VirtualRange(x.base, x.size)
Ranges(s)  == {RangeOf(s[i]) : i \in DOMAIN s}

\* A read goes through the first segment that holds its base, or not at all.
Readable(d, r) ==
    LET seg == Containing(d.table, r.base)
    IN seg # 0 /\ End(r) <= End(d.table[seg])

Init ==
    /\ dump \in Dumps /\ roster \in Rosters
    /\ LET reads == Ranges(dump.regions) \union Ranges(dump.table)
       IN answer \in [reads -> 0..Max({0} \union {r.size : r \in reads})]
    /\ \A r \in DOMAIN answer :
          answer[r] \in IF Readable(dump, r) THEN {0, r.size - 1, r.size} ELSE {0}
    /\ pc = "walk" /\ h = 1 /\ p = 1 /\ k = 1
    /\ spent = {} /\ notes = <<>> /\ scanned = {} /\ evidence = {} /\ seen = <<>> /\ sampled = FALSE
    /\ eligible = [pass \in AllPasses |-> 0]
    /\ records = <<>> /\ document = <<>>

\* The clock passes a deadline, or a retention limit is met.
Spend ==
    /\ pc \in {"walk", "publish"}
    /\ \E b \in Budgets(Hunter) \ spent : spent' = spent \union {b}
    /\ UNCHANGED <<Run, pc, h, p, k, notes, scanned, eligible, evidence, seen, sampled, Out>>

------------------------------------------------------------------------------
(* One item of a pass *)

Item == Items[k]
TargetAt(x, examined) ==
    IF Pass = "cs-beacon" THEN SegmentTarget(x, examined) ELSE RegionTarget(dump.table, x, examined)
Captured(x) == TargetAt(x, 0).captured
Got == answer[RangeOf(Item)]
Note(code, examined) == <<[pass |-> Pass, code |-> code, target |-> TargetAt(Item, examined)]>>

\* The pass is at an item it takes into scope.
AtItem == pc = "walk" /\ k <= Len(Items)

\* decode_budget.exhausted(), before a region is even looked at.
Stopped == Pass \in {"sleep_mask", "decode"} /\ "decode" \in spent

\* note_eligible and one disposition; noted are the gaps the item leaves.
Visit(noted, examined) ==
    /\ eligible' = [eligible EXCEPT ![Pass] = @ + Captured(Item)]
    /\ notes' = notes \o noted
    /\ seen' = Append(seen, [pass |-> Pass, range |-> RangeOf(Item), captured |-> Captured(Item),
                             examined |-> examined])
    /\ k' = k + 1

SkipOversize ==
    /\ AtItem /\ ~Stopped /\ ~(Pass = "cs-beacon" /\ "cs-beacon" \in spent)
    /\ Item.size > Cap[Pass]
    /\ Visit(Note("SCAN_REGION_OVERSIZED_SKIPPED", 0), 0)
    /\ UNCHANGED <<Run, pc, h, p, spent, scanned, evidence, sampled, Out>>

\* pipe: both budgets spent before the region is read.
SkipUnbudgeted ==
    /\ AtItem /\ Pass = "pipe" /\ Item.size <= Cap[Pass]
    /\ spent = Budgets("pipe")
    /\ Visit(Note("pipe_name", 0) \o Note("c2_context", 0), 0)
    /\ UNCHANGED <<Run, pc, h, p, spent, scanned, evidence, sampled, Out>>

\* The region is read.
Reads == /\ AtItem /\ ~Stopped /\ Item.size <= Cap[Pass]
         /\ Pass = "pipe" => spent # Budgets("pipe")
         /\ Pass = "cs-beacon" => "cs-beacon" \notin spent

ReadFails ==
    /\ Reads /\ Got = 0
    /\ Visit(Note("SCAN_REGION_READ_FAILED", 0), 0)
    /\ UNCHANGED <<Run, pc, h, p, spent, scanned, evidence, sampled, Out>>

ShortRead == IF Got < Item.size THEN Note("SCAN_REGION_SHORT_READ", Got) ELSE <<>>

\* entropy: too little came back to measure.
TooLittle ==
    /\ Reads /\ Got > 0 /\ Pass = "entropy" /\ Got < MinInput
    /\ Visit(ShortRead, Got)
    /\ UNCHANGED <<Run, pc, h, p, spent, scanned, evidence, sampled, Out>>

\* A signal resolves to the region that holds it, where MemoryInfo knows one.
Signal(found) ==
    LET info == Containing(dump.regions, Item.base)
    IN evidence' = IF ~found THEN evidence
                   ELSE evidence \union {RangeOf(IF info = 0 THEN Item ELSE dump.regions[info])}

\* obfuscation: one layer searches what came back.  The budget can end the search
\* midway (cut); the sleep mask samples a large buffer or drops candidates.
SearchLayer ==
    /\ Reads /\ Got > 0 /\ Pass \in Layers /\ (Pass = "entropy" => Got >= MinInput)
    /\ \E cut, sampling, found \in BOOLEAN :
         /\ cut => Pass # "entropy"
         /\ IF Pass = "sleep_mask" THEN Got >= SampleFrom => sampling ELSE ~sampling
         /\ Signal(found)
         /\ Visit(ShortRead, IF cut THEN 0 ELSE Got)
         /\ spent' = IF cut THEN spent \union {"decode"} ELSE spent
         /\ sampled' = (sampled \/ sampling)
    /\ scanned' = scanned \union {Pass}
    /\ UNCHANGED <<Run, pc, h, p, Out>>

\* pipe: the regions whose names or C2 context a budget left unresolved.
PipeNotes(nameCut, c2Cut) ==
    (IF nameCut THEN Note("pipe_name", Unmeasured) ELSE <<>>)
    \o (IF c2Cut THEN Note("c2_context", Unmeasured) ELSE <<>>)

\* pipe: the names, then the C2 context around the names that were new.  A budget
\* may be spent already, or refuse a hit midway (cut).
SearchPipe ==
    /\ Reads /\ Got > 0 /\ Pass = "pipe"
    /\ \E cut, leads, c2cut \in BOOLEAN :
         LET started == "pipe_name" \notin spent
             nameCut == ~started \/ cut
             c2Cut   == leads /\ (c2cut \/ "c2_context" \in spent)
         IN /\ cut \/ leads => started
            /\ leads => Item.kind # "system"
            /\ c2cut => leads /\ "c2_context" \notin spent
            /\ Signal(leads)
            /\ Visit(ShortRead \o PipeNotes(nameCut, c2Cut), IF nameCut \/ c2Cut THEN 0 ELSE Got)
            /\ spent' = spent \union (IF cut THEN {"pipe_name"} ELSE {})
                              \union (IF c2cut THEN {"c2_context"} ELSE {})
            /\ scanned' = IF started THEN scanned \union {Pass} ELSE scanned
    /\ UNCHANGED <<Run, pc, h, p, sampled, Out>>

SearchSegment ==
    /\ Reads /\ Got > 0 /\ Pass = "cs-beacon"
    /\ \E found \in BOOLEAN : Signal(found)
    /\ Visit(ShortRead, Got) /\ scanned' = scanned \union {Pass}
    /\ UNCHANGED <<Run, pc, h, p, spent, sampled, Out>>

\* cs-beacon: a budget ends the scan before a segment, or within it at a cursor that
\* may be unknown; everything from there on is left behind and joins the scope.
StopSegments ==
    /\ AtItem /\ Pass = "cs-beacon"
    /\ \E started, found \in BOOLEAN, cursor \in {Unmeasured} \union (0..Item.size) :
         LET first(n) == IF n = k /\ started THEN cursor ELSE 0
             left     == [n \in 1..(Len(Items) - k + 1) |-> n + k - 1]
             fresh    == Total([n \in DOMAIN left |-> Captured(Items[left[n]])], Len(left))
         IN /\ IF started THEN Item.size <= Cap[Pass] /\ Got > 0 /\ cursor <= Got
                          ELSE "cs-beacon" \in spent /\ cursor = 0 /\ ~found
            /\ Signal(found)
            /\ notes' = notes \o (IF started THEN ShortRead ELSE <<>>)
                 \o [n \in DOMAIN left |->
                       [pass |-> Pass, code |-> "CS_BEACON_SCAN_BUDGET_EXHAUSTED",
                        target |-> SegmentTarget(Items[left[n]], first(left[n]))]]
            /\ eligible' = [eligible EXCEPT ![Pass] =
                               @ + fresh + (IF started THEN Captured(Item) ELSE 0)]
            /\ seen' = seen \o [n \in DOMAIN left |->
                 [pass |-> Pass, range |-> RangeOf(Items[left[n]]),
                  captured |-> Items[left[n]].size, examined |-> Max({0, first(left[n])})]]
            /\ scanned' = IF started THEN scanned \union {Pass} ELSE scanned
            /\ spent' = spent \union {"cs-beacon"}
    /\ k' = Len(Items) + 1
    /\ UNCHANGED <<Run, pc, h, p, sampled, Out>>

\* The pass is over: nothing is left, or its budget ends it before the next region.
EndPass ==
    /\ pc = "walk"
    /\ k > Len(Items) \/ Stopped
    /\ IF p < Len(Passes(Hunter)) THEN p' = p + 1 /\ k' = 1 /\ UNCHANGED pc
       ELSE pc' = "publish" /\ UNCHANGED <<p, k>>
    /\ UNCHANGED <<Run, h, spent, notes, scanned, eligible, evidence, seen, sampled, Out>>

------------------------------------------------------------------------------
(* One record: its coverage report, its own verdict on its coverage *)

HasRegions == dump.regions # <<>>
Present(there) == IF there THEN "present" ELSE "absent"

Noted(pass, code) ==
    LET ns == Picked(notes, {i \in DOMAIN notes : notes[i].pass = pass /\ notes[i].code = code})
    IN [i \in DOMAIN ns |-> ns[i].target]

\* A completeness check for a list of targets, when there are any.
GapCheck(code, source, scope, targets) ==
    IF targets = <<>> THEN <<>> ELSE <<Found(Gap(code, source, scope, targets))>>
When(condition, check) == IF condition THEN <<check>> ELSE <<>>

\* _budget_limitation: with the regions it left unresolved when there are any.
BudgetCheck(budget) ==
    When(budget \in spent,
         Found(Gap("SCAN_BUDGET_EXHAUSTED", "pipe_name_scan", budget, Noted("pipe", budget))))

ScanChecks(pass, source, scope) ==
    GapCheck("SCAN_REGION_OVERSIZED_SKIPPED", source, scope, Noted(pass, "SCAN_REGION_OVERSIZED_SKIPPED"))
    \o GapCheck("SCAN_REGION_READ_FAILED", source, scope, Noted(pass, "SCAN_REGION_READ_FAILED"))
    \o GapCheck("SCAN_REGION_SHORT_READ", source, scope, Noted(pass, "SCAN_REGION_SHORT_READ"))

\* pipe.report_facts.project_coverage_report
PipeCoverage ==
    LET sources == [memory_info |-> Present(HasRegions),
                    handle_data |-> IF dump.handles = "truncated" THEN "present" ELSE dump.handles]
        checks  == <<Requires("handle_data", "SOURCE_ABSENT")>>
            \o When(dump.handles = "truncated",
                    Found(Counted("HANDLE_STREAM_TRUNCATED", "handle_data", "", 1)))
            \o ScanChecks("pipe", "pipe_name_scan", "")
            \o BudgetCheck("c2_context") \o BudgetCheck("pipe_name")
    IN BuildCoverageReport(sources, <<Required(<<"memory_info", "handle_data">>)>>, checks, eligible["pipe"], {})

\* cs_beacon.report_facts.project_coverage_report
CsCoverage(corroborated) ==
    LET sources == [memory_info |-> Present(HasRegions),
                    memory64_list |-> Present(dump.table # <<>>),
                    thread_context |-> Present(dump.threads \in {"gaps", "whole"})]
        wanting == evidence # {} /\ ~corroborated
        checks  == <<Requires("memory_info", "SOURCE_ABSENT")>>
            \o ScanChecks("cs-beacon", "segment_scan", "")
            \o GapCheck("CS_BEACON_SCAN_BUDGET_EXHAUSTED", "segment_scan", "scan_deadline_seconds",
                        Noted("cs-beacon", "CS_BEACON_SCAN_BUDGET_EXHAUSTED"))
            \o When(wanting /\ dump.threads = "absent",
                    Requires("thread_context", "THREAD_CONTEXT_UNAVAILABLE"))
            \o When(wanting /\ dump.threads \in {"unparsed", "gaps"},
                    Found(Counted("THREAD_CONTEXT_PARTIAL", "thread_context", "", 1)))
    IN IF dump.table = <<>>
       THEN BuildCoverageReport(sources, <<Required(<<"memory64_list">>)>>, <<>>, NoScale, {})
       ELSE BuildCoverageReport(sources, <<>>, checks, eligible["cs-beacon"], {})

\* The gaps of one code, layer by layer.
ByLayer(code) ==
    FlattenSeq([i \in 1..3 |-> LET layer == Passes("obfuscation")[i]
                               IN GapCheck(code, "encoding_scan", layer, Noted(layer, code))])

\* Mutant: the decode budget is reported only when a layer ran out in the open.
ScanEndOnly == "decode" \in spent /\ scanned \intersect {"sleep_mask", "decode"} = {}

\* budget_exhausted: decode_budget.exhausted() once every layer has ended.
DecodeExhausted == "decode" \in spent

FullySkipped == HasRegions /\ scanned \intersect Layers = {}

\* Mutant: each layer's scope is one more scope of the same pass.
OneEncodingPass == {}

\* OVERSIZE_SCAN_LAYERS as pass_scopes
PassScopes == Layers

\* encoding.report_facts.project_coverage_report
EncodingCoverage ==
    LET checks == When(FullySkipped, Found(Counted("ENCODING_ALL_REGIONS_FILTERED", "encoding_scan",
                                                   "", Len(dump.regions))))
            \o ByLayer("SCAN_REGION_OVERSIZED_SKIPPED") \o ByLayer("SCAN_REGION_READ_FAILED")
            \o ByLayer("SCAN_REGION_SHORT_READ")
            \o When(DecodeExhausted, Found(Counted("SCAN_BUDGET_EXHAUSTED", "encoding_scan", "", 0)))
    IN BuildCoverageReport([memory_info |-> Present(HasRegions)], <<Required(<<"memory_info">>)>>, checks,
                           eligible["sleep_mask"] + eligible["entropy"] + eligible["decode"],
                           PassScopes)

CoverageOf(corroborated) == CASE Hunter = "pipe"      -> PipeCoverage
                              [] Hunter = "cs-beacon" -> CsCoverage(corroborated)
                              [] OTHER                -> EncodingCoverage

\* A pass left no target behind.
NoTargets(passes) == \A i \in DOMAIN notes : notes[i].pass \notin passes

\* CoverageSnapshot.evaluated and .complete, each hunter's own.
Evaluated == CASE Hunter = "pipe"      -> HasRegions \/ dump.handles # "absent"
               [] Hunter = "cs-beacon" -> dump.table # <<>>
               [] OTHER                -> HasRegions
SnapshotComplete(corroborated) ==
    CASE Hunter = "pipe" -> dump.handles = "present" /\ NoTargets({"pipe"}) /\ spent = {}
      [] Hunter = "cs-beacon" -> /\ NoTargets({"cs-beacon"}) /\ HasRegions
                                 /\ evidence # {} /\ ~corroborated => dump.threads = "whole"
      [] OTHER -> ~FullySkipped /\ NoTargets(Layers) /\ ~DecodeExhausted

\* derive_status
DeriveStatus(evaluated, detected, complete) ==
    IF ~evaluated THEN "NOT_EVALUATED" ELSE IF detected THEN "DETECTED"
    ELSE IF complete THEN "NOT_DETECTED_IN_SCANNED_SCOPE" ELSE "INCONCLUSIVE"

\* Mutant: the hunters of a run share what one of them spent.
SharedSpending == spent

\* Every hunter builds its own budgets, from the configuration alone.
FreshSpending == {}

\* What may be scored: a handle for pipe, a configuration for cs-beacon, a payload
\* for obfuscation.
Scorable == CASE Hunter = "pipe"      -> dump.handles \in {"present", "truncated"}
              [] Hunter = "cs-beacon" -> evidence # {}
              [] OTHER                -> evidence # {}

\* _build_*_report and its record: the hunter's report is projected once.
Publish ==
    /\ pc = "publish"
    /\ \E detected, corroborated \in BOOLEAN :
         /\ detected => Scorable
         /\ Hunter = "cs-beacon" => detected = (evidence # {})
         /\ corroborated => Hunter = "cs-beacon" /\ evidence # {}
         /\ records' = Append(records,
              [hunter |-> Hunter, evidence |-> evidence,
               status |-> DeriveStatus(Evaluated, detected, SnapshotComplete(corroborated)),
               coverage |-> CoverageOf(corroborated)])
    /\ IF h < Len(roster) THEN h' = h + 1 /\ p' = 1 /\ k' = 1 /\ pc' = "walk"
       ELSE pc' = "finish" /\ UNCHANGED <<h, p, k>>
    /\ spent' = FreshSpending /\ evidence' = {}
    /\ UNCHANGED <<Run, notes, scanned, eligible, seen, sampled, document>>

------------------------------------------------------------------------------
(* The document *)

Statuses == {records[i].status : i \in DOMAIN records}

\* build_hunt_summary's overall_status
OverallStatus ==
    IF "DETECTED" \in Statuses THEN "DETECTED"
    ELSE IF Statuses = {"NOT_EVALUATED"} THEN "NOT_EVALUATED"
    ELSE IF Statuses \intersect {"INCONCLUSIVE", "NOT_EVALUATED"} # {} THEN "INCONCLUSIVE"
    ELSE "NOT_DETECTED_IN_SCANNED_SCOPE"

Reports == [i \in DOMAIN records |-> records[i].coverage]

\* _hunt_coverage_report: from every record's own coverage, never from the summary.
DocumentStatus ==
    IF OverallStatus = "NOT_EVALUATED" THEN "not_evaluated"
    ELSE IF \E i \in DOMAIN records : Reports[i].status # "complete" THEN "partial" ELSE "complete"

\* collect_hunt, and cmd_hunt's exit code; only --hunt all has a queue.
Finish ==
    /\ pc = "finish"
    /\ document' = [overall |-> OverallStatus, status |-> DocumentStatus,
                    missed |-> CombineMissedBytes(Reports), exit |-> ExitCode(DocumentStatus),
                    queue |-> IF Len(roster) > 1
                              THEN BuildInvestigationQueue(records, dump.regions) ELSE <<>>]
    /\ pc' = "done"
    /\ UNCHANGED <<Run, h, p, k, spent, notes, scanned, eligible, evidence, seen, sampled, records>>

Next == \/ SkipOversize \/ SkipUnbudgeted \/ ReadFails \/ TooLittle \/ SearchLayer \/ SearchPipe
        \/ SearchSegment \/ StopSegments \/ EndPass \/ Publish \/ Finish \/ Spend

Spec == Init /\ [][Next]_vars

------------------------------------------------------------------------------
(* Properties *)

Published == 1..Len(records)
PassesOf(hunter) == ToSet(Passes(hunter))

\* The captured addresses of an item that the pass did not search.
Unsearched(x) == (x.range.base + x.examined)..(x.range.base + x.captured - 1)
InScope(pass) == {x \in ToSet(seen) : x.pass = pass}
Undone(hunter) == MapThenSumSet(
    LAMBDA pass : Cardinality(UNION {Unsearched(x) : x \in InScope(pass)}), PassesOf(hunter))
Work(hunter) == MapThenSumSet(
    LAMBDA pass : Total([i \in DOMAIN ItemsOf(pass) |->
        IF pass = "cs-beacon" THEN ItemsOf(pass)[i].size
        ELSE RegionTarget(dump.table, ItemsOf(pass)[i], 0).captured],
        Len(ItemsOf(pass))), PassesOf(hunter))

\* The addresses the gaps of some reports name.
NamedBy(reports) ==
    UNION {Bytes(UnexaminedRange(t)) : t \in
       {t \in UNION {UNION {ToSet(l.targets) : l \in {x \in ToSet(c.limitations) : Itemized(x)}} :
                     c \in reports} : UnexaminedBytes(t) # Unmeasured}}

\* What a MissedBytes says is what a count of addresses says, and its constructor
\* would accept it.
Measures(m, named) ==
    /\ m.known = Cardinality(named)
    /\ m.distinct = Cardinality({a \in named : a - 1 \notin named})
    /\ m.distinct <= m.quantified /\ (m.undone > 0 => m.quantified > 0)

\* The run is somewhere in its walk, only the budgets of the hunter at work can be
\* spent, and a region is walked only once per pass.
TypeOK ==
    /\ pc \in {"walk", "publish", "finish", "done"}
    /\ h \in DOMAIN roster /\ p \in DOMAIN Passes(Hunter) /\ k \in 1..(Len(Items) + 1)
    /\ spent \subseteq Budgets(Hunter)
    /\ Len(records) = IF pc \in {"finish", "done"} THEN Len(roster) ELSE h - 1
    /\ \A pass \in AllPasses : Cardinality(InScope(pass)) <= Len(ItemsOf(pass))

\* _union_length and summarize_missed_bytes over every record, combine_missed_bytes
\* over the document: however many passes and hunters name a byte, and in whatever
\* overlapping ranges, it is missed once; the document's figure is that of all its
\* records together and is exact only if each of theirs is.
BytesCountedOnce ==
    /\ \A i \in Published : Measures(MissedBytesOf(Reports[i]), NamedBy({Reports[i]}))
    /\ pc = "done" =>
         /\ Measures(document.missed, NamedBy(ToSet(Reports)))
         /\ document.missed.eligible = NoScale
         /\ (MissedState(document.missed) = "exact")
              = \A i \in Published : MissedState(MissedBytesOf(Reports[i])) = "exact"

\* The unscanned share of a record is a share of its own work: never withdrawn, never
\* above the whole, never above what was really left; and where the record claims to
\* be exact, it is what was left, of all the work the dump held for it.
ShareIsHonest ==
    \A i \in Published :
       LET c == Reports[i]
           m == MissedBytesOf(c)
           hunter == records[i].hunter
       IN c.status # "not_evaluated" =>
            /\ m.undone <= Undone(hunter) /\ m.eligible # NoScale
            /\ MissedState(m) = "exact" =>
                 /\ m.undone = Undone(hunter)
                 /\ hunter # "cs-beacon" => m.eligible = Work(hunter)

\* A record is complete only if each of its passes searched every byte of every range
\* it accepts and the streams its verdict needs were there; the hunter's own snapshot
\* says the same as its report; and the document claims no more than its records.  A
\* byte counts as searched when its pass took it up: a buffer only sampled (see
\* SampledSearchIsCounted), one whose XOR sub-layer never ran because its memory is not
\* private, and one whose further matches a quota dropped all do.
CleanIsEarned ==
    /\ \A i \in Published :
         LET c == Reports[i]
             hunter == records[i].hunter
         IN /\ c.status = "complete" =>
                 /\ \A pass \in PassesOf(hunter) : \A j \in DOMAIN ItemsOf(pass) :
                       \E x \in InScope(pass) : /\ x.range = RangeOf(ItemsOf(pass)[j])
                                                /\ x.examined = x.range.size
                 /\ hunter = "pipe" => dump.handles = "present"
                 /\ hunter # "pipe" => HasRegions
            /\ records[i].status = "NOT_DETECTED_IN_SCANNED_SCOPE" => c.status = "complete"
            /\ (records[i].status = "NOT_EVALUATED") = (c.status = "not_evaluated")
            /\ c.status = "complete" => records[i].status # "INCONCLUSIVE"
    /\ pc = "done" =>
         /\ document.exit = 0 => \A i \in Published : Reports[i].status = "complete"
         /\ (document.exit = 4) = (document.overall = "NOT_EVALUATED")
         /\ document.overall = "NOT_DETECTED_IN_SCANNED_SCOPE" => document.exit = 0

\* Every range a record could not examine is in the queue once, with every hunter,
\* source, scope and cause that left it; a rescan is offered only where it can read
\* something; and failed reads of bytes the dump never held are no corroboration.
QueueKeepsEveryGap ==
    pc = "done" /\ Len(roster) > 1 =>
       LET q == document.queue
           At(r) == {n \in DOMAIN q : q[n].target.range = r}
       IN /\ \A i \in Published : \A l \in ToSet(Reports[i].limitations) : \A t \in ToSet(l.targets) :
                /\ Cardinality(At(t.range)) = 1
                /\ \A n \in At(t.range) : [hunter |-> records[i].hunter, source |-> l.source,
                                           scope |-> l.scope, cause |-> Cause(l.code)]
                                          \in q[n].skippedBy
          /\ \A n \in DOMAIN q :
                /\ q[n].rescan # {} => \E a \in Bytes(q[n].target.range) : Containing(dump.table, a) # 0
                /\ "MULTIPLE_SCOPES_SKIPPED" \in q[n].reasons =>
                      /\ Cardinality(q[n].skippedBy) > 1
                      /\ \/ q[n].target.captured > 0
                         \/ \E s \in q[n].skippedBy : s.cause # "read_failed"
                /\ n > 1 => PriorityRank[q[n - 1].priority] <= PriorityRank[q[n].priority]

\* The comment on MemoryGapKind (output/coverage.py): a search that read its bytes and
\* did not apply everything to them, such as the strided windows of the sleep mask, is
\* counted, so the aggregate claims no exactness the run does not have.
SampledSearchIsCounted ==
    \A i \in Published : records[i].hunter = "obfuscation" /\ sampled =>
       MissedState(MissedBytesOf(Reports[i])) # "exact"
==============================================================================
