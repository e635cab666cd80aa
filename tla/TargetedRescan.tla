---------------------------- MODULE TargetedRescan ----------------------------
(***************************************************************************)
(* One targeted rescan: an investigator names a range of the process and   *)
(* one analyzer looks at it again (dumpex.hunt.<analyzer>.targeted).  The  *)
(* range is clipped to the descriptor that holds its base, its bytes are   *)
(* read, each granted scope of the analyzer looks at them under the budgets*)
(* of the invocation, and each scope answers with a closure: a status and  *)
(* the targets that are still unexamined.  The clock and the limits that   *)
(* spend a budget are one nondeterministic step, Spend.                    *)
(***************************************************************************)
EXTENDS CapturedBytes

CONSTANTS
    Tables,      \* the memory-segment tables considered
    RegionLists, \* the MemoryInfo region lists considered: [base, size, kind]
    Requests,    \* the requested ranges considered
    Analyzers,   \* the analyzers considered
    MinInput     \* ENTROPY_MIN_INPUT and the sleep mask's own minimum extent

AnalyzerNames == {"cs-beacon", "yara", "stomping", "pipe", "obfuscation"}

\* A region's type, protection and module, as the gates tell them apart: MEM_PRIVATE
\* that is read-write, otherwise protected, or inside a module's range ("backed");
\* MEM_IMAGE that is executable, not executable, or a system DLL's; mapped; not committed.
Kinds == {"private", "private_rx", "backed", "image", "image_ro", "system", "mapped", "free"}
PrivateKinds == {"private", "private_rx", "backed"}

ASSUME RescanAssumption ==
    /\ \A t \in Tables : t \in Seq([base: Nat, size: Nat, offset: Nat])
    /\ \A l \in RegionLists : l \in Seq([base: Nat, size: Nat, kind: Kinds])
    /\ Requests \subseteq [base: Nat \ {0}, size: Nat \ {0}]
    /\ \A r \in Requests : Representable(r)
    /\ Analyzers \subseteq AnalyzerNames /\ MinInput \in Nat

VARIABLES
    table, regions, req, analyzer, \* the dump and the request
    pc,                            \* where the adapter is
    capture, place,                \* the CapturedSlice and the containing descriptor
    spent,                         \* the budgets that have run out
    prevented,                     \* pipe: those seen spent before the read
    got,                           \* bytes of the evaluated range in hand
    ledger,                        \* what each scope's scan recorded
    closures                       \* the answer

vars == <<table, regions, req, analyzer, pc, capture, place, spent, prevented, got, ledger,
          closures>>

Unmeasured == -1
SegmentUnits == {"cs-beacon", "yara"}    \* anchored to a captured segment, not a region

\* The scopes the capability matrix grants, in closure order.
Granted == [a \in AnalyzerNames |->
    CASE a = "obfuscation" -> <<"sleep_mask", "entropy", "decode">>
      [] a = "pipe"        -> <<"pipe_name", "c2_context">>
      [] OTHER             -> <<a>>]

Scopes == ToSet(Granted[analyzer])

\* The one budget each scope spends from ("" when it has none).
Budget(scope) ==
    CASE scope \in {"sleep_mask", "decode"} -> "decode"
      [] scope \in {"pipe_name", "c2_context", "cs-beacon", "yara"} -> scope
      [] OTHER -> ""

Budgets == {Budget(s) : s \in Scopes} \ {""}

\* The descriptor kinds each region scope's own gate accepts.
Accepts(scope) ==
    CASE scope = "stomping"                     -> {"image", "system"}
      [] scope \in {"pipe_name", "c2_context"}  -> {"private", "private_rx", "backed", "image",
                                                    "image_ro", "system", "mapped"}
      [] scope = "sleep_mask"                   -> {"private"}
      [] scope = "entropy"                      -> {"private", "private_rx"}
      [] scope = "decode"                       -> {"private", "private_rx", "backed", "image",
                                                    "image_ro"}

Eval == place.boundary.eval

\* The *_ineligible_reason functions: this scope does not speak about this target.
Declined(scope) ==
    analyzer \notin SegmentUnits /\
       \/ place.kind \notin Accepts(scope)
       \/ scope \in {"sleep_mask", "entropy"} /\ Eval.size < MinInput

\* What one scope's scan recorded.  Two fields are history: the bytes looked at by each
\* pattern, key or rule the scan applied (for a pipe scope the name patterns among
\* them), and whether the scope withheld some of its patterns from bytes like these.
NewLedger == [scanned |-> FALSE, failed |-> FALSE, short |-> FALSE, cut |-> FALSE,
              cursor |-> Unmeasured, before |-> FALSE, leads |-> FALSE, details |-> {},
              gap |-> FALSE, applied |-> 0, withheld |-> FALSE]
NoPlace == [boundary |-> Boundary(VirtualRange(0, 1), VirtualRange(0, 1)), kind |-> ""]

Init ==
    /\ table \in Tables /\ regions \in RegionLists /\ req \in Requests /\ analyzer \in Analyzers
    /\ pc = "resolve" /\ place = NoPlace
    /\ capture = SliceCaptured(req, Views(table))
    /\ spent = {} /\ prevented = {} /\ got = Unmeasured
    /\ ledger = [s \in Scopes |-> NewLedger]
    /\ closures = <<>>

Dump == <<table, regions, req, analyzer>>

\* A closure: status, targets named, gaps without a target, the read it describes, and
\* what its measurements say was not applied.
Closure(scope, status, targets, untargeted, read, note) ==
    [scope |-> scope, status |-> status, targets |-> targets, untargeted |-> untargeted,
     read |-> read, note |-> note, captured |-> capture.captured.size,
     state |-> CaptureState(capture)]

\* _not_evaluated_result: nothing holds the base; every scope says so.
NotContained ==
    /\ pc = "resolve"
    /\ Containing(IF analyzer \in SegmentUnits THEN Views(table) ELSE Views(regions), req.base) = 0
    /\ closures' = [k \in DOMAIN Granted[analyzer] |->
                       Closure(Granted[analyzer][k], "not_evaluated", {}, FALSE, Unmeasured, "none")]
    /\ pc' = "done"
    /\ UNCHANGED <<Dump, capture, place, spent, prevented, got, ledger>>

\* resolve_region_boundary / resolve_segment_boundary, and the budgets looked at
\* before anything is read.
Resolve ==
    /\ pc = "resolve"
    /\ LET views == IF analyzer \in SegmentUnits THEN Views(table) ELSE Views(regions)
           k     == Containing(views, req.base)
       IN /\ k # 0
          /\ place' = [boundary |-> Boundary(req, VirtualRange(views[k].base, views[k].size)),
                       kind |-> IF analyzer \in SegmentUnits THEN "" ELSE views[k].kind]
    /\ prevented' = spent
    /\ pc' = IF analyzer \in SegmentUnits \union {"pipe"} THEN "gate" ELSE "read"
    /\ UNCHANGED <<Dump, capture, spent, got, ledger, closures>>

\* A deadline passes, or another use of the invocation's budget takes the last of it.
Spend == /\ pc # "done" /\ \E b \in Budgets \ spent : spent' = spent \union {b}
         /\ UNCHANGED <<Dump, pc, capture, place, prevented, got, ledger, closures>>

\* The scanner's own gate: the read is not made when no scope could use it.
Gate ==
    /\ pc = "gate"
    /\ \/ /\ \A s \in Scopes : Declined(s)
          /\ pc' = "close" /\ UNCHANGED ledger
       \/ /\ \E s \in Scopes : ~Declined(s)
          /\ Budgets \subseteq spent
          /\ pc' = "close"
          /\ ledger' = [s \in Scopes |-> [NewLedger EXCEPT !.cut = TRUE]]
       \/ /\ \E s \in Scopes : ~Declined(s)
          /\ ~(Budgets \subseteq spent)
          /\ pc' = "read" /\ UNCHANGED ledger
    /\ UNCHANGED <<Dump, capture, place, spent, prevented, got, closures>>

\* Mutant: what the reader hands back is taken whole.
Unclamped(n) == n

Clamp(n) == Min({n, capture.captured.size})

\* read_region on the slice: one read through the segment the raw table finds first.
ReadSlice ==
    /\ pc = "read" /\ analyzer \in SegmentUnits
    /\ LET k    == Containing(table, Eval.base)
           left == End(table[k]) - Eval.base
       IN got' \in IF left < Eval.size THEN {0} ELSE 0..Eval.size
    /\ pc' = IF got' = 0 THEN "close" ELSE "search"
    /\ ledger' = [s \in Scopes |-> [NewLedger EXCEPT !.failed = (got' = 0),
                                                     !.short  = (0 < got' /\ got' < Eval.size),
                                                     !.scanned = (0 < got')]]
    /\ UNCHANGED <<Dump, capture, place, spent, prevented, closures>>

\* One chunk of read_region_spanning: what is left of the segment at the position.
ChunkAt(position, remaining) ==
    LET k == Containing(table, position)
    IN IF k = 0 THEN 0 ELSE Min({remaining, End(table[k]) - position})

Read == IF got = Unmeasured THEN 0 ELSE got

\* read_region_spanning re-positions before every chunk, so it crosses segments.
ReadChunk ==
    /\ pc = "read" /\ analyzer \notin SegmentUnits /\ Read < Eval.size
    /\ LET want == ChunkAt(Eval.base + Read, Eval.size - Read)
       IN /\ want > 0
          /\ \E n \in 1..want : got' = Read + n
    /\ UNCHANGED <<Dump, pc, capture, place, spent, prevented, ledger, closures>>

\* The end of the run, an error or an empty chunk ends the read; what came back is
\* clamped to what the capture model says the dump holds.
ReadStops ==
    /\ pc = "read" /\ analyzer \notin SegmentUnits
    /\ got' = Clamp(Read)
    /\ pc' = IF got' = 0 \/ \A s \in Scopes : Declined(s) THEN "close" ELSE "search"
    /\ ledger' = [s \in Scopes |->
                    IF Declined(s) THEN NewLedger
                    ELSE [NewLedger EXCEPT !.failed = (got' = 0),
                                           !.short  = (0 < got' /\ got' < Eval.size)]]
    /\ UNCHANGED <<Dump, capture, place, spent, prevented, closures>>

\* cs-beacon: the marker walk finishes, or a budget stops it, at a cursor when the
\* last key's pass had begun.
SearchMarkers ==
    /\ pc = "search" /\ analyzer = "cs-beacon"
    /\ \/ ledger' = [ledger EXCEPT ![analyzer].applied = got] /\ UNCHANGED spent
       \/ /\ spent' = spent \union {analyzer}
          /\ \E c \in {Unmeasured} \union 0..got :
               ledger' = [ledger EXCEPT ![analyzer].cut = TRUE, ![analyzer].cursor = c,
                                        ![analyzer].applied = IF c = Unmeasured THEN 0 ELSE c]
    /\ pc' = "close"
    /\ UNCHANGED <<Dump, capture, place, prevented, got, closures>>

\* yara: no rule file survived, so nothing is read.
NoRules ==
    /\ pc = "gate" /\ analyzer = "yara"
    /\ closures' = <<Closure("yara", "not_evaluated", {}, TRUE, Unmeasured, "none")>>
    /\ pc' = "done"
    /\ UNCHANGED <<Dump, capture, place, spent, prevented, got, ledger>>

\* yara: every rule finishes, or one fails or times out (gap), or a cap or budget
\* leaves rules unmatched (cut).  A rule that never compiled, or hits none of which
\* could be placed, is a gap without bytes.
MatchRules ==
    /\ pc = "search" /\ analyzer = "yara"
    /\ \E gap, cut \in BOOLEAN,
          details \in SUBSET {"rule_compile_failed", "match_context_unverified"} :
         /\ ledger' = [ledger EXCEPT ![analyzer].gap = gap, ![analyzer].cut = cut,
                         ![analyzer].details = details,
                         ![analyzer].applied =
                            IF gap \/ cut \/ "rule_compile_failed" \in details THEN 0 ELSE got]
         /\ spent' = IF cut THEN spent \union {analyzer} ELSE spent
    /\ pc' = "close"
    /\ UNCHANGED <<Dump, capture, place, prevented, got, closures>>

\* stomping: strings are extracted and classified; a network module of the white list
\* is not searched for the network patterns.
ScanStrings ==
    /\ pc = "search" /\ analyzer = "stomping"
    /\ \E withheld \in BOOLEAN :
         ledger' = [ledger EXCEPT ![analyzer].scanned = TRUE,
                      ![analyzer].applied = got, ![analyzer].withheld = withheld,
                      ![analyzer].details = IF withheld THEN {"pattern_set_withheld"} ELSE {}]
    /\ pc' = "close"
    /\ UNCHANGED <<Dump, capture, place, spent, prevented, got, closures>>

\* pipe: the name patterns.  With the budget already spent nothing is examined; the
\* budget can also refuse a hit (cut), and a quota can drop an occurrence.  A name in a
\* system DLL is no lead, and without a lead the C2 patterns are not run.
MatchNames ==
    /\ pc = "search" /\ analyzer = "pipe"
    /\ \E cut, capped, leads \in BOOLEAN :
         LET examined == "pipe_name" \notin spent
             stops    == cut \/ ~examined
         IN /\ leads => examined /\ place.kind # "system"
            /\ capped => examined
            /\ ledger' = [s \in Scopes |->
                  [ledger[s] EXCEPT !.scanned = examined, !.leads = leads,
                      !.cut = (s = "pipe_name" /\ stops),
                      !.details = IF capped THEN {"match_cap_reached"} ELSE {},
                      !.withheld = (s = "c2_context" /\ ~leads),
                      !.applied = IF stops \/ capped THEN 0 ELSE got]]
            /\ spent' = IF cut THEN spent \union {"pipe_name"} ELSE spent
    /\ pc' = "c2"
    /\ UNCHANGED <<Dump, capture, place, prevented, got, closures>>

\* pipe: the C2 passes around the names this range yielded.
GatherC2 ==
    /\ pc = "c2"
    /\ \E cut, capped \in BOOLEAN :
         LET runs  == ledger["c2_context"].leads
             stops == runs /\ (cut \/ "c2_context" \in spent)
         IN /\ cut \/ capped => runs
            /\ ledger' = [ledger EXCEPT !["c2_context"].cut = stops,
                 !["c2_context"].details = @ \union (IF capped THEN {"context_only_cap_reached"} ELSE {}),
                 !["c2_context"].applied = IF stops \/ capped THEN 0 ELSE @]
            /\ spent' = IF cut THEN spent \union {"c2_context"} ELSE spent
    /\ pc' = "close"
    /\ UNCHANGED <<Dump, capture, place, prevented, got, closures>>

\* The sampling a layer's own bounds may impose on its search.
LayerDetails(scope) ==
    CASE scope = "sleep_mask" -> {"window_sampled", "candidate_list_truncated"}
      [] scope = "entropy"    -> {"entropy_window_sampled"}
      [] OTHER                -> {}

\* obfuscation: one layer over the shared buffer, its budget seen before and after.
\* The decoders try no XOR key outside private memory.
Layer(scope) ==
    /\ \E details \in SUBSET LayerDetails(scope), cut \in BOOLEAN :
         LET before  == Budget(scope) \in spent
             applies == ~Declined(scope)
             ran     == applies /\ ~before /\ (scope = "entropy" => got >= MinInput)
             stops   == applies /\ Budget(scope) # "" /\ (cut \/ before)
         IN /\ ledger' = [ledger EXCEPT ![scope].before = before, ![scope].scanned = ran,
                            ![scope].cut = stops,
                            ![scope].details = IF ran THEN details ELSE {},
                            ![scope].withheld = (scope = "decode" /\ place.kind \notin PrivateKinds),
                            ![scope].applied = IF ran /\ ~stops /\ details = {} THEN got ELSE 0]
            /\ spent' = IF stops THEN spent \union {Budget(scope)} ELSE spent

SleepMask == /\ pc = "search" /\ analyzer = "obfuscation" /\ Layer("sleep_mask")
             /\ pc' = "entropy"
             /\ UNCHANGED <<Dump, capture, place, prevented, got, closures>>
Entropy   == /\ pc = "entropy" /\ Layer("entropy") /\ pc' = "decode"
             /\ UNCHANGED <<Dump, capture, place, prevented, got, closures>>
Decode    == /\ pc = "decode" /\ Layer("decode") /\ pc' = "close"
             /\ UNCHANGED <<Dump, capture, place, prevented, got, closures>>

\* Did this scope's algorithm reach the bytes?
Reached(scope) ==
    /\ ledger[scope].scanned
    /\ ~(scope = "c2_context" /\ "c2_context" \in prevented /\ ledger[scope].leads)

\* Mutant: a scope answers for its own budget alone.
GapOfScope(scope) ==
    \/ CaptureState(capture) # "complete" \/ place.boundary.truncated
    \/ ledger[scope].short \/ ledger[scope].cut \/ ledger[scope].gap
    \/ ledger[scope].details # {} \/ capture.overlapping

\* Anything that keeps a closure that was reached from being complete.
Gap(scope) ==
    \/ CaptureState(capture) # "complete" \/ place.boundary.truncated
    \/ ledger[scope].short \/ ledger[scope].cut \/ ledger[scope].gap
    \/ scope = "c2_context" /\ ledger["pipe_name"].cut
    \/ ledger[scope].details # {} \/ capture.overlapping

Status(scope) ==
    IF Declined(scope) THEN "not_applicable"
    ELSE IF ~Reached(scope) THEN "not_evaluated"
    ELSE IF Gap(scope) THEN "partial" ELSE "complete"

\* A target for the range the scope was pointed at.
EvalTarget(examined) ==
    IF analyzer \in SegmentUnits
    THEN LET views == Views(table)
         IN ScanTarget(Eval, FileOffsetAt(views[Containing(views, req.base)], Eval.base),
                       Eval.size, examined)
    ELSE RegionScanTarget(table, Eval, examined)

\* requested_target: the whole request.
RequestedTarget(examined) ==
    IF analyzer \in SegmentUnits
    THEN ScanTarget(req, capture.offset, capture.captured.size, examined)
    ELSE RegionScanTarget(table, req, examined)

\* with_examined_extent: never more than the table backs.
Stamped(target, examined) == [target EXCEPT !.examined = Min({examined, target.captured})]

\* Mutant: the residual begins past the byte the budget stopped at.
ResidualPast(cursor) ==
    LET suffix  == SuffixAfter(req, Min({cursor + 1, req.size}))
        backing == Containing(capture.segments, suffix.base)
    IN IF suffix.size = 0 THEN {}
       ELSE {ScanTarget(suffix, IF backing = 0 THEN Unknown
                                ELSE FileOffsetAt(capture.segments[backing], suffix.base),
                        Max({0, capture.captured.size - (cursor + 1)}), 0)}

\* cs-beacon's _budget_residual_targets, from a stop cursor.
Residual(cursor) ==
    LET suffix  == SuffixAfter(req, Min({cursor, req.size}))
        backing == Containing(capture.segments, suffix.base)
    IN IF suffix.size = 0 THEN {}
       ELSE {ScanTarget(suffix, IF backing = 0 THEN Unknown
                                ELSE FileOffsetAt(capture.segments[backing], suffix.base),
                        Max({0, capture.captured.size - cursor}), 0)}

\* What the budget left, as the analyzer names it; obfuscation names no target.
BudgetTargets(scope) ==
    CASE analyzer \in SegmentUnits /\ Read = 0 -> {UnexaminedSuffix(capture, 0)}
      [] analyzer = "cs-beacon" /\ ledger[scope].cursor # Unmeasured ->
            LET residual == Residual(ledger[scope].cursor)
            IN IF residual # {} THEN residual ELSE {EvalTarget(ledger[scope].cursor)}
      [] analyzer = "pipe" /\ got = Unmeasured -> {EvalTarget(0)}
      [] analyzer = "obfuscation" -> {}
      [] OTHER -> {EvalTarget(Unmeasured)}

\* Mutant: the truncation names the whole request.
TruncatedWhole == Stamped(RequestedTarget(Unmeasured), 0)

\* evaluation_truncated_limitation: what lies past the containing descriptor.
Truncated == Stamped(RequestedTarget(Unmeasured), Eval.size)

\* The _limitations of one closure: the targets it names.
Targets(scope) ==
    LET l == ledger[scope]
    IN (IF l.failed THEN {Stamped(EvalTarget(Unmeasured), 0)} ELSE {})
       \union (IF l.short THEN {Stamped(EvalTarget(Unmeasured), got)} ELSE {})
       \union (IF place.boundary.truncated /\ Reached(scope) THEN {Truncated} ELSE {})
       \union (IF l.gap THEN {EvalTarget(Unmeasured)} ELSE {})
       \union (IF l.cut THEN BudgetTargets(scope) ELSE {})

\* A gap the closure states without naming bytes.
Untargeted(scope) ==
    \/ ledger[scope].details # {} /\ Reached(scope)
    \/ capture.overlapping /\ Reached(scope)
    \/ analyzer = "obfuscation" /\ ledger[scope].cut

\* A measurement that tells a reader which patterns were not applied: the XOR
\* sub-layer, and with no name retained the C2 patterns.
Note(scope) ==
    CASE scope = "decode" /\ Reached(scope) /\ place.kind \notin PrivateKinds -> "xor_not_applied"
      [] scope = "pipe_name" /\ ~ledger[scope].leads -> "no_names_retained"
      [] OTHER -> "none"

Close ==
    /\ pc = "close"
    /\ closures' = [k \in DOMAIN Granted[analyzer] |->
          LET scope == Granted[analyzer][k]
          IN IF Declined(scope) THEN Closure(scope, "not_applicable", {}, FALSE, Unmeasured, "none")
             ELSE Closure(scope, Status(scope), Targets(scope), Untargeted(scope),
                          IF Reached(scope) THEN Read ELSE Unmeasured, Note(scope))]
    /\ pc' = "done"
    /\ UNCHANGED <<Dump, capture, place, spent, prevented, got, ledger>>

Adapter == \/ NotContained \/ Resolve \/ Gate \/ NoRules \/ ReadSlice \/ ReadChunk \/ ReadStops
           \/ SearchMarkers \/ MatchRules \/ ScanStrings \/ MatchNames \/ GatherC2
           \/ SleepMask \/ Entropy \/ Decode \/ Close

Next == Adapter \/ Spend

Spec == Init /\ [][Next]_vars

------------------------------------------------------------------------------
\* One closure per granted scope, in order, with a status and a read that fit
\* ObservationClosure: these are what its constructor would refuse.
TypeOK ==
    /\ pc \in {"resolve", "gate", "read", "search", "c2", "entropy", "decode", "close", "done"}
    /\ spent \subseteq Budgets /\ prevented \subseteq spent
    /\ got \in Int /\ Read <= req.size
    /\ pc = "done" => DOMAIN closures = DOMAIN Granted[analyzer]
    /\ \A k \in DOMAIN closures :
         LET c == closures[k]
         IN /\ c.status \in {"complete", "partial", "not_evaluated", "not_applicable"}
            /\ (c.status \in {"complete", "partial"}) = (c.read # Unmeasured)
            /\ c.read # Unmeasured => c.state # "none" /\ c.read \in 1..c.captured
            /\ \A t \in c.targets : t.captured <= t.range.size /\ t.examined <= t.captured

\* Where the well-formed descriptors put a byte of the process.
Places(a) == {FileOffsetAt(table[i], a) : i \in {j \in DOMAIN table : Representable(table[j])
                                                                /\ ContainsAddress(table[j], a)}}
Backers(a) == {i \in DOMAIN table : Representable(table[i]) /\ ContainsAddress(table[i], a)}

\* Every descriptor that has an extent is one the views keep.
WellFormed == \A i \in DOMAIN table : table[i].size > 0 => Representable(table[i])

\* The captured prefix is exactly the run of backed bytes from the base, its tiles say
\* where each is, and a byte with two places is never passed over in silence; on a
\* table of representable descriptors the whole-dump lookups say the same.
CapturedIsExact ==
    LET n == capture.captured.size
    IN /\ \A x \in 0..(n - 1) : Backers(req.base + x) # {}
       /\ n < req.size => Backers(req.base + n) = {}
       /\ capture.overlapping <=> \E x \in 0..(n - 1) : Cardinality(Backers(req.base + x)) > 1
       /\ \A k \in DOMAIN capture.segments : \A a \in Bytes(capture.segments[k]) :
             FileOffsetAt(capture.segments[k], a) \in Places(a)
       /\ WellFormed =>
             /\ CapturedRangeLength(table, req.base, req.size) = n
             /\ ~capture.overlapping => SegmentFileOffset(table, req.base) = capture.offset

Evaluated == {k \in DOMAIN closures : closures[k].status \in {"complete", "partial"}}

\* The captured bytes a target says were not examined (all of them when unmeasured).
Unexamined(t) == {a \in t.range.base..(t.range.base + t.captured - 1) :
                     t.examined = Unmeasured \/ a >= t.range.base + t.examined}

\* How many bytes every pattern of a scope has looked at.
Searched(scope) == IF ledger[scope].withheld THEN 0 ELSE ledger[scope].applied

\* The answer says itself that patterns of this scope were not applied: the XOR
\* sub-layer by a measurement of its own closure, the C2 patterns by the pipe_name
\* closure, which retained no name for them to look around.
Disclosed(scope) ==
    \E k \in DOMAIN closures :
       <<scope, closures[k].note>> \in {<<"decode", "xor_not_applied">>,
                                        <<"c2_context", "no_names_retained">>}

\* What the answer lets a reader take as searched: by every pattern of the scope or,
\* where it says that some were not applied, by each of the others.
Claimed(scope) == IF Disclosed(scope) THEN ledger[scope].applied ELSE Searched(scope)

\* A closure is complete only if the dump holds every requested byte in one place and
\* every pattern of the scope has looked at each of them; and then it names no gap.
\* Two closures are complete with patterns withheld, and only where the answer says so:
\* decode outside private memory, whose measurements say that no XOR key was tried, and
\* c2_context where no pipe name was retained, the name patterns having looked at every
\* byte for one.
CompleteIsWhole ==
    \A k \in DOMAIN closures : closures[k].status = "complete" =>
       /\ \A a \in Bytes(req) : Cardinality(Backers(a)) = 1
       /\ Claimed(closures[k].scope) = req.size
       /\ closures[k].targets = {} /\ ~closures[k].untargeted

\* A scope that was evaluated leaves no captured byte without a look from every one of
\* its patterns unless a closure names the byte, states a gap that has no extent, or
\* says that those patterns were not applied (see CompleteIsWhole), and then the
\* others have looked at it.
EveryByteAnswered ==
    \A k \in Evaluated : \A a \in Bytes(capture.captured) :
       \/ a < req.base + Claimed(closures[k].scope)
       \/ closures[k].untargeted
       \/ \E j \in DOMAIN closures : \E t \in closures[j].targets : a \in Unexamined(t)

\* What a closure measures as unexamined is: nothing the scope has finished with is
\* sent back for another rescan, and each target says where the dump keeps it (in a
\* dump with a descriptor past the address space the two lookups may differ).
NamedIsUnread ==
    \A k \in Evaluated : \A t \in closures[k].targets :
       /\ t.examined # Unmeasured =>
             \A a \in Unexamined(t) : a >= req.base + ledger[closures[k].scope].applied
       /\ WellFormed /\ ~capture.overlapping /\ t.range.size > 0 /\ t.captured > 0 =>
             t.offset = SegmentFileOffset(table, t.range.base)
==============================================================================
