------------------------------ MODULE ImageHunts ------------------------------
(***************************************************************************)
(* The two hunters that compare a loaded image with what it should be.     *)
(* dumpex.hunt.stomping walks the modules and their executable sections,   *)
(* compares each with a reference file, then searches the executable image *)
(* regions for IOC strings; dumpex.hunt.hollowing looks at the one image   *)
(* base the PEB names.  Each ends in a record: a score, the hunter's own   *)
(* status and its coverage report.                                         *)
(***************************************************************************)
EXTENDS PeImage, CoverageReport

CONSTANTS
    Dumps,       \* [modules, regions, table, tampered, ips, peb]: modules [name, base,
                 \* build], none when the dump has no module list; regions none when it
                 \* has no MemoryInfo; tampered cells by address; peb 0 when unparsed
    RefDirs,     \* [supplied, files]: --ref-dir and its files [state, build, cells] by name
    HeaderRead,  \* PE_VALIDATE_READ_MAX
    IocScanMax,  \* IOC_SCAN_MAX
    MzRead,      \* MZ_READ_LEN
    MzMin,       \* MZ_MIN_BYTES
    MaxFaults    \* bound: reads that come back empty or one cell short

ASSUME ImageHuntsAssumption ==
    /\ \A d \in Dumps :
          /\ \A i, j \in DOMAIN d.modules : i < j =>
                d.modules[i].base + d.modules[i].build.image <= d.modules[j].base
          /\ \A i \in DOMAIN d.regions : d.regions[i].base > 0 /\ d.regions[i].size > 0
          /\ \A i \in DOMAIN d.table : Representable(d.table[i]) /\ d.table[i].base > 0
    /\ HeaderRead \in Nat \ {0} /\ MzMin \in 1..MzRead

VARIABLES
    dump, refdir,  \* the run
    answer,        \* how many bytes a read of a range returns, or Raised
    pc, m, s, k,   \* where the run is: module, its section (0: its header), region
    counts,        \* the walk's counters
    diffs,         \* SectionDiffResult of each section that differs
    tracker,       \* the CoverageTracker of the IOC scan
    notes,         \* the IOC scan's gaps: [code, target]
    compared,      \* history: the sections that were compared
    searched,      \* history: how much of each eligible region the IOC scan searched
    records

vars == <<dump, refdir, answer, pc, m, s, k, counts, diffs, tracker, notes, compared, searched,
          records>>
Run  == <<dump, refdir, answer>>
Sections == <<m, s, counts, diffs, compared>>
Ioc  == <<k, tracker, notes, searched>>

Books  == INSTANCE CoverageTracker WITH Unmeasured <- Unmeasured
Raised == -1

Outcomes == {"sections_compared", "reference_missing", "reference_mismatch",
             "reference_read_failed", "memory_read_failed", "short_reads", "relocation_failed"}
Counters == Outcomes \union {"headers_parsed", "header_read_failed", "header_parse_failed",
                             "sections_total"}

------------------------------------------------------------------------------
(* Process memory *)

Module  == dump.modules[m]
Section == Module.build.sections[s]

ImageRange(mod) == VirtualRange(mod.base, mod.build.image)
HeaderRange(mod) == VirtualRange(mod.base, Min({HeaderRead, mod.build.image}))
SectionRange(mod, section) ==
    VirtualRange(mod.base + section.va, Min({ExpectedLength(section), SectionExtent(section)}))
RegionRange(r) == VirtualRange(r.base, r.size)
MzRange(d) == VirtualRange(d.peb, MzRead)

\* addr_to_module
ModuleAt(d, a) == SelectInSeq(d.modules, LAMBDA mod : ContainsAddress(ImageRange(mod), a))

\* What a cell of the process holds: what was written over it, or what was mapped.
Cell(d, a) ==
    LET n == ModuleAt(d, a)
    IN IF a \in DOMAIN d.tampered THEN d.tampered[a]
       ELSE IF n = 0 THEN 0 ELSE Mapped(d.modules[n].build, d.modules[n].base)[a - d.modules[n].base]

\* A section that declares itself code nobody writes to.
Compares(section) == section.exec /\ ~section.write

\* Committed, executable memory of a mapped image.
IocEligible(r) == r.kind \in {"image-rx", "image-rwx"}

ReadRanges(d) ==
    {HeaderRange(mod) : mod \in ToSet(d.modules)}
    \union UNION {{SectionRange(mod, section) :
                     section \in {x \in ToSet(mod.build.sections) : Compares(x)}} : mod \in ToSet(d.modules)}
    \union {RegionRange(r) : r \in {x \in ToSet(d.regions) : IocEligible(x)}}
    \union (IF d.peb = 0 THEN {} ELSE {MzRange(d)})

\* A read goes through the first segment that holds its base, and raises past its end.
Readable(d, r) ==
    LET seg == Containing(d.table, r.base)
    IN seg # 0 /\ End(r) <= End(d.table[seg])

\* The cells a read returns; none when it raised.
Read(r) == [i \in 1..Max({0, answer[r]}) |-> Cell(dump, r.base + i - 1)]

MemoryInfo == dump.regions # <<>>
ModuleList == dump.modules # <<>>

Init ==
    /\ dump \in Dumps /\ refdir \in RefDirs
    /\ LET reads == ReadRanges(dump)
           held  == {r \in reads : Readable(dump, r)}
       IN \E empty, short \in SUBSET held :
            /\ Cardinality(empty) + Cardinality(short) <= MaxFaults /\ empty \intersect short = {}
            /\ \A r \in short : r.size > 1
            /\ answer = [r \in reads |-> IF r \notin held THEN Raised
                                        ELSE IF r \in empty THEN 0
                                        ELSE IF r \in short THEN r.size - 1 ELSE r.size]
    /\ pc = IF MemoryInfo /\ ModuleList THEN "modules" ELSE "ioc"
    /\ m = 1 /\ s = 0 /\ k = 1
    /\ counts = [c \in Counters |-> 0]
    /\ diffs = <<>> /\ compared = {} /\ searched = <<>> /\ notes = <<>>
    /\ tracker = Books!NewTracker
    /\ records = <<>>

------------------------------------------------------------------------------
(* Stomping: modules and their sections *)

Count(counters) == counts' = [c \in Counters |-> counts[c] + IF c \in counters THEN 1 ELSE 0]
NextModule == m' = m + 1 /\ s' = 0

AtHeader  == pc = "modules" /\ m <= Len(dump.modules) /\ s = 0
AtSection == pc = "modules" /\ m <= Len(dump.modules) /\ s \in DOMAIN Module.build.sections

HeaderUnread ==
    /\ AtHeader /\ answer[HeaderRange(Module)] = Raised
    /\ Count({"header_read_failed"}) /\ NextModule
    /\ UNCHANGED <<Run, pc, diffs, compared, Ioc, records>>

\* parse_pe_header over what came back: the magic, and the whole section table.
HeaderValid == LET got == Read(HeaderRange(Module))
               IN Len(got) >= Module.build.headers /\ got[1] = MZ

HeaderInvalid ==
    /\ AtHeader /\ answer[HeaderRange(Module)] # Raised /\ ~HeaderValid
    /\ Count({"header_parse_failed"}) /\ NextModule
    /\ UNCHANGED <<Run, pc, diffs, compared, Ioc, records>>

HeaderParsed ==
    /\ AtHeader /\ answer[HeaderRange(Module)] # Raised /\ HeaderValid
    /\ Count({"headers_parsed"}) /\ s' = 1
    /\ UNCHANGED <<Run, pc, m, diffs, compared, Ioc, records>>

SkipSection ==
    /\ AtSection /\ ~Compares(Section)
    /\ s' = s + 1
    /\ UNCHANGED <<Run, pc, m, counts, diffs, compared, Ioc, records>>

\* Without --ref-dir a section is only counted.
CountSection ==
    /\ AtSection /\ Compares(Section) /\ ~refdir.supplied
    /\ Count({"sections_total"}) /\ s' = s + 1
    /\ UNCHANGED <<Run, pc, m, diffs, compared, Ioc, records>>

\* diff_section, after find_reference_file: memory first, then the file.
DiffSection(mod, section) ==
    LET mem == Read(SectionRange(mod, section))
        Ended(outcome) == [outcome |-> outcome, ranges |-> <<>>]
    IN IF mod.name \notin DOMAIN refdir.files THEN Ended("reference_missing")
       ELSE IF mem = <<>> THEN Ended("memory_read_failed")
       ELSE DiffSectionOnDisk(refdir.files[mod.name], mod.build, mod.base, section, mem)

DiffAgainstReference ==
    /\ AtSection /\ Compares(Section) /\ refdir.supplied
    /\ LET diff == DiffSection(Module, Section)
       IN /\ Count({"sections_total", diff.outcome})
          /\ diffs' = IF diff.ranges = <<>> THEN diffs
                      ELSE Append(diffs, [at |-> <<m, s>>, start |-> Module.base + Section.va,
                                          ranges |-> diff.ranges])
          /\ compared' = IF diff.outcome = "sections_compared" THEN compared \union {<<m, s>>}
                         ELSE compared
    /\ s' = s + 1
    /\ UNCHANGED <<Run, pc, m, Ioc, records>>

EndModule ==
    /\ pc = "modules" /\ m <= Len(dump.modules) /\ s > Len(Module.build.sections)
    /\ NextModule
    /\ UNCHANGED <<Run, pc, counts, diffs, compared, Ioc, records>>

EndModules ==
    /\ pc = "modules" /\ m > Len(dump.modules)
    /\ pc' = "ioc"
    /\ UNCHANGED <<Run, Sections, Ioc, records>>

------------------------------------------------------------------------------
(* Stomping: the IOC strings of the executable image regions *)

Region   == dump.regions[k]
AtRegion == pc = "ioc" /\ k <= Len(dump.regions)
Taken(examined) == RegionTarget(dump.table, Region, examined)

FilterRegion ==
    /\ AtRegion /\ ~IocEligible(Region)
    /\ k' = k + 1
    /\ UNCHANGED <<Run, pc, Sections, tracker, notes, searched, records>>

\* note_eligible, one disposition, and the gap that goes with it.
Visit(disposition, noted, examined) ==
    LET opened == Books!NoteEligible(tracker, Taken(0).captured)
        closed == Books!Note(opened, disposition)
    IN /\ AtRegion /\ IocEligible(Region)
       /\ tracker' = IF disposition = "scanned" /\ noted # <<>> THEN Books!NoteShortRead(closed)
                     ELSE closed
       /\ notes' = notes \o noted
       /\ searched' = Append(searched, [at |-> k, size |-> examined])
       /\ k' = k + 1
       /\ UNCHANGED <<Run, pc, Sections, records>>

SkipOversize ==
    /\ AtRegion /\ Region.size > IocScanMax
    /\ Visit("skipped_oversize", <<[code |-> "SCAN_REGION_OVERSIZED_SKIPPED", target |-> Taken(0)]>>, 0)

RegionUnread ==
    /\ AtRegion /\ Region.size <= IocScanMax
    /\ IocEligible(Region) /\ Read(RegionRange(Region)) = <<>>
    /\ Visit("read_failed", <<[code |-> "SCAN_REGION_READ_FAILED", target |-> Taken(0)]>>, 0)

SearchRegion ==
    /\ AtRegion /\ Region.size <= IocScanMax
    /\ IocEligible(Region) /\ Read(RegionRange(Region)) # <<>>
    /\ LET got == answer[RegionRange(Region)]
       IN Visit("scanned", IF got = Region.size THEN <<>>
                           ELSE <<[code |-> "SCAN_REGION_SHORT_READ", target |-> Taken(got)]>>, got)

------------------------------------------------------------------------------
(* Stomping: the record *)

Present(there) == IF there THEN "present" ELSE "absent"
When(condition, check) == IF condition THEN <<check>> ELSE <<>>
CountCheck(code, source, n) == When(n > 0, Found(Counted(code, source, "", n)))

\* One limitation per kind of gap that was met.
NotedGap(code) ==
    LET found == SelectSeq(notes, LAMBDA n : n.code = code)
    IN When(found # <<>>, Gap(code, "ioc_string_scan", "", [i \in DOMAIN found |-> found[i].target]))

IocUnreconciled ==
    Books!Unaccounted(tracker) + Books!OverAccounted(tracker) + Books!LedgerImbalance(tracker)

IocGaps ==
    NotedGap("SCAN_REGION_OVERSIZED_SKIPPED") \o NotedGap("SCAN_REGION_READ_FAILED")
    \o NotedGap("SCAN_REGION_SHORT_READ")
    \o When(IocUnreconciled > 0,
            Counted("SCAN_ITEMS_UNACCOUNTED", "ioc_string_scan", "", IocUnreconciled))

\* Mutant: the IOC gaps are completeness checks like the others.
FoldIocGaps(report) ==
    IF report.status = "not_evaluated" \/ IocGaps = <<>> THEN report
    ELSE [report EXCEPT !.status = "partial", !.limitations = @ \o IocGaps]

\* They join the finished report, so an absent stream of the walk keeps them.
AppendIocGaps(report) ==
    IF IocGaps = <<>> THEN report
    ELSE [report EXCEPT !.status = IF @ = "complete" THEN "partial" ELSE @,
                        !.limitations = @ \o IocGaps]

\* stomping.report_facts.project_coverage_report
StompingCoverage ==
    LET sources == [memory_info |-> Present(MemoryInfo), modules |-> Present(ModuleList),
                    reference_files |-> Present(refdir.supplied)]
        Each(code, source, counter) == CountCheck(code, source, counts[counter])
        checks  ==
            Each("MODULE_HEADER_READ_FAILED", "module_headers", "header_read_failed")
            \o Each("MODULE_HEADER_PARSE_FAILED", "module_headers", "header_parse_failed")
            \o When(~refdir.supplied, Requires("reference_files", "STOMPING_REFERENCE_NOT_SUPPLIED"))
            \o Each("STOMPING_REFERENCE_MISSING", "reference_files", "reference_missing")
            \o Each("STOMPING_REFERENCE_MISMATCH", "reference_files", "reference_mismatch")
            \o Each("STOMPING_REFERENCE_READ_FAILED", "reference_files", "reference_read_failed")
            \o Each("STOMPING_SECTION_MEMORY_READ_FAILED", "section_content_diff", "memory_read_failed")
            \o Each("STOMPING_SHORT_READ", "section_content_diff", "short_reads")
            \o Each("STOMPING_RELOCATION_FAILED", "section_content_diff", "relocation_failed")
    IN AppendIocGaps(BuildCoverageReport(
           sources, <<Required(<<"memory_info">>), Required(<<"modules">>)>>, checks,
           Books!EligibleBytes(tracker), {}))

\* derive_status
DeriveStatus(evaluated, detected, complete) ==
    IF ~evaluated THEN "NOT_EVALUATED" ELSE IF detected THEN "DETECTED"
    ELSE IF complete THEN "NOT_DETECTED_IN_SCANNED_SCOPE" ELSE "INCONCLUSIVE"

\* CoverageSnapshot.content_complete, .ioc_complete and .complete
ContentComplete == /\ refdir.supplied /\ counts["sections_compared"] = counts["sections_total"]
                   /\ \A c \in Outcomes \ {"sections_compared"} : counts[c] = 0
IocComplete == Books!Complete(tracker)
StompingComplete == /\ counts["header_read_failed"] = 0 /\ counts["header_parse_failed"] = 0
                    /\ ContentComplete /\ IocComplete

StompingScore(changes) ==
    IF changes = <<>> THEN 0 ELSE IF \E n \in DOMAIN changes : changes[n].rip THEN 2 ELSE 1

\* build_verified_changes and build_report.
PublishStomping ==
    /\ pc = "ioc" /\ k > Len(dump.regions)
    /\ LET changes == [n \in DOMAIN diffs |-> VerifiedChange(diffs[n], dump.ips)]
           score   == StompingScore(changes)
       IN records' = Append(records,
            [hunter |-> "stomping", score |-> score, changes |-> changes,
             status |-> DeriveStatus(MemoryInfo /\ ModuleList, score > 0, StompingComplete),
             coverage |-> StompingCoverage])
    /\ pc' = "hollowing"
    /\ UNCHANGED <<Run, Sections, Ioc>>

------------------------------------------------------------------------------
(* Hollowing: the image base *)

\* hollowing.report_facts.project_coverage_report
HollowingCoverage(region, header) ==
    BuildCoverageReport(
        [image_base_region |-> Present(region), modules |-> Present(ModuleList),
         mz_header_read |-> IF header THEN "present" ELSE "failed"], <<>>,
        <<Requires("image_base_region", "SOURCE_ABSENT"), Requires("mz_header_read", "SOURCE_ABSENT"),
          Requires("modules", "MODULE_CLASSIFICATION_UNAVAILABLE")>>, NoScale, {})

NoPeb ==
    /\ pc = "hollowing" /\ dump.peb = 0
    /\ records' = Append(records,
         [hunter |-> "hollowing", score |-> 0, changes |-> <<>>, status |-> "NOT_EVALUATED",
          coverage |-> BuildCoverageReport(
              [peb |-> "absent"], <<[members |-> <<"peb">>, code |-> "PEB_UNAVAILABLE"]>>,
              <<>>, NoScale, {})])
    /\ pc' = "done"
    /\ UNCHANGED <<Run, Sections, Ioc>>

\* HeaderRead.wiped: only a header that was read can be wiped.
HeaderWiped(header) == Len(header) >= MzMin /\ header[1] # MZ

\* find_image_base_region: the memory type and the protection of the image base.
NotMapped(kind)  == kind \notin {"image-rx", "image-rwx", "image-r"}
Suspicious(kind) == kind \in {"image-rwx", "private-rwx"}

\* collect_signals, correlate and build_report: another anchor alone never scores.
Anchor ==
    /\ pc = "hollowing" /\ dump.peb # 0
    /\ LET region == Containing(dump.regions, dump.peb)
           header == Read(MzRange(dump))
           wiped  == HeaderWiped(header)
           anchor == region # 0 /\ NotMapped(dump.regions[region].kind)
           rwx    == region # 0 /\ Suspicious(dump.regions[region].kind)
           score  == IF ~anchor \/ ~(wiped \/ rwx) THEN 0 ELSE IF wiped /\ rwx THEN 2 ELSE 1
           whole  == region # 0 /\ Len(header) >= MzMin /\ ModuleList
       IN records' = Append(records,
            [hunter |-> "hollowing", score |-> score, changes |-> <<>>,
             status |-> DeriveStatus(TRUE, score > 0, whole),
             coverage |-> HollowingCoverage(region # 0, Len(header) >= MzMin)])
    /\ pc' = "done"
    /\ UNCHANGED <<Run, Sections, Ioc>>

Next == \/ HeaderUnread \/ HeaderInvalid \/ HeaderParsed \/ SkipSection \/ CountSection
        \/ DiffAgainstReference \/ EndModule \/ EndModules
        \/ FilterRegion \/ SkipOversize \/ RegionUnread \/ SearchRegion \/ PublishStomping
        \/ NoPeb \/ Anchor

Spec == Init /\ [][Next]_vars

------------------------------------------------------------------------------
(* Properties *)

CodeSections ==
    UNION {{<<i, j>> : j \in {n \in DOMAIN dump.modules[i].build.sections :
                               Compares(dump.modules[i].build.sections[n])}} : i \in DOMAIN dump.modules}
ModuleOf(at)  == dump.modules[at[1]]
SectionOf(at) == ModuleOf(at).build.sections[at[2]]
RawSections   == {at \in CodeSections : SectionOf(at).rawsize > 0}

\* The addresses of a section, its virtual tail included, where memory does not hold
\* what the loader mapped there; and those of them the section has raw data for.
Altered(at) ==
    LET mod == ModuleOf(at)
        section == SectionOf(at)
    IN {a \in Bytes(VirtualRange(mod.base + section.va, SectionExtent(section))) :
           Cell(dump, a) # Mapped(mod.build, mod.base)[a - mod.base]}
RawAltered(at) ==
    Altered(at) \intersect Bytes(VirtualRange(ModuleOf(at).base + SectionOf(at).va, SectionOf(at).rawsize))

\* The altered addresses that the scan recorded: those of the first runs.
Recorded(at) == {a \in RawAltered(at) :
    Cardinality({b \in RawAltered(at) : b <= a /\ b - 1 \notin RawAltered(at)}) <= MaxRangesScan}

Published == 1..Len(records)
EligibleRegions == {n \in DOMAIN dump.regions : IocEligible(dump.regions[n])}
SearchedOf(n) == LET i == SelectInSeq(searched, LAMBDA x : x.at = n) IN IF i = 0 THEN 0 ELSE searched[i].size
UnsearchedOf(n) == LET r == dump.regions[n]
                   IN (r.base + SearchedOf(n))..(r.base + CapturedRangeLength(dump.table, r.base, r.size) - 1)

\* A hunter answers "nothing here" only if it looked everywhere it says: every code
\* section of every module compared and its raw data as the loader put it there, every
\* executable image region searched to its end, and the image base's region, header
\* and module list all seen; and its own status and its report's never part.  It says
\* nothing of the cells no file holds: a virtual tail is never compared, so a change in
\* one is answered clean; a section without raw data is compared with other cells of the
\* file (UnmodifiedIsIdentical).
CleanIsCompared ==
    \A i \in Published :
       LET r == records[i]
           region == Containing(dump.regions, dump.peb)
       IN /\ r.status = "NOT_DETECTED_IN_SCANNED_SCOPE" =>
                IF r.hunter = "stomping"
                THEN /\ compared = CodeSections /\ \A at \in CodeSections : RawAltered(at) = {}
                     /\ \A n \in EligibleRegions : SearchedOf(n) = dump.regions[n].size
                ELSE /\ ModuleList /\ region # 0 /\ answer[MzRange(dump)] >= MzMin
                     /\ NotMapped(dump.regions[region].kind) => Cell(dump, dump.peb) = MZ
          /\ (r.status = "NOT_EVALUATED") = (r.coverage.status = "not_evaluated")
          /\ r.status = "NOT_DETECTED_IN_SCANNED_SCOPE" => r.coverage.status = "complete"
          /\ r.status = "INCONCLUSIVE" => r.coverage.status = "partial"

\* A score is the truth about the sections that have raw data: stomping reports exactly
\* the compared ones of them that differ from what the loader put there, however the
\* image was moved, scores when there is one, and scores 2 when a thread executes a
\* recorded changed byte, displayed or not; and, if no section without raw data was
\* compared, only then (of those see UnmodifiedIsIdentical).  Hollowing scores only an
\* image base no file backs, never on a header it did not read.
ScoreIsTrue ==
    \A i \in Published :
       LET r == records[i]
           altered == {at \in compared : RawAltered(at) # {}}
           executed == \E at \in compared : dump.ips \intersect Recorded(at) # {}
       IN IF r.hunter = "stomping"
          THEN /\ {r.changes[n].at : n \in DOMAIN r.changes} \intersect RawSections = altered
               /\ altered # {} => r.score > 0
               /\ executed => r.score = 2
               /\ compared \subseteq RawSections =>
                    (r.score > 0 => altered # {}) /\ (r.score = 2 => executed)
          ELSE r.score > 0 =>
                 LET kind == dump.regions[Containing(dump.regions, dump.peb)].kind
                     wiped == answer[MzRange(dump)] >= MzMin /\ Cell(dump, dump.peb) # MZ
                 IN /\ NotMapped(kind) /\ (Suspicious(kind) \/ wiped)
                    /\ r.score = 2 => Suspicious(kind) /\ wiped

\* Stomping reports no section that memory holds as the loader mapped it: the comment of
\* _diff_section_on_disk, an unmodified-but-relocated section reads as identical.
UnmodifiedIsIdentical ==
    \A i \in Published :
       \A n \in DOMAIN records[i].changes : Altered(records[i].changes[n].at) # {}

\* Nothing that was not looked at goes unnamed: the walk's counters account for every
\* module and every code section once; every byte of an eligible region the IOC scan
\* did not search is named by a target, even in a record that evaluated nothing; and
\* the missed bytes are exact only if every header and section could be read.
GapsAreNamed ==
    records # <<>> =>
       LET c == records[1].coverage
           parsed == {i \in DOMAIN dump.modules :
                        LET mod == dump.modules[i]
                        IN answer[HeaderRange(mod)] >= mod.build.headers /\ Cell(dump, mod.base) = MZ}
           named == UNION {UNION {Bytes(UnexaminedRange(t)) : t \in ToSet(l.targets)} :
                           l \in ToSet(c.limitations)}
       IN /\ MemoryInfo /\ ModuleList =>
               /\ counts["headers_parsed"] = Cardinality(parsed)
               /\ counts["headers_parsed"] + counts["header_read_failed"] + counts["header_parse_failed"]
                    = Len(dump.modules)
               /\ counts["sections_total"] = Cardinality({at \in CodeSections : at[1] \in parsed})
               /\ refdir.supplied => counts["sections_total"] = MapThenSumSet(LAMBDA o : counts[o], Outcomes)
               /\ compared # CodeSections => \E l \in ToSet(c.limitations) : l.source # "ioc_string_scan"
          /\ named = UNION {UnsearchedOf(n) : n \in EligibleRegions}
          /\ MissedState(MissedBytesOf(c)) = "exact" =>
               /\ counts["header_read_failed"] = 0 /\ counts["memory_read_failed"] = 0
               /\ counts["short_reads"] = 0 /\ MissedBytesOf(c).known = Cardinality(named)
==============================================================================
