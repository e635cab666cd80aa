-------------------------------- MODULE PeImage --------------------------------
(***************************************************************************)
(* A PE build on disk and in memory: the address translation and the       *)
(* base-relocation walk of dumpex.core.pe_utils and the byte comparison of *)
(* dumpex.hunt.stomping.disk_reference.  A cell is a byte, or a fixup slot *)
(* of 4 or 8 bytes taken as one.  A build is                               *)
(*   [identity, machine, preferred, headers, image, sections, relocs, file]*)
(* with identity for Machine, SizeOfImage and TimeDateStamp together, and  *)
(* a section is [va, vsize, raw, rawsize, exec, write]; addresses inside   *)
(* an image and offsets inside a file count from 0.                        *)
(***************************************************************************)
EXTENDS Integers, Sequences, FiniteSets, SequencesExt, FiniteSetsExt

CONSTANTS
    CellValues,     \* values of a cell: a fixup wraps at 2^32 or 2^64 in the code
    MaxRangesScan,  \* MAX_DIFF_RANGES_SCAN: differing ranges computed at all
    MaxRangesKept   \* MAX_DIFF_RANGES: differing ranges kept for display

ASSUME PeImageAssumption ==
    /\ CellValues \in Nat \ {0, 1}
    /\ MaxRangesScan \in Nat \ {0} /\ MaxRangesKept \in 1..MaxRangesScan

MZ == 1         \* what the first cell of a file and of a mapped image holds
Unmapped == -1  \* no file offset

\* _rva_to_file_offset: the first section whose raw extent, not whose virtual
\* extent, holds the address.
RvaToFileOffset(sections, rva) ==
    LET k == SelectInSeq(sections, LAMBDA s : s.va <= rva /\ rva < s.va + s.rawsize)
    IN IF k = 0 THEN Unmapped ELSE sections[k].raw + (rva - sections[k].va)

\* What the Windows loader maps: headers and raw data, zeros past a section's raw data,
\* and every fixup moved by the distance from the preferred base.
Mapped(build, base) ==
    [rva \in 0..(build.image - 1) |->
        LET at == IF rva < build.headers THEN rva ELSE RvaToFileOffset(build.sections, rva)
            cell == IF at = Unmapped THEN 0 ELSE build.file[at + 1]
        IN IF rva \in build.relocs.slots THEN (cell + (base - build.preferred)) % CellValues
           ELSE cell]

\* apply_base_relocations over the cells of a file.  A table is absent, ragged (its
\* extent or its blocks do not add up), odd (a fixup type it does not decode) or whole.
ApplyBaseRelocations(cells, build, delta) ==
    LET At(slot) == RvaToFileOffset(build.sections, slot)
        Fits(slot) == At(slot) # Unmapped /\ At(slot) < Len(cells)
        status == IF delta = 0 THEN "not_needed"
                  ELSE IF build.machine = "other" \/ build.relocs.table = "absent" THEN "unavailable"
                  ELSE IF build.relocs.table \in {"ragged", "odd"}
                          \/ \E slot \in build.relocs.slots : ~Fits(slot) THEN "malformed"
                  ELSE "applied"
    IN [status |-> status,
        cells  |-> IF status # "applied" THEN cells
                   ELSE [i \in DOMAIN cells |->
                           IF \E slot \in build.relocs.slots : At(slot) = i - 1
                           THEN (cells[i] + delta) % CellValues ELSE cells[i]]]

\* diff_byte_ranges: the maximal runs of differing cells, as (offset, length), up to
\* the first MaxRangesScan of them.
DiffByteRanges(a, b) ==
    LET shared   == 1..Min({Len(a), Len(b)})
        Differ(i) == i \in shared /\ a[i] # b[i]
        starts   == {i \in shared : Differ(i) /\ ~Differ(i - 1)}
        Stop(i)  == Min({j \in i..(Len(a) + 1) : ~Differ(j)})
        ranges   == [n \in 1..Cardinality(starts) |->
                       LET i == SetToSortSeq(starts, <)[n] IN [offset |-> i - 1, length |-> Stop(i) - i]]
    IN SubSeq(ranges, 1, Min({Len(ranges), MaxRangesScan}))

\* expected_len: the raw size, or the virtual size of a section without raw data.
ExpectedLength(section) == IF section.rawsize > 0 THEN section.rawsize ELSE section.vsize

\* section_va_range
SectionExtent(section) == Max({section.vsize, section.rawsize, 1})

\* Mutant: whatever came back of the memory is what is compared.
CompareWhatCameBack(section, mem, cells) ==
    IF section.raw + Len(mem) > Len(cells) THEN 0 ELSE Len(mem)

\* How many cells of a section can be compared: all of them, or none.
ComparedLength(section, mem, cells) ==
    LET expected == ExpectedLength(section)
    IN IF expected <= 0 \/ Len(mem) < expected \/ section.raw + expected > Len(cells)
       THEN 0 ELSE expected

\* _diff_section_on_disk against a reference [state, build, cells]: how the comparison
\* ended, and the ranges that differ.  The loaded header is the build's own.
DiffSectionOnDisk(ref, build, base, section, mem) ==
    LET delta    == base - ref.build.preferred
        reloc    == ApplyBaseRelocations(ref.cells, ref.build, delta)
        compared == ComparedLength(section, mem, reloc.cells)
        Ended(outcome) == [outcome |-> outcome, ranges |-> <<>>]
    IN IF ref.state = "unreadable" THEN Ended("reference_read_failed")
       ELSE IF ref.state \in {"oversize", "invalid"} \/ ref.build.identity # build.identity
       THEN Ended("reference_mismatch")
       ELSE IF delta # 0 /\ reloc.status # "applied" THEN Ended("relocation_failed")
       ELSE IF compared = 0 THEN Ended("short_reads")
       ELSE [outcome |-> "sections_compared",
             ranges  |-> DiffByteRanges(SubSeq(reloc.cells, section.raw + 1, section.raw + compared),
                                        SubSeq(mem, 1, compared))]

------------------------------------------------------------------------------
(* stomping.correlation *)

\* rip_in_ranges: an instruction pointer inside one of the ranges.
RipInRanges(ips, start, ranges) ==
    \E ip \in ips : \E n \in DOMAIN ranges :
       start + ranges[n].offset <= ip /\ ip < start + ranges[n].offset + ranges[n].length

Displayed(ranges) == SubSeq(ranges, 1, Min({Len(ranges), MaxRangesKept}))

\* Mutant: the display cap is applied before the instruction pointers are looked at.
CorrelateDisplayed(diff, ips) ==
    [at |-> diff.at, ranges |-> Displayed(diff.ranges), total |-> Len(diff.ranges),
     rip |-> RipInRanges(ips, diff.start, Displayed(diff.ranges))]

\* build_verified_changes, for one section that differs.
VerifiedChange(diff, ips) ==
    [at |-> diff.at, ranges |-> Displayed(diff.ranges), total |-> Len(diff.ranges),
     rip |-> RipInRanges(ips, diff.start, diff.ranges)]
==============================================================================
