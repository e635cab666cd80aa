---------------------------- MODULE CapturedBytes ----------------------------
(***************************************************************************)
(* Where a dump keeps a process's bytes: the value model of                *)
(* dumpex.core.va_range and the lookups of dumpex.core.dumpfile.segments   *)
(* over one memory-segment table.  A raw descriptor is [base, size, offset]*)
(* exactly as parsed, so it may be empty or run past the address space; a  *)
(* view is a descriptor VirtualRange accepts.  The absent range (None) is  *)
(* the one of size 0.                                                      *)
(***************************************************************************)
EXTENDS Sizes, FiniteSets, SequencesExt, FiniteSetsExt

CONSTANT AddressSpace   \* 2^64 in the code; small here

ASSUME AddressSpaceAssumption == AddressSpace \in Nat \ {0}

Unknown == -1           \* a file offset that is None

VirtualRange(base, size) == [base |-> base, size |-> size]
End(r) == r.base + r.size
Bytes(r) == r.base .. (End(r) - 1)
Nothing(base) == VirtualRange(base, 0)

\* VirtualRange.__post_init__: a positive extent that fits the space.
Representable(r) == r.size > 0 /\ End(r) <= AddressSpace

ContainsAddress(r, a) == r.base <= a /\ a < End(r)

\* intersection, and clip_to for the same value.
ClipTo(r, boundary) ==
    LET base == Max({r.base, boundary.base})
        stop == Min({End(r), End(boundary)})
    IN IF base >= stop THEN Nothing(base) ELSE VirtualRange(base, stop - base)

SuffixAfter(r, prefix) == VirtualRange(r.base + prefix, r.size - prefix)

\* A segment narrowed to [cursor, stop), its offset moved along.
ClipSegment(seg, cursor, stop) ==
    [base |-> cursor, size |-> stop - cursor, offset |-> seg.offset + (cursor - seg.base)]

\* file_offset_at: the caller guarantees that address lies in seg.
FileOffsetAt(seg, address) == seg.offset + (address - seg.base)

\* segment_containing, region_containing: the first view that holds the address.
Containing(views, address) ==
    SelectInSeq(views, LAMBDA v : ContainsAddress(v, address))

\* Python's stable sort of the entries Keep accepts: ties keep the order they had.
SortKept(s, Keep(_), Less(_, _)) ==
    LET kept == {i \in DOMAIN s : Keep(s[i])}
        Before(i, j) == Less(s[i], s[j]) \/ (~Less(s[j], s[i]) /\ i < j)
        place == [i \in kept |-> 1 + Cardinality({j \in kept : Before(j, i)})]
    IN [n \in 1..Cardinality(kept) |-> s[CHOOSE i \in kept : place[i] = n]]

StableSort(s, Less(_, _)) == SortKept(s, LAMBDA x : TRUE, Less)

\* The entries of s at the indices K, in order: a comprehension with a condition.
Picked(s, K) ==
    LET picked[n \in 0..Len(s)] == IF n = 0 THEN <<>>
                                   ELSE IF n \in K THEN Append(picked[n - 1], s[n])
                                   ELSE picked[n - 1]
    IN picked[Len(s)]
Filtered(s, Test(_)) == Picked(s, {i \in DOMAIN s : Test(s[i])})

ByBaseEnd(a, b) == a.base < b.base \/ (a.base = b.base /\ End(a) < End(b))

\* enumerate_captured_segments / _regions: drop what no range can represent, then sort.
Views(table)   == SortKept(table, Representable, ByBaseEnd)
Skipped(table) == Len(table) - Len(Views(table))

\* _segments_overlap: do the views cover some captured byte twice?
SegmentsOverlap(views, captured) ==
    LET clips == [n \in 1..Len(views) |-> ClipTo(views[n], captured).size]
    IN captured.size > 0 /\ Total(clips, Len(clips)) > captured.size

\* Mutant: a hole in the middle does not stop the run.
WalkOverGaps(views, req) ==
    LET Step(run, seg) ==
          IF ~run.open \/ End(seg) <= run.cursor THEN run
          ELSE LET stop == Min({End(seg), End(req)})
                   from == Max({run.cursor, seg.base})
               IN [cursor |-> stop, open |-> stop < End(req),
                   tiles |-> Append(run.tiles, ClipSegment(seg, from, stop))]
        run[n \in 0..Len(views)] ==
          IF n = 0 THEN [cursor |-> req.base, tiles |-> <<>>, open |-> TRUE]
          ELSE Step(run[n - 1], views[n])
    IN run[Len(views)]

\* The walk of slice_captured: a cursor through the segments that continue the run.
Walk(views, req) ==
    LET Step(run, seg) ==
          IF ~run.open \/ End(seg) <= run.cursor THEN run
          ELSE IF seg.base > run.cursor THEN [run EXCEPT !.open = FALSE]
          ELSE LET stop == Min({End(seg), End(req)})
               IN [cursor |-> stop, open |-> stop < End(req),
                   tiles |-> Append(run.tiles, ClipSegment(seg, run.cursor, stop))]
        run[n \in 0..Len(views)] ==
          IF n = 0 THEN [cursor |-> req.base, tiles |-> <<>>, open |-> TRUE]
          ELSE Step(run[n - 1], views[n])
    IN run[Len(views)]

\* CapturedSlice: the contiguous captured prefix of req, tiled by segments.
SliceCaptured(req, views) ==
    LET run      == Walk(views, req)
        captured == VirtualRange(req.base, run.cursor - req.base)
    IN [requested   |-> req,
        captured    |-> captured,
        uncaptured  |-> SuffixAfter(req, captured.size),
        offset      |-> IF run.tiles = <<>> THEN Unknown ELSE run.tiles[1].offset,
        segments    |-> run.tiles,
        overlapping |-> SegmentsOverlap(views, captured)]

CaptureState(slice) ==
    IF slice.captured.size = 0 THEN "none"
    ELSE IF slice.captured.size = slice.requested.size THEN "complete" ELSE "partial"

(* The address-to-file lookups every whole-dump scan uses, on the raw table. *)

\* segment_file_offset: the first raw descriptor in table order; address 0 is "no address".
SegmentFileOffset(table, va) ==
    LET k == Containing(table, va)
    IN IF va = 0 \/ k = 0 THEN Unknown ELSE FileOffsetAt(table[k], va)

ByBase(a, b) == a.base < b.base

\* Mutant: the bisection trusts start addresses, so a nested segment hides its host.
CapturedRangeLengthByStart(table, va, size) ==
    LET ordered == StableSort(table, ByBase)
        first   == Cardinality({i \in DOMAIN ordered : ordered[i].base <= va})
        run     == Walk(SubSeq(ordered, Max({1, first}), Len(ordered)), VirtualRange(va, size))
    IN IF size <= 0 \/ va = 0 THEN 0 ELSE run.cursor - va

\* captured_range_length: bisect the running maximum of the ends, then the same walk.
CapturedRangeLength(table, va, size) ==
    LET ordered   == StableSort(table, ByBase)
        maxEnd(i) == Max({End(ordered[j]) : j \in 1..i})
        before    == Cardinality({i \in DOMAIN ordered : maxEnd(i) <= va})
        run       == Walk(SubSeq(ordered, before + 1, Len(ordered)), VirtualRange(va, size))
    IN IF size <= 0 \/ va = 0 THEN 0 ELSE run.cursor - va

(* Targets and boundaries of a targeted rescan (dumpex.hunt._targeted). *)

\* ScanTarget: an extent, its place in the file, how much is captured and examined.
ScanTarget(r, offset, captured, examined) ==
    [range |-> r, offset |-> offset, captured |-> captured, examined |-> examined]

\* region_scan_target: a target for a region-shaped range, from the raw table.
RegionScanTarget(table, r, examined) ==
    ScanTarget(r, SegmentFileOffset(table, r.base),
               CapturedRangeLength(table, r.base, r.size), examined)

\* resolve_region_boundary / resolve_segment_boundary: clip to the containing descriptor.
Boundary(req, containing) ==
    LET clipped == ClipTo(req, containing)
        eval    == IF clipped.size > 0 THEN clipped ELSE req
    IN [eval |-> eval, truncated |-> eval.size < req.size,
        sub  |-> eval.size = req.size /\ <<req.base, req.size>> # <<containing.base, containing.size>>]

\* unexamined_suffix_target: the tail of the request no byte of which was read.
UnexaminedSuffix(slice, read) ==
    LET suffix  == SuffixAfter(slice.requested, read)
        backing == Containing(slice.segments, suffix.base)
    IN ScanTarget(suffix,
                  IF backing = 0 THEN Unknown
                                 ELSE FileOffsetAt(slice.segments[backing], suffix.base),
                  Max({0, slice.captured.size - read}), 0)
==============================================================================
