# dumpex in TLA+

dumpex analyses one Windows minidump offline: it parses the dump, runs *hunters*
over the captured memory (Cobalt Strike beacons, injected code, YARA rules, pipes,
encoded payloads, ...) and writes findings, artifacts and reports.  A hunter's
answer is worth as much as its **coverage claim**: "nothing found" must mean that
the memory was looked at, and what was not looked at must be named, byte for byte
where that is known.  This project models that claim from the bytes a dump holds,
through the scans, their budgets and their gaps, to the document a run ends with;
what the two hunters that compare images conclude; and the way a run puts files on
disk.  It is checked with TLC on small instances; the safety of the two ledgers, of the
file protocol, of the three scans over a whole memory and of a targeted rescan, and that a
hunt's clean answers are earned, is proved with TLAPS for every value of their constants.

All source paths are relative to the repository (`src/` here).

## 1. Inventory

| component | source | state it keeps | operations |
|---|---|---|---|
| coverage ledger | `dumpex/hunt/_coverage.py` `CoverageTracker` | counters of items, outcomes, annotations; one open item; errors of the loop (`missed`, `stray`); the scale `eligible_bytes` | `note_eligible`, three dispositions, `note_short_read`, `budget_exhausted`, `note_unreached_extent`; reads: `reconciled`, `complete`, `eligible_bytes`, `derive_status` |
| scan budget | `dumpex/hunt/_budget.py` `ScanBudget` | four counters, a deadline, the first reason | `exhausted`/`poll`, `note_attempt`, `note_bytes_read`, `take_hit`, `seen_content` |
| Cobalt Strike scan | `dumpex/hunt/cs_beacon/scanner.py` | position in segments / XOR keys / markers, five budgets, one tracker, targets | `scan_segments` |
| YARA scan | `dumpex/hunt/yara_hunt/scanner.py` | position in segments / rule files / matches, three budgets, targets | `scan_segments` |
| hidden-PE search | `dumpex/hunt/injection/memory_scan.py` | window, retry and candidate positions, `_ScanBudget`, `_ScanGaps`, targets | `_hunt_hidden_pe` and its helpers |
| outputs of a run | `dumpex/core/safe_io.py`, `dumpex/cli.py`, `dumpex/output/collector.py`, `dumpex/commands/{extract,report}.py` | temporary files, names on disk, what was reported written | target checks, tee, artifact, JSON document, commits |
| pipe and encoding hunters | `dumpex/hunt/{pipe,encoding}/` | one pass under two budgets; three passes, two of them under one budget | the region walks and `project_coverage_report` |
| stomping and hollowing hunters | `dumpex/hunt/{stomping,hollowing}/`, `dumpex/core/pe_utils.py` | walk counters, section differences, the IOC scan's tracker | module and section walk, relocated comparison, IOC scan, image-base check, score, status |
| captured bytes | `dumpex/core/va_range.py`, `dumpex/core/dumpfile/segments.py` | none (a parsed table) | address-to-file lookups, the captured prefix of a range |
| targeted rescans | `dumpex/hunt/_targeted.py`, `dumpex/hunt/*/targeted.py` | budgets of one invocation; a closure per scope | boundary, read, scan and closure of five adapters |
| coverage report and missed bytes | `dumpex/output/coverage.py` | none (functions over targets) | `build_coverage_report`, `summarize_missed_bytes`, `combine_missed_bytes` |
| document and queue | `dumpex/hunt/{__init__,_correlation,_investigation,_summary}.py` | the records of the run | overall status, exit code, region correlation, investigation queue |
| execution and observation registry | `dumpex/hunt/_execution.py`, `_observation.py` | per-invocation registries | not modelled (section 9) |
| parsing, code analysis, process facts, rules, commands, records, console | `dumpex/core/`, `dumpex/rules_pkg/`, `dumpex/commands/`, `dumpex/output/`, `dumpex/ui/` | parsed data | not modelled (section 9) |

**How they interact.** `cli.main` checks the output targets, opens the tee, runs one
command and commits its outputs in the order artifact, JSON, tee.  A hunt command
calls each hunter's scan; a scan owns one `CoverageTracker` (or keeps its own target
lists) and one budget, calls the dump reader, and returns frozen diagnostics from
which the verdict (`derive_status`) and the coverage limitations are projected.  The
encoding layers pass one `ScanBudget` from call to call.  The records' limitations
become one document's coverage, exit code and, with `--hunt all`, a queue of ranges to
look at again; a targeted rescan answers one such range with closures.  Nothing is shared between
threads: dumpex is a sequential program, and its environment (the clock, the reader,
the decoders, other processes, the kernel) is what is nondeterministic.

**What is hard.**

* *Gaps under early exit.*  The loops have many exits (oversize, failed read, short
  read, four or five budgets before, inside and after an item) and each must record
  exactly one outcome and the exact unexamined remainder.
* *Clocks.*  A deadline is noticed only when somebody asks; it can pass inside a read,
  a decode or a `match()` call, or be reached exactly.
* *Shared limits.*  Layers spend one budget without knowing each other.
* *Overlap.*  Windows, degraded retries and probes overlap by the marker's length less
  one: one byte less loses a marker, one byte more reports it twice.
* *Answers about answers.*  A gap is named by a scan, projected into a limitation,
  counted in bytes, ranked in a queue and rescanned; each step can lose it, count it
  twice, or turn "could not look" into "nothing there".
* *Comparisons.*  An image is moved when it is loaded; a byte that differs from the
  file is evidence only if the relocation was right and the file is the right build.
* *Files.*  Other processes race for the same names, every system call can fail, and
  the run can be killed between any two of them.

**What makes each component correct** is stated in the modules as properties and
summarised per run in section 5; the hazards they answer are listed, at the lines
where they bite, in `PROJECT.json`.

## 2. Modules

| module | models | extends |
|---|---|---|
| `CoverageTracker` | `CoverageTracker`'s methods as functions of the tracker's value | |
| `Sizes` | lists of segment sizes: those that have an extent, and running totals | |
| `CoverageLedger` | one tracker under calls in *any* order, with a history of what the loop really did | `CoverageTracker`, `Sizes` |
| `ScanBudget` | `ScanBudget`'s methods as functions of the budget's value | |
| `BudgetLedger` | one budget under calls in any order while the clock runs | `ScanBudget` |
| `FileStore` | abstract: what dumpex promises about names on disk | |
| `OutputRun` | one run's target checks, writes, commits, failures and death, with other processes | instantiates `FileStore` |
| `CsBeaconScan` | the beacon scan's segment/key/marker loop | `CoverageTracker`, `Sizes` |
| `YaraScan` | the YARA scan's segment/rule/match loop | `Sizes` |
| `HiddenPeScan` | the hidden-PE search's window/retry/candidate loops | `Sizes` |
| `CapturedBytes` | where a dump holds which byte: descriptor tables, the captured prefix, targets, boundaries | `Sizes` |
| `TargetedRescan` | one targeted rescan by any of five analyzers | `CapturedBytes` |
| `CoverageReport` | status, limitations and missed bytes of a report | `CapturedBytes` |
| `InvestigationQueue` | region correlation and the queue of unexamined ranges | `CoverageReport` |
| `HuntDocument` | pipe, Cobalt Strike and encoding scans composed into records and one document | `InvestigationQueue` |
| `PeImage` | a build on disk and in memory: address translation, relocation, comparison | |
| `ImageHunts` | the stomping and hollowing hunters, each to its record | `PeImage`, `CoverageReport`, instantiates `CoverageTracker` |
| `MC*` | instances for TLC | |
| `*Proofs` | theorems | |

The ledgers come in two layers on purpose.  The functional modules are what a scan
uses (`CsBeaconScan` calls `NoteEligible`, `Note`, `NoteShortRead`,
`NoteUnreachedExtent` exactly where the code does), the ledger modules check their
contract for *every* order of calls, including wrong ones.  `BudgetLedger`'s definitions
carry its name (`BudgetInit`, `BudgetTypeOK`) so that `LedgerProofs` can extend both ledgers.

### Correspondence of state and actions

`CoverageLedger`.  `tracker` is the object, field for field (`noted` holds the three
disposition counters).  `marks`, `early`, `sizes`, `unreached`, `gapped` are history
variables: what really happened to item *i*.  `strict` is the constructor flag under
which a stray disposition raises.

`BudgetLedger`.  `b` is the object, `L` its limits, `now` the clock.  `kept`,
`refused`, `polled` are history variables.

`OutputRun`.  `cur` is the output whose turn it is (`start`, `command`, `extract`,
`json`, `txt`, `end`), `step` how far its write has got: `begin` -> `MakeTemp` ->
`write` -> `WriteTemp` -> `commit` -> (`Link` | `Replace`) -> `committed` -> `Settle`.
Each system call that other processes can observe or interrupt is a step of its own.
`os.link` is atomic and exclusive, `os.replace` atomic.  `Fails` is an exception that
`--report` turns into a diagnostic and everything else turns into exit status.
Symbolic links are resolved: a path is the file it names.  Contents are tokens (the
dump, the second dump of `--diff`, each output of this run, other, partial).

`CsBeaconScan`.  `pc` walks the body of `for seg in segs`: `top` (deadline, planned
read), `read`, `walk`/`found`/`decode`/`decoded` (the generator's next marker, the
checks before and after a decode), `after`, `stopped`, `done`.  `stop` is what
`_mark_budget_exhausted` remembers; `Publish` builds the targets and widens the scale.
A segment's content is only the set of offsets where each key's marker stands; the TLV
decode is a choice of consumed bytes and of a new configuration or not.

`YaraScan`.  `pc`: `top`, `read`, `rule`, `match`, `hits`, `stopped`, `done`.  A
`match()` call is one step; `Tick` between `StartRule` and its outcome is the time it
takes.  The post-read byte check (`scanner.py:250`) cannot fire, since the read is
clipped to a size the check before it admitted; `StopIsTrue` includes that total.

`HiddenPeScan`.  `outer` and `inner` are the two nested `_scan_span` loops, `piece`
the bytes `_on_bytes` is searching; `Reads(want)` is the set of results
`_BudgetedReader.read` can give, with the budget each leaves behind.

`TargetedRescan`.  `pc`: `resolve`, `gate`, `read`, `search` (and `c2`, `entropy`,
`decode` for scopes that share a read), `close`, `done`.  `Spend` is the one step in
which a budget runs out, whatever the cause, and may come between any two others;
`prevented` is what the pipe adapter remembers from before its read.  The five adapters
differ in whose table holds the base (segments or regions), in one read or chunked
reads, and in their gates; `Gap`, `Targets` and `Status` are the closure they share.
The search of a scope over the bytes is a choice of what its bounds let it finish
(`ledger`); its `applied` and `withheld` are the history of what the patterns that ran did
finish, and of whether others did not run; a closure's `note` stands for the measurements
that say so.  Requests start at 1 or
above: address 0 is "no address" in the code.

`HuntDocument`.  `h`, `p`, `k` are the hunter, pass and item at work; `spent` the
budgets of this hunter; `notes` the gaps so far, `eligible` the scale per pass, and
`seen` the history of what each pass did with each item.  `Publish` is a hunter's
`_build_*_report` with `project_coverage_report`, `Finish` is `collect_hunt`.
`CsBeaconScan` has the beacon's loop in full; here it takes one segment per step, with
a stop before, inside (at any cursor) or between segments.  A pattern match and a score
are choices; a quota on one region's hits leaves no gap in the code and none here.

`ImageHunts`.  A cell stands for a byte, or for the 4 or 8 bytes of a fixup, and wraps
as the fixup does.  A dump is modules mapped by `Mapped` (what the Windows loader does)
and cells written over them; `answer` fixes in the initial state which reads raise, come
back empty or one cell short (at most `MaxFaults` of the latter two; a read outside the
held segments always raises).  The walk is one step per header, section and region.
`compared` and `searched` are history.

Numbers are Python integers, so no width is modelled but the fixup's.  Floating-point time is an
integer clock; equality of the clock and the deadline is a case of its own.

## 3. Plan

Order of importance; items 1 to 12 are done.

1. `CoverageTracker`/`CoverageLedger` and their proofs: every verdict rests on them.
2. `ScanBudget`/`BudgetLedger` and their proofs.
3. `FileStore`/`OutputRun`, refinement checked and proved.
4. `CsBeaconScan`, which composes the tracker with a real loop.
5. `HiddenPeScan`, the deepest nesting.
6. `YaraScan`.
7. `CapturedBytes`/`TargetedRescan`: the question "was this range really looked at?".
8. `CoverageReport`/`InvestigationQueue`/`HuntDocument`: pipe and encoding scans, missed
   bytes against a count of addresses, and what survives on the way to the document.
9. `PeImage`/`ImageHunts`: stomping and hollowing.
10. Proofs about the scans and the rest of the file protocol: every safety property of
    `CsBeaconScan`, `YaraScan` and `HiddenPeScan`; `DenominatorIsWhole`; `RunSettled`.
11. Proofs about `CapturedBytes`/`TargetedRescan`: `CapturedIsExact` (the walk of
    `SliceCaptured` against the set of backed addresses), then every other property of
    its run.
12. Proofs about `HuntDocument`: `TypeOK`, `CleanIsEarned`, `BytesCountedOnce` and
    `QueueKeepsEveryGap`.
13. Proofs about `ShareIsHonest` and about `ImageHunts`, `GapsAreNamed` first.
14. The load-transform-store proof of `dumpex/core/insn_flow.py` (section 9).

An abstract specification still worth stating is *an accounted scan* (each byte is
searched or named exactly once), which the beacon, YARA and hidden-PE scans all refine.

## 4. Running

    tlc -config MCOutputRun.cfg MCOutputRun.tla     # likewise the others
    tlapm OutputRunProofs.tla

`CHECK_DEADLOCK FALSE` is set everywhere because a finished scan or run really stops
and the ledgers stop at their bounds.

## 5. Runs and what they show

Passing runs:

| run | question | bounds | distinct states |
|---|---|---|---|
| `ledgers` | can any order of calls make a tracker claim too much? are a budget's limits and reasons right whoever asks when? | 2 items, 3 outcomes, sizes 0, 2 and unmeasured; each limit 2-3, clock to 3 | 358,094 |
| `output_run` | are names safe and owned whatever fails? | 5 names, 46 command lines | 108,704 |
| `cs_beacon_scan` | is each byte searched by both keys or named? | up to 3 segments of up to 3 bytes, 2 markers, 7 configurations | 71,484 |
| `yara_scan` | is each rule applied to each byte, or the byte named? | up to 3 segments, 2 rule files, 2 matches a call, 5 configurations | 304,635 |
| `hidden_pe_scan` | is each marker handed over exactly once and each gap named? | regions of 3-5 bytes, windows 4/2, 5 limits | 447,958 |
| `targeted_rescan` | is a closure complete only when every requested byte was searched, and every other byte named? | address space 7, 6 segment tables, 9 region lists, 4 requests, 5 analyzers | 100,887 |
| `hunt_document` | are missed bytes counted once, is "clean" earned, does the queue keep every gap? | 7 dumps, 3 rosters, address space 8, read caps 2-3 | 76,940 |
| `image_hunts` | is "clean" a comparison of everything, is a score the truth, is each gap named? | 17 dumps, 15 reference directories, 3 cell values, 2 faults | 43,470 |

* `ledgers` - of the tracker `Balanced`, `ReconciledIsExact`: a dropped item and a doubled
  outcome never cancel; `CleanNegativeIsEarned`: the negative verdict needs one outcome
  per item and no gap; `DenominatorIsWhole`: one unmeasured item withdraws the scale.  Of
  the budget `SpendingHolds` (the limits hold, a hit is taken whole or not at
  all, the reason given is true), `DeadlineNoticed`, `FirstReasonStands`.  The two objects
  share nothing, so `MCLedgers` moves one of them in a behaviour.
* `output_run` - `FilesSpec`: every step is a step of `FileStore`; `NoOrphanOutput`:
  a file the run created is one it reports, or the error came after the commit;
  `RunSettled`: no temporary survives a run that ends by itself, but a tee's that would
  not close and one the system refused to unlink (the handlers swallow that error), and a
  successful run delivered what it was asked for and its reported files still hold it,
  unless `--force` let its own tee take the name (`TeeTook`, below); `Terminates`.
* `cs_beacon_scan` - `EveryByteNamed`, `ResidualIsExact`, `BooksClose` (one outcome by
  each exit, a scale that covers every gap, a true reason for the stop), `ScanEnds`.
* `yara_scan` - `EveryRuleNamed`, `StopsAreReal` (a gap names only bytes some rule
  did not see; a stop is announced only when something ran out), `ScanEnds`.
* `hidden_pe_scan` - `EveryByteNamed`, `MarkersOnce`, `RemainderIsExact` (but for
  the fallback below), `HuntAccounted` (a region called not started was not; allowances do not start over
  with a region; evidence slots and drops add up), `HuntEnds`.
* `targeted_rescan` - `CapturedIsExact`: the captured prefix is the run of backed bytes
  from the base, whatever the descriptors do; `CompleteIsWhole`: every pattern of the
  scope has looked at every byte; `EveryByteAnswered`: a scope that ran leaves no captured
  byte without that unless a closure says so; `NamedIsUnread`: nothing a scope finished
  with is sent back for another rescan.  Two searches are withheld by answers that are
  complete all the same, and the answer says so: single-byte XOR outside `MEM_PRIVATE`
  (`xor_sublayer: not_applied`) and the C2 patterns where the names found were none to
  look around (`pipe_names_retained: 0`).  Both properties except exactly these
  (`Disclosed`): the other patterns must have looked, and a withheld search that no answer
  shows is a violation.
* `hunt_document` - `BytesCountedOnce`: the sweep over sorted ranges against a count of
  addresses, per record and for the document; `ShareIsHonest`: the unscanned share is
  one of the record's own work; `CleanIsEarned`: complete means every pass searched
  every byte it accepts, a record's status and its report agree, exit status 0 only if
  all are complete (a sampled buffer, one the XOR sub-layer passed by, and one whose
  further matches a quota dropped count as searched); `QueueKeepsEveryGap`: each named range once, with every hunter,
  source, scope and cause that left it.
* `image_hunts` - `CleanIsCompared`, `ScoreIsTrue` (scored when memory differs from what
  the loader mapped, however the image moved, 2 when a thread executes a recorded change),
  `GapsAreNamed` (also in a record that evaluated nothing).  The original (`Altered`) is
  the loader's: relocated raw data, and zeros where the file holds none.  The first two
  speak of raw data only.  What the code does with the rest is wrong: a section without
  raw data is `image_hunts_unmodified`, over the same instance, and a changed virtual
  tail, which the instance has too, is answered clean (below).

*Why the bounds are enough.*  The two ledgers are proved for every bound; their run
only guards the statements.  `OutputRun`'s safety is proved too, and its two generated
names give both a retry and running out of names.  The safety of the three scans is
proved for any number of segments, any sizes and limits; what their bounds still decide
is whether the runs reach every exit, and liveness.  In a scan, an item interacts with
another only through what a budget has left and through the position of the stop, so
an item before, at and after the stop is enough: each configuration lets one budget
run out first, in the first, the last or a middle item.  `HiddenPeScan`'s windows of 4,
retried in pieces of 2 with a marker of 2, put a marker across every kind of border, and
a region of 5 ends just past a window.  `TargetedRescan`'s tables hold an abutting, a
nested, an empty, an overlapping and an unrepresentable descriptor and a gap, and its
requests lie inside, across and past them; its safety is proved for any tables, region
lists and requests.  `HuntDocument`'s dumps have regions held
whole, in part and not at all, a segment that is a region, spans two or is nested, and
missing streams; two hunters are enough to name one range twice.  `ImageHunts`' images
have one fixup and up to five cells of code: three changed runs against a scan cap of 2
and a display cap of 1 put a thread in a run shown, one recorded and one not recorded.
Every bound on a counter (`MaxTime`,
`MaxItems`, `MaxNotes`, `MaxBytes`, `MaxMarks`, `MaxMatches`, `MaxFaults`) is a named
constant.

*Fairness.*  Only weak fairness of the program's own steps (`Scan`, `Process`, `Next`):
each is one sequential process that the operating system keeps scheduling and in which
no step waits for another process.  The clock, other processes and `Killed` are not
fair: `ScanEnds`, `HuntEnds` and `Terminates` hold even if time never passes.
`ScanEnds` therefore does not lean on the deadline.

Violation runs, each a disagreement between the code and what it says of itself:

| run | property | what TLC shows |
|---|---|---|
| `cs_beacon_scale` | `ScaleCountsOnce` | a budget stop inside a segment counts it twice in `eligible_bytes` (`cs_beacon/scanner.py:409`; the comment above says such segments never became eligible) |
| `image_hunts_unmodified` | `UnmodifiedIsIdentical` | an executable section without raw data is compared with whatever the file holds at its pointer: an untouched image scores 1 (`disk_reference.py:171`; the comment at 146 says that an unmodified section "reads as identical") |
| `hidden_pe_kind` | `BudgetNamed` | a read capped by the byte budget ends a region with no budget named; grouping its gap then looks up the limit of `None` and raises (`memory_scan.py:334`, comment at 776) |
| `hunt_document_sampled` | `SampledSearchIsCounted` | a buffer the sleep-mask layer only strided counts as searched: no limitation, exact missed bytes (`sleep_mask.py:395`; its comment at 391 and `output/coverage.py:1584` say such a search is counted) |

Smaller disagreements, met while modelling and not stated as properties:

* closing the tee's temporary can fail in `finalize()`, outside every handler that would
  unlink it, so a `.dumpex-txt-` file stays (`safe_io.py:391`, against line 38);
  `_unlink_temp_on_error` "guarantees temp_path never survives" (line 35) and swallows the
  error of its own `os.unlink`; and the tee is protected against replacing the primary
  dump only, not `--diff`'s second one, when its name is generated under `--force`;
* directory targets are not compared with the others (`safe_io.py:130`): under `--force`
  the tee of `--txt DIR` replaces the JSON document its own run has reported, if that was
  given exactly the name (with the time to the second) that is then generated for the tee,
  a mismatch "a DFIR tool must never produce" (docstring at line 111).  `RunSettled` lets
  nothing but this pass;
* when a budget refuses the last, overlapping byte, a completely searched region is named
  as a whole gap (`memory_scan.py:631`; the docstring at 624 calls the fallback "defensive
  only").  `RemainderIsExact` lets nothing but this pass;
* stomping compares the raw size of a section: a changed virtual tail past it is never
  looked at and the section counts as compared (`disk_reference.py:171`; the comment at 167
  warns of "no diff" over a section never fully examined);
* a region whose later window fails is reported with `examined_size` 0 though earlier
  windows were searched (`memory_scan.py:751`);
* a deadline passing during the read of a targeted YARA slice leaves it counted as
  scanned with no `match()` reached, and its closure is not `not_evaluated`
  (`yara_hunt/scanner.py:264`, docstring at `targeted.py:196`); at the exact deadline
  instant the segment loop goes on reading segments no rule will see (all named as gaps);
* a lookup over the whole dump (`segment_file_offset`, `captured_range_length`) reads the
  raw table, a slice the descriptors that fit the address space; where one does not fit,
  the two can name different places (`WellFormed` in `CapturedIsExact` and `NamedIsUnread`);
* the comment on the "no anomaly" observation (`stomping/aggregate.py:97` of the stomping
  hunter's summary) wants a walk over everything; its condition is only that the report
  was evaluated; and one module listed twice makes two equal evidence items, which
  `_require_items_of` refuses;
* `ENCODING_ALL_REGIONS_FILTERED` is also raised when eligible regions merely failed to
  be read or the budget ended (against `output/coverage.py:729`), and
  `THREAD_CONTEXT_PARTIAL` when no context could be parsed (against line 492);
* `_sm_recover_candidates` looks at the head of a buffer only, once fewer than two
  portions fit (its docstring promises samples across it);
* network patterns withheld from a white-listed module leave no trace in a full-scope
  stomping record (a targeted one says so).

## 6. Proofs

`tlapm` checks every leaf; nothing is assumed but the named `ASSUME`s of the modules
(types of the constants, distinctness of the model's tokens), which TLC evaluates.  TLC
has checked each inductive invariant below on the component's run.

**`SizesProofs`** (no assumption).  What the recursive functions of `Sizes` compute:
`Total` is its recurrence, monotone, and the number of bytes the list lays out;
`WithExtent` keeps what has an extent.  Induction over the naturals is not cited (the
library's theorem takes an operator) but drawn from the well-foundedness of `<`, for
sets: a set that holds 0 and, with a number, its successor, holds them all.  The same
gives `LoopExists`, what each pass of a loop over a list preserves; `PlacedIsSorted` is
what a stable sort by an order that refines the bases lists.

**`LedgerProofs`** (assumes `SizesAssumption`, that `Unmeasured` is no number,
`LedgerAssumption` and `NoDeadlineAssumption`) is about both ledgers.  *The coverage ledger:*
what each operation does to any tracker, then `TypeCorrect`, `BooksBalance`,
`ReconciliationIsExact`, `CleanNegativesAreEarned`, `LedgerErrorsAreForever`,
`DenominatorsAreWhole`.  `Balanced` is inductive with
`TypeOK`; `ReconciledIsExact` is not, since the tracker keeps counters and no items.  The
strengthening `Remembers` says that each kind of mistake left a trace in a counter that
nothing decrements: an item with no outcome in `missed` (or it is the open one), an item
with two in `stray`, an early outcome in `stray`, a gap in one of four counters.
`Whole` does the same for the scale: `unsized` is 0 exactly while every item was measured,
and then `bytes` is their `Total` and what was never reached.
*The budget ledger:* `BudgetTypeCorrect`, `LimitsAlwaysHold`, `HitsAlwaysWhole`,
`ReasonAlwaysTrue` and with them `SpendingAlwaysHolds`, `DeadlineAlwaysNoticed`, `FirstReasonAlwaysStands`.
The invariants are inductive only together: a reason stays true because counters stand still once it is set, and they hold
their limits because a granted call checked them.  Each operation's effect is one lemma
(`PollEffect`, `AttemptEffect`, `BytesEffect`, `HitEffect`); the deadline enters the
argument only through `Due` and `DueStays`.

**`OutputRunProofs`** (assumes `PathsAssumption`, `ContentsAssumption`).  Theorems:
`TypeCorrect`; `RunImplementsFiles`, the refinement `Spec => FilesSpec` for any names,
command lines and generated names; `NoOrphans`; `RunsSettle`.  `Phases` is the strengthening for the
refinement: a commit has a full temporary, a generated name is still in its list, and
the dump check `--extract` makes before creating its temporary still holds at the commit,
which does not repeat it.  `OnlyItsName` strengthens `NoOrphanOutput`: nothing of an
output exists before its own commit.  `Settling` is the one for `RunSettled`: a temporary
is that of the output being written, the tee's, or stuck, outputs behind the current one were
delivered or excused, and their names still hold them.  `RunsSettle`
needs nothing of the names: a later commit replaces an earlier output only by `os.replace`,
the collision check excludes two exact targets, the collector's own check the artifact, and
what is left is `TeeTook`, which the property states.

**`CsBeaconScanProofs`** (assumes `CsAssumption`, `UnmeasuredAssumption`).  Theorems: `TypeCorrect`,
`NoByteGoesMissing` (`EveryByteNamed`), `GapsAreExact` (`ResidualIsExact`),
`PublishedBooksClose` (`BooksClose`).  None of the three is inductive, as they speak of
the end.  `Passes` says how far each key is on the segment under the walk, `Closed` what a
segment behind it looks like, `Cursor` where a stop left it, `GapsSoFar` that no gap named
early covers a searched byte; `Ledger`, `Scope` and `Budgets` carry the tracker's books,
its scale as a `Total` of sizes, and that an unexhausted budget is what lets the loop on.
`TypeOK` has two parts, the types (`Typed`) and that the walk and a stop's offset stay
inside their segment (`Placed`).
What a segment's calls do to the tracker is `SegmentTaken` and `SegmentSettled`.

**`YaraScanProofs`** (assumes `YaraAssumption`).  Theorems: `TypeCorrect`,
`EveryRuleIsNamed` (`EveryRuleNamed`), `StopsAreAlwaysReal` (`StopsAreReal`).  A rule that times
out leaves an unmeasured gap and the loop goes on, so coverage is an invariant per rule
(`Current`) that becomes one per segment (`Behind`).  `StopFixed` is the delicate part: a
stop remembered inside a call must stand where nothing was matched from its place on,
although the loop runs on to its next check; it rests on time never going back.

**`HiddenPeScanProofs`** (assumes `HiddenPeAssumption`: a marker of 2, a piece longer than
the overlap, a window longer than a piece).  Theorems: `TypeCorrect`, `NoByteGoesMissing`
(`EveryByteNamed`), `OverlapIsExact` (`MarkersOnce`), `RemaindersAreExact`,
`HuntsAreAccounted` (`HuntAccounted`).  `Seen`: what was searched is exactly a prefix of the region,
`0..examined-1`, and no loop is ahead of it; so one number stands for a set, and the
remainder is exact, or the whole region when nothing was left.  `Once`: a marker has been handed over exactly when the loop at work
is past it (`Inside`, a part of `TypeOK`, keeps the loops and the piece in the region).  What "past" means differs between the window loop, the retry and the piece
(`Passed`); that the three agree where one hands to the next is where an overlap of less or
more than one byte breaks the proof.  `PieceFits` and `Retrying` bound the positions,
`AtEnd` holds at a region's close, `Reported` behind it.  `Spent`: each searched byte was
paid for when it was read, so the cardinalities over all regions, the bytes in hand and the
allowance left never exceed the limit.

**`TargetedRescanProofs`** (assumes `RescanAssumption`, `AddressSpaceAssumption`).
Theorems: `CapturesAreExact` (`CapturedIsExact`), `TypeCorrect`, `CompleteMeansWhole`
(`CompleteIsWhole`), `NoByteUnanswered` (`EveryByteAnswered`), `TargetsAreUnread`
(`NamedIsUnread`).  The first half is about the lookups, for any table: a stable sort lists each entry
once, by base (`Ordered`, `StableSortSorted`); the walk through it stands where the run of
backed bytes from the base ends (`WalkInv`, an invariant of the fold's prefixes), so a
slice is exact (`SliceIsExact`); `captured_range_length` finds the same end
(`RangeLengthIsExact`); two adjacent views overlap exactly when some byte has two places
(`OverlapIsExact`).  None of this needs the table in order or free of overlaps; that the
two lookups name the same place needs its descriptors to fit the address space.  The second half is the run.  The properties speak of the answer, which is there only
at the end, so `IInv` says that a finished answer is the function `Answer` of everything
else and relates that to the bytes searched: `PlaceInv` where the evaluated range lies,
`GotInv` how many bytes of it are in hand, `ScopeInv` that a scope whose record shows
nothing wrong (not failed, cut or short, no gap or detail) has applied to what is in hand
every pattern it did not withhold, that a pattern is withheld only where a note of the
answer says so, and that a beacon scope's cursor is the first byte it has not searched.  `Fits` is what makes a target true:
what it counts as captured reaches to the end of what the dump holds, and its offset is
that of the descriptor at its base.

**`HuntDocumentProofs`** (assumes `DocumentAssumption`).  Theorems: `TypeCorrect`,
`CleanIsAlwaysEarned` (`CleanIsEarned`), `EveryByteCountedOnce` (`BytesCountedOnce`),
`QueueIsWhole` (`QueueKeepsEveryGap`).  The first part is about what Python writes as comprehensions and joins: what `Picked`, `\o`
and `FlattenSeq` list (`PickedIs`, `Joined`, `Flattened`), and so when `build_coverage_report` answers complete (`ReportStatus`).  From
that, each hunter's projected report agrees with its own snapshot (`PipeAgrees`,
`CsAgrees`, `EncodingAgrees`): two pieces of code that reach one verdict from the same gaps
by different ways.  It holds only because a pass leaves gaps in no code its projection does
not read, and a region is left to a pipe budget only once that budget is spent (`Gaps`).
The second part is the walk.  The property speaks of published records, so `IInv` says of the
hunter at work that each pass up to this one searched every item behind it or owns up,
by a gap or a spent decode budget (`NothingDropped`); a complete snapshot rules the second out, whatever
order reads failed and budgets ran out in.  `SeenOnce` needs `Begun`: a pass that did not
begin saw nothing, because a roster names a hunter once and no two hunters share a pass.
`Visited` is the one step the eight actions on an item are instances of.

`EveryByteCountedOnce` sets a loop against a cardinality.  `UnionIs`: over ranges sorted by
base, after each of them (`Swept`) the sweep's `bytes` is the number of addresses the
ranges so far hold, its `count` the number of those whose predecessor none holds, and the
latest range is covered up to `stop`, past which nothing is.  The sort is what the last
needs: a range that begins below `stop` adds only what lies above it.  `MissedIs` carries
that to `summarize_missed_bytes`, for any limitations whose targets can be counted
(`Sound`: bounds that are numbers, no more examined than was captured); `DocumentMeasures` and
the document follow, the sweep over all records' ranges and never the sum of theirs.  That every
limitation a walk publishes can be counted is the second invariant, `Tallied`, inductive
given `IInv`; for a region it rests on `CapturedIsCount`: what `CapturedRangeLength` finds
by its walk over descriptors that may overlap is a number, whatever the table, and more than
none only if a descriptor holds the region's first byte.

`QueueIsWhole` uses the last: an action offers a rescan only of a range with a captured byte,
and that byte has an address some segment contains (`Held`, kept by `Tallied` of every
target published).  `Tallied` also keeps that a limitation with targets has a cause
(`Queueable`): `build_investigation_queue` skips the others, so a code missing from its table
would lose ranges without a trace.  How limitations are filed is proved once, for any property
of their targets (`Made`, `CoverageMade`), and used for both.  The queue itself is followed as
it is built: `SkipsAre`, no skip lost on the way through two nested loops; `ActionIs`, the
action of a group is of its range, although which member gives the description depends on
what kinds of target are in it; `QueueIs`, the first skip of each range opens its one group;
`ActionsSorted`, a stable sort by four keys loses and repeats none.

## 7. Only model-checked

Liveness (`ScanEnds`, `HuntEnds`, `Terminates`): fairness and `ENABLED` are out of the
prover's reach.  `HuntDocument`'s `ShareIsHonest` and all of `ImageHunts`: they rest on sums
over the items a pass saw and on the relocation of a whole file, for which the lemmas are
not written yet (section 3).

## 8. Mutants

Each property has an operator, next to the definition it replaces and marked `Mutant:`,
that changes the code the way a plausible bug would (an abutting window step, a budget
restarted per region, a rename instead of a link).  None is used by a
specification.

## 9. Not modelled, and why

* Formats and heuristics: minidump streams, PE headers beyond validity, TLV
  configurations, entropy, XOR/DEFLATE, YARA itself.  Their correctness is about bytes;
  the scans meet them as nondeterministic outcomes.  The control-flow and dataflow proof
  of `dumpex/core/insn_flow.py` has no state between calls either; it is the one pure
  algorithm left that a reference definition would be worth writing for.
* Scoring (but for the two image hunters), verdict tables, individual findings and their
  wording, records, JSON and console text: pure functions over finished results.
* The observation registry (`hunt/_observation.py`): a targeted run writes it once
  (`hunt/__init__.py`, `context.observations.record`), no code under `src/` reads it
  back, every run builds a fresh one, and nothing interleaves: an invariant of it would
  hold by construction.  The budgets a run shares are `spent` of `TargetedRescan`.
* Coverage: validation of hand-built records, serialisation, and
  `combine_coverage_reports`, which `--hunt` does not call; per-command reports.
* Targeted rescans: measurements, diagnostics and rescan command lines (texts).
* Stomping and hollowing: the unscored protection leads and IOC patterns, the unscored
  name mismatch, conflicting thread contexts, and headers whose section table was itself
  tampered with; two builds of one identity are taken to be the same file.
* Of the other modelled parts: reason texts and target metadata of the ledger,
  `merge_eligible_bytes`, `seen_content`, argument parsing, injection's region filters,
  and string evidence of YARA hits.
