# A TLA+ model of ParseX

ParseX parses, validates, diffs, edits and exports AUTOSAR ARXML files. It is a
library (`libparsex`), a command line (`parsex-cli`) and a stdio server
(`parsex-mcp`). This directory holds TLA+ modules translated from its source,
the TLC configurations that check them on small instances, and proofs that
TLAPS checks for every instance. `PROJECT.json` lists the components, the runs,
the lines each definition models, the mutants, the findings, the hazards and the
theorems.

    tlc -workers 2 -config SchemaCache.cfg MCSchemaCache
    tlapm SchemaCacheProofs.tla
    tlapm TelemetryProofs.tla
    tlapm McpServerProofs.tla
    tlapm WriteProofs.tla
    tlapm DiscoveryProofs.tla
    tlapm DiffProofs.tla
    tlapm ExportProofs.tla
    tlapm ValidatorProofs.tla

## Inventory

| Component | State | Operations | What makes it correct |
|---|---|---|---|
| Schema registry and cache (`schema_registry.cpp`, `atomic_write.cpp`, `cache_layout.cpp`) | the cache directory, shared by every process of the user; one temporary file per writer | `resolveSchema`: hit or miss, copy the release's XSD, copy `xml.xsd`, drop the entry on failure, parse | no reader sees a torn file; nothing stray is left; a failing cache write is not fatal; an entry has its import |
| Parser: discovery (`parser.cpp`) | the project's files, the parsed set, the wanted names of the round | `parseProject` in three modes: list, directory scan, fixpoint over references | a name reported missing is missing; only wanted files are added, none twice; it ends |
| Parser: loader (`loader.cpp`) | the raw tree with byte spans; a cursor into the bytes; the stack of open elements | SAX callbacks, the byte scanner, `loadDocument` | a span holds exactly its element; no markup-like text misleads the scanner; a well-formed file loads |
| Parser: model builder, release detection (`model_builder.cpp`, `release_detector.cpp`) | the typed collections | `build*`, `detectSchemaFilename`, `resolveRelease` | both vocabularies read into one model; what is written reads back |
| Validator (`validator/*.cpp`) | the findings; per PDU the occupancy of its bits | schema, references, uniqueness, CAN semantics | a finding is true and points at its element; silence means the file is legal |
| Diff engine (`diff/*`) | the report | match by path, detect moves, compare fields, sort | every path told once; no guessed move; a determined order |
| Write engine: output protocol (`write_engine.cpp`) | `outputPath` and `outputPath.parsex-tmp` | validate, save, rename, catch | `outputPath` is always one whole document |
| Write engine: document content (`write/*.cpp`) | the output tree | merge, sort, build the elements, check the texts | nothing but the listed details is lost; the output does not depend on the order of the input |
| Export (`export/*.cpp`) | the export database: frames, warnings | index the raw tree, resolve senders and receivers, build frames | nothing lost without a warning; the layout the validator checked |
| `parsex-cli` | the output file, stdout, the exit code | `parse`, `validate`, `diff`, `write`, `export` | success is on disk; failure has its documented code |
| `parsex-mcp` | the lines read, the replies written | the read loop, envelope check, dispatch, tools | every request answered once, under its id |
| Telemetry (`telemetry/*.cpp`) | a thread-local stack of open spans; a process-wide counter and trace | construct, set the status, finalize, record, enable, reset | the stack is the open spans; the trace tells who was inside whom |
| JSON contract | none | envelopes, JSON-schema check | formatting |

How they interact: the CLI and the server call the library and nothing else;
each call of the library is sequential and runs on the caller's thread. Two
processes meet only on disk: in the schema cache and at an output path. The
parser calls the registry for the schema; validator, diff, write engine and
exporter read the parser's result. The exporter reads the raw tree next to the
typed model, so two readings of one file coexist in the process.

What is hard, then: processes that interleave their file-system calls; kills,
power loss and failing operations between them; files that change between two
reads of one call; the order and identity of replies on a pipe; loops that must
end; and pure algorithms with many cases (bit numbering, move detection, the
fixpoint of discovery, the byte scanner, builder and reader of the written
elements) whose verdicts must agree with a plain definition.

## Modules

`SchemaCache` (with `AtomicStore`, `MCSchemaCache`, `SchemaCacheProofs`). One action per file-system operation of `resolveSchema` and
`writeCacheAtomically`, for any number of processes. A file is the directory
its bytes were copied from, the blocks written and the blocks made durable by
fsync. `cache` is the cache directory, `tmp[p]` the temporary file of a
process, `call[p]` the locals of its call, `pc[p]` the next statement. The
environment kills a process (its temporary file stays behind under a random
name nobody opens again), cuts the power (what was not made durable may be
lost), deletes the cache, removes a source, and lets any operation fail, the
removal of a temporary file by `TmpCleanup` included (`CleanupFails`; `stray`
remembers it).
`AtomicStore` is the abstract promise of `writeCacheAtomically`: a name changes
in one step from one complete file to another. `SchemaCache` implements it with
`store <- [n |-> Stored(cache[n])]`, where a file with missing blocks would map
to a value the abstract store cannot hold.

`Cli` (`MCCli`, `WriteProofs`). One process per invocation, from reading the input to the exit
code; the fixed temporary name of `WriteEngine::write` and the private one of
`export --output`. Names and files are kept apart: a name holds the identity of
a file, so a process keeps writing into a file that another has renamed.
`Launch`, `RejectCommandLine`, `ReadInput`, `InputFails`, `PrintReport`,
`PrepareOutput`, `RejectProject`, `OpenTemp`, `SaveBlock`, `MoveIntoPlace`,
`SaveFails`, `DropTemp` are the steps of the `run*Command` functions and of the
write engine; `Kill` is the operating system. What stands outside every `try`
fails in steps of its own: the `dump(2)` of a report (`PrintFails`) and that of
the trace (`TraceFails` after a report, the second case of `Rethrow` after an
exception) throw on a text that is not UTF-8, and the `remove` in a catch block
has its error ignored (`DropTempFails`). `undumped` and `stray` remember them in
the record of the invocation. Any number of `write --apply` may overlap: nothing
in the code keeps them apart. `raced` holds the files that were opened while
another of them was saving or renaming, which is what the properties exempt.

`Discovery` (`MCDiscovery`, `DiscoveryProofs`). `Parser::parseProject`: `ParseEntry`,
`ListSiblings`/`ScanFile` for directory scans, and for the lazy mode
`Enumerate`, `BeginRound`, `ProbeCandidate` (the byte scan), `ParseCandidate`,
`EndRound`, then `resolveCrossFileReferences`. A document is what discovery can
tell about it: whether it parses, the names its text spells, whether the text
is opaque to the scan, and the typed names it defines and references. `Edit` is
another program changing the disk between any two steps.

`McpServer` (`MCMcpServer`, `McpServerProofs`). The loop of `runServer`: `ReadLine`, `RecoverLine`
(depth guard, parse error and the textual id recovery), `CheckEnvelope`,
`Dispatch`, `RouteRequest`, `RejectCall`, `CallTool`, `ToolFails`,
`WriteMessage`, `WriteMessageFails`. A line is what the loop can tell about it.
A tool call is one step: the engines are the other modules' subject, and the
server is single-threaded.

`CanLayout` (proofs in `ExportProofs`). `validateCanSemantics` on one PDU, bit by bit: the model builder's
reading of lengths and byte orders, the length check, and the walk that claims
one bit after the other in the Intel or the Motorola numbering.

`Export` (`MCExport`, `ExportProofs`), composed with `CanLayout`: after the validator's walk,
`buildExportDatabase` on the same file: `AddPortParties`, `AddGroupParties`,
then a frame at a time (`SkipFrame`, `ExportFrame`). The two components share
nothing but the file, and read it through different trees. The file has one
I-SIGNAL-I-PDU, which frames may map any number of times, in the AUTOSAR (not
the study) vocabulary. `place` and `offset` of an exported signal, and the
fields of a warning, record where it came from and are used by the properties.

`Diff` (`MCDiff`, `DiffProofs`). The four passes of `DiffEngine::diff`, one action each.
Projects and reports are vectors, as in the code, so that elements of one name
and entries that are equal stay apart. Move detection works on indices: `Groups`
collects them, `Rewritten` turns the removed entry of a clean pair into the move,
`ErasedIdx` is the sorted `addedToErase`, and `ErasePositions` and `KeptIdx` are the
loop that walks it beside the entries. `Pdu` and `Cluster` stand for the two ways a
type's collections are compared.

`Telemetry` (`TelemetryProofs`). The `ScopedSpan` objects of any number of
threads: `Construct`, the statuses a caller sets, exceptions that begin and end
on a thread, `finalize()` in two steps (off the thread's stack, then into the
shared trace without a lock), failing allocations in either, and the switch and
the reset of telemetry. Names, times and attributes are payload.

`Loader` and, on top of it, `Validator` (`MCValidator`, `ValidatorProofs`). A
document is a sequence of lexemes, which libxml2 understands, together with the
units that write it and the bytes that encode them, which the scanner of
`loader.cpp` sees: so the two readings of one file can disagree.
`DocumentAssumption` says what a document is (a name holds no markup, a
comment ends at its first `-->`, and so on: the grammar of XML, lexeme by lexeme);
`Scannable` says of a document that its comments and its DOCTYPE are those the
scanner takes for whole. `detectEncodingClass` is decided by the bytes as in the
code: a byte order mark, or else the quoted value behind the first `encoding` among
the first 300 bytes (`Declared`), wherever that stands; a file that begins with a
UTF-32 mark is refused. `Misleads` says of a document that these bytes make the
loader scan it in the wrong width. The loader takes one SAX event at a time and advances its
cursor behind it; `LoadsExactly` compares the raw tree with the tree the lexemes
define. `Validator` continues with the checks of `validateAll` on what was
loaded: the schema check reads every file from disk again, where another
program may have edited it (`Edit`), and finds the element of a diagnostic by
its line; then references and uniqueness. `validateCanSemantics` is
`CanLayout`'s.

`ModelBuilder` and, on top of it, `WriteContent` (`MCWriteContent`, `WriteProofs`).
The builders of the six element types read an XML tree into the typed model;
`WriteContent` parses a project, writes it, and gives the written document back to
the parser: `ParseFiles`, `ParseThrows`, `WriteRefused`, `BuildDocument`,
`TextRefused`, `Save`, `ReadAgain`. `SetContent` is what `xmlNodeSetContent` makes of
a text: one with an `&` (the set `Ampersands`) comes out as `Left` has it, an
entity resolved or the text cut. Numbers are what the conversions read, up to
`MaxUint32`. A tree is the sequence of its nodes in document order, each with the
number of nodes in it: what a recursion over children visits is a run of that
sequence, and no recursive operator is needed. `ProjectAssumption` says what the
files are: trees (`IsForest`), whose names, numerals and references read as such
(`WellTyped`); a numeral may also be one that the conversions refuse
(`Unreadable`), and which elements are there, how they nest and what they name is
open.

Definitions marked "Mutant of ..." are plausible bugs of the code. They are not
part of any specification: each is put in the place of the definition it names
to confirm that a property notices.

## Runs

| Run | Instance | Distinct states | Shows |
|---|---|---|---|
| `cache` | 2 processes with different source directories, 2 releases (one imports `xml.xsd`), 2 blocks, 3 calls, 2 events | 735 thousand | the safety of the cache, refinement of `AtomicStore`, every call ends |
| `cache_race` | 2 processes, no event | violation | a second call hits the entry between the two cache writes and fails (docs/lld.md:786) |
| `cli` | 3 invocations of any command, which may all overlap, 2 faults, symmetric | 3.8 million | output whole unless shared, dry runs harmless, success on disk, a temporary left only by a kill or a failing remove, one report and one trace or an exit code that says why not |
| `discovery` | 400 disks of 4 files in nested directories, 4 entry lists, 3 modes, 2 edits, a cap of 3 rounds | 106 thousand | dangling is true, discovery is minimal, rounds make progress, the call returns |
| `mcp` | 3 lines of 21 kinds, end of input at any point | 421 thousand | one answer per request, in order, under its id; files replaced exactly when the answer says so |
| `can` | 11,132 PDUs, then the exporter on 2 placements each and 108 networks for 2 of them | 291 thousand | the walk agrees with a reference; the export agrees with the walk |
| `diff` | all pairs of 245 projects | 300 thousand | every path told at exactly one position, in a determined order, no guessed move, symmetric |
| `telemetry` | 2 threads, 3 spans, 1 exception in flight per thread, 1 failing allocation, 2 switches or resets | 2.7 million | the stack is the open spans, the trace keeps the families |
| `document` | 850 projects of one or two files in four encodings and UTF-32, with declarations and comments that name an encoding, markup-like text, comments, CDATA, DOCTYPEs and attributes; 1 edit between the two readings | 62 thousand | every load ends in the exact tree or the right exception; every finding of the three checks is just, and none is missing |
| `loader_comments` | the same projects, which hold comments that begin with `>` and `->` | violation | such a comment ends early for the scanner, and a file loads with a wrong span where loader.cpp:248-251 expects an exception |
| `write_content` | 8,436 projects of up to three elements in one or two files, both vocabularies, two write-read rounds | 79 thousand | what `Kept` lists reads back, the second round changes nothing, the order of the input never shows |
| `write_content_lost` | the same, one round | violation | categories and byte orders are lost that no list of losses names (README.md:201-206) |

### Refuted claims

Twelve runs are kept under `runs`. The claims below are refuted by the same modules
with the same instances; each has a configuration that checks it and nothing else,
and TLC finds it violated within seconds. The passing runs state what holds instead.

| Configuration, module | Claim | What the code does |
|---|---|---|
| `CliTwoWriters.cfg`, `MCCli` | `NeverPartial`: "a failed write() never leaves a partially-written file at outputPath" (write_engine.cpp:104-105) | two `write --apply` share the temporary name; one renames what the other is still writing, and when that one fails the torn file stays |
| `CliTrace.cfg`, `MCCli` | `TraceAlwaysDumped`: "After the subcommand finishes (or after an exception is caught for tracing), the CLI dumps the `telemetryReport` envelope" (docs/cli.md:289) | the `dump(2)` of the report (main.cpp:249, 298, 338, 384, 424) or of the trace itself (main.cpp:220) throws on a text that is not UTF-8 |
| `DiscoveryPrefilter.cfg`, `MCDiscovery` | `PrefilterNeverLies`: "False negatives would be DanglingFileReference lies" (parser.cpp:156-157) | the byte scan looks for `SHORT-NAME>`, and skips a file whose start tags carry attributes, although it parses and defines the name |
| `DiffDuplicates.cfg`, `MCDiff` | `DuplicateWarned`: "a warning is attached noting the duplicate" (docs/lld.md:388) | `indexByPath` keeps the first element of a path and is silent (diff_match.hpp:35) |
| `DiffReordering.cfg`, `MCDiff` | `ReorderingIgnored`: the diff "naturally ignores pure reordering" (docs/lld.md:375) | the lists of a cluster and of an ECU are compared in their order (diff_populate.cpp:46-55, diff_fields.hpp:168-195) |
| `LoaderDeclaration.cfg`, `MCValidator` | `DeclarationDecides`: "ASCII sniff of the XML declaration's encoding" (loader.cpp:158-159) | the first `encoding` among the first 300 bytes counts, in a comment too: a single-byte file whose comment quotes UTF-16LE or UTF-16BE after it is scanned as UTF-16 and refused |
| `LoaderBare.cfg`, `MCValidator` | `BareUtf16Sniffed`: "sniff for BOM-less UTF-16" (loader.cpp:139-140) | the sniff comes after a search for the bytes of `encoding`, which no UTF-16 text has in a row |
| `WriteContentAmpersand.cfg`, `MCWriteContent` | `NamesReadBack`: "faithfully round-trips everything the domain model represents" (README.md:201) | a name with an `&` goes unescaped into `xmlNodeSetContent` (write_elements.cpp:19) and comes back cut |

Properties. Each has a comment above it in its module with the line of the code
or of a doc that it is about.

- `SchemaCache`: `CacheNeverTorn`, `NothingStray`, `UndisturbedMissServes`,
  `HalfPopulatedOnlyByLoss`, the refinement `AtomicReplace`, and `CallsEnd`.
- `Cli`: `OutputWhole`, `OutputAsReported` (only an applied command changes what is
  at the output path; one that failed before its rename did not, and after a success
  a whole document is there), `TempOnlyWhileWriting`, `ReportOrFail`.
- `Discovery`: `DanglingIsTrue`, `DiscoveredIsWanted` (which includes that no file
  is parsed twice), `RoundsProductive`, `CallReturns`.
- `McpServer`: `AnsweredOnceInOrder` (which includes that notifications are never
  answered), `OwnId`, `WriteAcknowledged`, `RequestsAnswered`.
- `CanLayout`: `SilentIffLegal`, `FindingsTrue` (which includes that a mapping is
  reported once).
- `Export`: `NothingDroppedSilently`, `ExportKeepsLayout`, `PartiesAsStated`.
- `Diff`: `EveryPathToldOnce` (which includes the order of the report),
  `MovesAreCertain`, `Symmetric`.
- `Telemetry`: `StackTracksOpenSpans`, `TraceKeepsFamilies`.
- `Loader` and `Validator`: `LoadsExactly`, `FindingsJust`; refuted:
  `NeverSilentlyWrong`.
- `WriteContent`: `WrittenReadsBack`, `OutputCanonical`; refuted:
  `RoundTripsAsDocumented`.

### Bounds

- Two blocks per file are enough for "empty", "half" and "whole", also for
  "written but not durable"; two processes and three calls for a reader, a
  writer and a later hit; two events for a failure inside the recovery from
  another.
- Three invocations of the CLI are a writer, one that overlaps and one that comes
  after a kill, or two that share the temporary name and one that finds it. All
  three may overlap. Two faults are a failing save and the failing remove, report
  or trace after it.
- `kMaxLazyIterations` is 3 instead of 50, so that the cap is reached by a chain
  of four files.
- `IntMax` is 127 and a uint32 goes to 255: the arithmetic at the edge is the
  code's at a smaller width. Octal lengths have two digits.
- Three pipelined lines are a request, what disturbs it, and what follows.
- Three spans on two threads are a parent, a child that outlives it or a span of
  the other thread between them, and the span opened next. `TelemetryProofs` does
  without these bounds.
- A document holds up to two pieces of markup of each kind inside a root, after
  each of the prologs; two pieces because the cursor left by the first is what the
  scan for the second starts from. One edit makes the second reading differ from
  the first. `HeadBytes` is 300 as in the code, and one comment reaches beyond it.
- Three elements in two files give every pair of one type in one file and across
  two, and a third; two rounds because the first may lose what `Kept` does not
  list, and the second must lose nothing. `MaxUint32` is 3.
- `CHECK_DEADLOCK FALSE` everywhere: a command, a call, a report, a load and a
  session end, and the numbers of calls, invocations, spans and lines are bounded.

### Fairness

- `CallsEnd` (cache): weak fairness of each process's own steps. The operating
  system keeps running a process that was not killed; kills, failures and edits
  are never forced. `portableWriteFull` retries an interrupted or empty
  `write()`; the file system is taken to let a retried one through or to fail.
- `CallReturns` (discovery): weak fairness of the parser's steps, one thread
  that waits for nobody.
- `RequestsAnswered` (mcp): weak fairness of the server's steps. The client need
  not send anything nor close its end.

## Proofs

TLAPS checks everything below for every value of the constants that satisfies
the named assumptions of the component's module; no theorem needs a bound of
the runs unless it is said.

**`SchemaCacheProofs`**, for any number of processes, releases, source
directories, blocks, calls and events:

- `TypeCorrect`: `Spec => []TypeOK`
- `NeverTorn`: `Spec => []CacheNeverTorn`
- `NoStrayFile`: `Spec => []NothingStray`
- `RefinesAtomicStore`: `Spec => AtomicReplace`

from the named assumptions of `SchemaCache` (a non-empty set of releases, a
sidecar that is not a release, at least one block, `NoFile` neither a directory
nor a file).

`CacheNeverTorn` is not inductive: a rename may install any temporary file.
What is needed is that a temporary file about to be renamed is complete and
durable (`TmpProgress`), which in turn needs that the file being written holds
exactly what `portableWriteFull` has counted. `DirKnown` says that the source
directory of a call is known whenever the call copies from it or parses it, so
the content of a file is well typed. The inductive invariant is
`IInv == TypeOK /\ DirKnown /\ TmpProgress /\ CacheNeverTorn`. `StepInv` has
one case per action of a process, `EnvironmentInv` one per event; the
refinement is one lemma (`StepRefines`): a rename is `Put`, the catch block's
remove is `Remove`, the environment's deletions and losses are `Forget`, any
other step stutters.

In its second half, `UndisturbedServed` and `HalfOnlyByLoss`
(`UndisturbedMissServes`, `HalfPopulatedOnlyByLoss`). The invariant goes from
what one process knows to what it shares: `Ledger` ties the locals of a call to
its position, `Alone` says that an undisturbed call has no other call active,
`Served` that what it finds in the cache is what it put there, and `Repaired`
that an entry without its sidecar has the call that wrote it still on its way
to stage the sidecar or to remove the entry. The last one is the reason for
`HalfPopulatedOnlyByLoss`: between calls nobody is on the way.

**`WriteProofs`**, about the document that is written and the file it is written to.
The document first, for any projects, sizes of numbers and rounds:
`ContentReadsBack` (`WrittenReadsBack`) and `OutputAlwaysCanonical`
(`OutputCanonical`), from `ProjectAssumption` and `UintAssumption`.

*Trees.* `FlattenSeq` is a recursive function of the library; `Flattened` shows that
the recursion has a solution, and `FlatConcat`, `FlatEach`, `FlatOnly` what it
computes. `Forests(X)` are the well-nested sequences of rows from `X`, `Trees(X)`
those with one root. `TaggedJoin`, `OutermostJoin` and `OfTagJoin` say that
searching two trees side by side is searching each; `Built` then gives the children of
a node just made, and `NamedReads` what the parser's helpers find in it.

*Sorting.* The model writes a stable sort by rank. `RankPerm` and `PlaceIs` show that
rank is a permutation and place its inverse, `SortedIs` that sorting keeps every
item, `SortedDone` that it leaves a sorted list alone, `Reordered` that without equal
keys the order of the input does not matter.

*Elements.* `ElementOk` is what a builder of the model guarantees of each of the six
types (`ElementRead`, for the inputs). For each type the writer's element
is the named node with the pieces `Kids`, and reading it gives the same element with its
lists sorted and the losses of `Kept` (`ClusterBack` to `GroupBack`, together
`RereadIs`), which is written the same. `ElementTurned`: so is one with its
lists reversed.

*Documents.* `WrittenIs`: of each type the document holds the merged and sorted
elements, and nothing of them is taken for another's (`ElementFamily`).
`Back(p)` is what the document of `p` reads as: `BackRelease`, `BackKeeps`, and
`BackAgain`, that it is written as the same document. `RootDistinct` says that no two
siblings share a short name: `Apart` keeps the synthesised names of the mappings from
each other, and `Distinct` carries the claim up the tree (`OneApiece`).
`NoBlank`: a document has an empty text only for an empty category.

*The program.* `ContentInv` ties `files`, `project`, `previous` and `document`
together: after the first round the files are the document of `previous`, so the
project is `Back(previous)`, and after the second `previous` is itself a `Back`.

Then the file. For any set of invocations, whether or not they overlap,
`TypeCorrect`, `NoTempLeft` (`TempOnlyWhileWriting`) and `ReportsOrFails`
(`ReportOrFail`) follow from `Own`, the locals of each invocation: `Thrown` is the end
of a command that caught an exception, `Dumped` that of one whose `dump(2)` threw.
`AlwaysWhole` (`OutputWhole`) and `AsReported` (`OutputAsReported`) hold for any set of
invocations too, finite or not, and exempt the files in `raced` only. The argument is
about ownership: the file an invocation may create later does not exist yet
(`NamesApart`); a file open at `save` or `rename` and not raced is open to one
invocation and is not the output (`WritersApart`); what has been saved into it is there
(`TempFilled`); only the invocation that opened a file has written into it (`Authors`);
an output that was not raced is the document of one invocation that got past its
rename (`Passed`), and after a success there is one (`Delivered`).

**`DiscoveryProofs`**, for any disk, entry points, edits and cap: `TypeCorrect`,
`DanglingAlwaysTrue` (`DanglingIsTrue`), `DiscoveryMinimal`
(`DiscoveredIsWanted`), `RoundsAlwaysProductive` (`RoundsProductive`). The
heart is `Told`: on a disk that stands still, every candidate passed over in a
round without progress defines nothing wanted, so that the round that ends the
loop has looked at everything. `Current` says that the wanted names of the round
are stale only once a file has been added, `Remembered` that the set of parsed
paths covers the files.

**`ExportProofs`**, first half: the walk of `CanLayout`, for PDUs of any length with
any signals and mappings:
`TypeCorrect`, `FindingsAlwaysTrue` (`FindingsTrue`) and `VerdictRight`
(`SilentIffLegal`). `Covers` is a closed formula and `NextBit` the step of the
code; the lemma `Places` shows that a step of `NextBit` moves by one along the
line that the signal runs along, whichever byte order. From it: the walk is idx
places behind the start (`Walking`), a bit is owned only by a signal that covers
it (`Owners`), what a finding says was so when it was made (`FindingsTold`), and
as long as nothing was found the mappings passed own all their bits (`Silent`).
At the end the first three give that a finding implies an illegal PDU, the last
that silence implies a legal one.

In its second half, the export of any PDU in any file: `PartiesAlwaysAsStated`
(`PartiesAsStated`), `NothingEverDropped` (`NothingDroppedSilently`),
`LayoutAlwaysKept` (`ExportKeepsLayout`), `ExportTypeCorrect` (`ExportTypeOK`),
and `ExportWalks`: `ExportSpec => Spec`, so that the theorems of
the first half hold of the export too (`ExportVerdictRight`,
`ExportFindingsTrue`). The exporter is made of loops, which the model writes as
`FoldLeft`. The library defines a fold by a recursive function over the subsets
of the indices, chosen; `FoldDefined` shows that the recursion has a solution, by
an induction on a set (`Turns`), and `UpTo` reads off what one turn does. Each
loop then has one lemma: what a turn adds, the loop adds (`PortPartiesAdded`,
`GroupPartiesAdded` for the parties; `PduTold`, `FramePlaced` for the signals).
`Adds` is about roles `<<frame, out, ecu>>`, so that the order in which ports and
groups are met does not matter; `PortRolesStated` and `GroupRolesStated` turn the
roles into what `PortSays` and `GroupSays` read in the file. `Times` counts
occurrences in a sequence; `Both` and `UnknownAt` count what has been said of a
mapping at an offset, and one turn adds one (`SignalTold`, `PlacementCarried`).
`SignalKeepsLayout` is the arithmetic: `Row` moves by whole bytes (`RowMoves`),
and for a signal spelt plainly the raw tree and the model give one length and one
byte order. The invariant `ExportInv` joins that of the walk with `Stages` (what
each stage leaves to the next), `PartiesSaid` (which roles the map holds after
each stage), `FramesMade` (a frame of the export carries the parties of the map
and signals that keep the layout; nothing names a frame not yet reached) and
`NothingDroppedSilently` itself, which is inductive once warnings are known to be
about frames already passed.

**`DiffProofs`**, for any two projects: `TypeCorrect`, `EveryPathAlwaysToldOnce`
(`EveryPathToldOnce`), `MovesAlwaysCertain` (`MovesAreCertain`),
`AlwaysSymmetric` (`Symmetric`). The invariant only says that each pass has left
what its operator computes; the work is in the operators. `PairGroup` and
`Grouped` turn the cardinalities of the groups of move detection into `Clean`,
the statement that two paths are the only ones with their key, for which the
groups must be finite (`Candidates`). The vectors need an argument of their own:
`Ascending` enumerates a set of indices (`AscendingIs`), so `AtPositions` keeps just
the entries at them, in order (`AtPositionsIs`); the position of the erase loop at an
index counts the indices to erase below it (`ErasePositionsAre`), so that `KeptIdx` is
the complement of what was to be erased (`KeptIdxIs`), which is where the sorting of
`addedToErase` is needed; `RewrittenIs` is the turning of removals into moves; and a
position of the result comes from one position of the report before. `Finished` then says what an entry of the
report is (`Says`), `Once` that two entries which share a path are the same,
`Covered` which paths have one, `Mirrored` what exchanging the projects does,
and `SortKeeps` that a sort which repeats nothing loses nothing.

**`McpServerProofs`**, for sessions of any length and any set of kinds of line:
`TypeCorrect`, `InOrder` (`AnsweredOnceInOrder`), `UnderOwnId` (`OwnId`),
`Acknowledged` (`WriteAcknowledged`). The invariant adds where the loop is in the
line at hand (`Handling`), what reply is pending and what it says about the file
(`Pending`), and that the replies given belong to lines already passed (`Past`).

**`TelemetryProofs`**, for any number of threads, spans, failing allocations and
resets: `TypeCorrect`, `StackAlways` (`StackTracksOpenSpans`), `FamiliesAlways`
(`TraceKeepsFamilies`). The lemma `PoppedStack` is about the erase of
`finalize()`: removing an id from an increasing stack leaves the rest in order.
The invariant adds what the constructor wrote (`Constructed`), that a record
comes from a recorded span (`TraceOfRecorded`), and that it is still there unless
it was reset away or lost (`NothingLost`).

**`ValidatorProofs`**, for any documents in any of the four encodings, any projects
of them and any edits between the two readings: `DocumentTyping`
(`DocumentTypeOK`), `LoadedTreesExact` (`LoadsExactly`), `TruthOfFindings`
(`FindingsJust`). They assume that a document is one (`DocumentAssumption`), and
nothing of what stands in it: text, quoted values, comments, instructions, CDATA
and DOCTYPEs are arbitrary within XML's grammar.

*The scanner.* The model writes the loops of `loader.cpp` as recursive functions on
positions. Such a function is a choice, so `Chain` (one index upwards) and `Loop`
(any positions that move on to a bound) show first that a solution exists. `Viewed`
and `Shown` say that the units of a document are what `unitAscii` reads, at one
byte or two and in either order. Then there is one lemma for each piece of markup:
the scanner that starts at its first unit ends just past its last (`Passed`), whatever
looks like a tag inside it. Quotes and brackets are counted by `QuoteAt` and
`DepthAt`, and the comparison with the scanner's own counting is where
`Scannable` comes from. That the scanner has the right width to begin with is
the first step: `NotMarked` and `SniffsSingle` say what the detection makes of a file
without a mark, `SingleBytes` and `NoKey` that it gives the width of the document
unless it `Misleads`, `BareSeen` and `MisledSeen` that a file scanned in the wrong width
is refused.

*The loader.* `Built` says what the raw tree is after `next` lexemes and `sent` units
of the current one: `Shape` (every row has the tag, the parent, the line and the text
so far of its lexeme, and the stack is the open elements), `Spans` (a closed element
has its exact bytes, an open one its exact start), `Follows` (the cursor is at the
end of some lexeme, and no tag lies between it and the next one). `Shape` needs
nothing of the scanner; the other two hold for documents that are `Scannable`.
`Parsed` is what this gives at the end, and `LoadInv` puts it into the loop over the files: those
before `file` are loaded, those after it unread. An end tag closes the innermost open element
for both readers because `Opened` pops exactly what `Stacked` holds.

*The validator.* `ValidInv == LoadInv /\ Stages /\ Located` carries this through the
checks. `JustInv == ValidInv /\ Unwritten /\ Accounted` adds that without an edit the
disk is what was read, and that `findings` is what the passed stages compute,
with nothing else in it. What remains is about the tree. `FindingsJust` names the
path of an element by the bytes that enclose it, the code by handing the path down
a recursion over children. `Descent` shows that the recursion has a
solution, `VisitedIs` that it reaches every node, `PathIs` what it hands down;
`EnclosesUp` and `BytesEnclose` show that the elements whose bytes enclose an element are
exactly its ancestors and itself, which for an exact tree gives `AroundIs`, and
`SpelledIs`: the path spelled is the path handed down. `ClaimantIs` then identifies the
code's first entry of a path with the first element that spells it (`ForemostOne`: there is only
one), `SecondIs` the second of several siblings of one name, and `SpanFound` that the search
for a line finds an element on it that does not come after the rejected one.

Only model-checked: the liveness properties `CallsEnd`, `CallReturns` and
`RequestsAnswered`, because liveness under fairness is out of the prover's reach.
Every safety property of the passing runs is a theorem.

## Divergences

With a run of their own (see "findings" in `PROJECT.json`): `cache_race`,
`loader_comments`, `write_content_lost`. With a configuration of their own: "Refuted
claims" above. Met while modelling, kept as notes:

Schema cache and CLI

- `write_engine.cpp:104-108` calls the fixed `outputPath.parsex-tmp` the "same
  convention as writeCacheAtomically", which gives each writer a name of its own.
- `atomic_write.hpp:10-11` says that nothing stray is left behind: `TmpCleanup`
  ignores a failing remove, which leaves the file (the `stray` of `NothingStray`).
- A report or a trace that is not UTF-8 makes `write --apply` exit 70 after it has
  replaced the output.
- An entry whose `xml.xsd` is missing is hit and the call fails, instead of being
  a miss (docs/lld.md:795 against `schema_registry.cpp:167`).
- `schema_registry.cpp:131-132` "the bytes are identical" fails when two processes
  have different source directories.
- exit_code.hpp:26-28 and docs/cli.md:131 give an input or output failure the code
  74 (IoErr); `validate` on an unreadable input exits 0 (`main.cpp:276-279`) and the
  system_error of a failing export write exits 70 (`exit_code.hpp:79-89`).
- docs/cli.md:280 gives `parsex --bad-flag` the code 64; `main` returns CLI11's own.
- A root without `xsi:schemaLocation` is a `runtime_error` and exits 70, not 65.

Parser

- `parser.cpp:539-541`: the comment expects the expansion itself to throw; it is
  always the final resolution that does.
- An apostrophe in a comment of a DOCTYPE's internal subset makes the scanner refuse a
  well-formed file.
- loader.hpp says that text is dropped; `onCharacters` keeps it.

Validator

- `validator_can.cpp:133`: a start or a length above INT_MAX becomes negative and
  the mapping is passed over in silence (`Fits` in `SilentIffLegal`).
- Overlaps are checked within a PDU, never across the PDUs of a frame.
- The validator folds `MOST-SIGNIFICANT-BYTE-LAST` and an absent
  `PACKING-BYTE-ORDER` into big endian, where the exporter takes both for little
  endian; it uses the first signal of a name, even a SYSTEM-SIGNAL without a
  length; it reads `0b11` as 0 and octal digits as decimal. `Plain` in
  `ExportKeepsLayout` excludes exactly these. docs/lld.md says that the model
  builder "rejects" such literals; it reads them differently.
- `validator_references.cpp:36-37` leaves two elements of one path to the
  uniqueness check, which sees only siblings of one file.
- `spanForLine`: when a start tag spans three lines or more, its schema finding
  points at the element after it.

Diff

- docs/lld.md:388 also says that of two elements with one path the later wins;
  `indexByPath` keeps the first.

Write engine

- What `write_content_lost` shows contradicts docs/testing.md:61, limitation_test.cpp:1-5
  and roundtrip_idempotent_test.cpp:1-5 and 53-57 as much as README.md:201-206. `Kept`,
  in `WrittenReadsBack`, is what the code does keep. As the byte order of a mapping is
  never written, the exporter (`can_db.cpp:193`, `can_db.cpp:478`) reads a written file
  as little endian whatever it was.
- Channels are sorted, so that a diff after a write that changed nothing reports
  the cluster as modified (docs/testing.md:61).
- Merging the packages of several files into one can produce two elements of one
  short name, and two mappings of one target get the same synthesised one;
  `validate` inside `write` does not look.
- An absent LENGTH is written as an explicit 0, so that its warning disappears.
- An empty CATEGORY may make `write` throw, depending on libxml2's version.

Export

- `can_db.cpp:191`: a signal mapped twice in a PDU is exported with the byte order
  of its first mapping.
- `can_db.cpp:521`: the start in the frame is a plain sum, which is right for
  big-endian signals only when the PDU starts at a byte boundary.
- docs/lld.md says of `ExportFrame::id` "flag bit never set"; `parseId` accepts
  every uint32. docs/cli.md:253 says that signal groups produce a warning; the
  code (and docs/lld.md) ignores them silently.

parsex-mcp

- A tool result that is not UTF-8 gets no reply (`main.cpp:175-177` of parsex-mcp),
  and an id recovered from a line that does not parse may be another request's.

## Not modelled

- What the schema rejects is libxml2's verdict: an input of `Validator`. libxml2's
  internal errors and null handles are left out, and so are encodings other than
  UTF-8 and UTF-16 and declarations that libxml2 itself refuses.
- A text with a reference to an entity that nobody declared (`&name;`): what the write
  engine makes of it is a document that no parser reads. The texts of `Ampersands` are
  the others.
- The namespace URI, the DEST attributes and the pretty printer: the parser reads
  none of them.
- Export of files with several I-SIGNAL-I-PDUs, and of the study vocabulary.
- The diff of the domain types other than `Pdu` and `Cluster`: each is compared in
  one of those two ways.
- The arithmetic of COMPU-METHODs, the DBC and CSV text, the JSON envelopes and
  the rendering of reports: formatting, no state.
- Option parsing and configuration precedence: CLI11.
- The fuzz targets: test drivers.

## Plan

Done, in this order: `SchemaCache`, `Cli`, `Discovery`, `McpServer`, `CanLayout`,
`Diff`, `Export`, `Telemetry`, `Loader`, `Validator`, `ModelBuilder`,
`WriteContent`; and the proofs of all of them.

Left:

1. `Export` behind `WriteContent`: what the byte order that the write engine drops
   does to an exported file.
2. Several I-SIGNAL-I-PDUs and the study vocabulary in `Export`.
