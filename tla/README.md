# File Vitals in TLA+

File Vitals inspects untrusted files. A command line tool, an MCP server on
standard input and output, a second line-oriented server (the capability
adapter) and a macOS app all lead to the same engine, which runs in an isolated
worker process under limits on time, memory and output. This directory holds
TLA+ models of the parts whose correctness depends on interleaving, failure,
time and limits, the TLC runs that check them and proofs that TLAPS checks.

`PROJECT.json` is the index: components, runs, the source lines behind each
definition, the mutants that show each property can fail, the hazards the
properties are aimed at, the theorems, and what the runs found.

## 1. The system

| Component | State it keeps | Operations | Modelled in |
|---|---|---|---|
| MCP server, reader (`internal/mcp/server.go`) | initialized flag, `admissionSlots`, registry `cancels`, wait group | `Serve`, `handleSync`, `cancel` | `RpcDispatch`, `McpServer` |
| MCP server, tool calls (`server.go`, `collection_server.go`) | `callSlots`; per call: context, files, answer | `handleToolCall`, `handleBatchCall`, `handleInventoryCall`, deferred releases | `McpServer` |
| Authority, one path (`internal/authority/authority.go`) | `openSlots`; per open: a goroutine, a channel, a descriptor | `OpenRelativeContext`, `openRelative` | `AuthorityOpen` |
| Authority, walk (`inventory.go`) | queue of directories, counters, files, truncation flag | `CollectRegularFilesContext`, `readDirectoryStable` | `InventoryWalk` |
| Process monitor (`internal/procmon`) | process group, two bounded buffers, overflow channel, wait channel | `Run`, `limitedBuffer.Write`, `killProcessTree` | `Procmon` |
| Supervisor (`internal/supervisor`) | none | `Run`, `RunBatch`, `RunInventory`: descriptors, verdict | `Procmon` (`Classify`), `BatchInspect` |
| Worker (`internal/worker`) | none | one request, one result | a process in `Procmon`; `BatchInspect`, `InventoryResult`, `InspectFile` |
| Inspector, collections (`inspector/collection.go`) | items, hash budget, status, response budget | `InspectBatch`, `InspectInventory`, fitting | `BatchInspect`, `InventoryResult` |
| Inspector, one file (`inspect.go`, `types.go`, `util.go`, `external.go`) | the result under construction | `inspect`: identity and name, probes, families, digest, constraints, fitting | `InspectFile` |
| Inspector, archives (`archive.go`) | counters, two bounded readers | `inspectTAR`, `inspectZIP`, gzip | `ArchiveScan` |
| Inspector, office packages (`archive.go`) | budget for metadata, facts so far | `detectOOXML`, `readZIPMetadata` | `OfficePackage` |
| Inspector, content (`text.go`, `indirection.go`, `image.go`, part of `identity.go`) | none | text facts, pointers, alpha and size of images | `TextFacts`, `ImageFacts`, `ContentFacts` |
| Line reader (`internal/linereader`) | line so far, overflow flag | `ReadRequestLine` | `LineReader` |
| Capability adapter (`cmd/capability-adapter`) | admission, slots, wait group | `serve`, `handleRequestWithTimeout` | `CapabilityAdapter` |
| Command line (`cmd/finspect`) | context, opens, files, answer, a temporary directory | argument parsers, one-shot commands, signals, doctor, exit codes | `CommandArguments`, `CommandLine` |
| macOS app (`app/FileVitals`) | selection, revision, task, process | `select`, `inspect`, `launch`, `cancel` | `InspectionStore` |
| Schemas, presentation, build scripts | none | pure validators and tooling | not modelled |

How they interact. The reader goroutine of the MCP server takes one line at a
time. It answers most of them itself; a `tools/call` line takes an admission
token, is entered in the registry under its id and gets a goroutine with a
context that carries the deadline. The goroutine waits for one of four call
slots, opens its file or files through the authority package (which opens each
path in yet another goroutine, so that a blocked file system cannot hold the
caller) or walks a directory in its own goroutine, and hands the descriptors to
the supervisor, which has the process monitor run a worker. The worker numbers
the inherited descriptors, inspects each file, and shrinks the result until it
fits. Cancellation lines reach the calls through the registry; the deadline and
the cancellation reach opens and workers through the context. Answers are
written under one mutex, in the order the calls finish. The capability adapter
is built the same way with fewer parts: a line reader of its own, no registry,
no cancellation. The command line opens each path in a goroutine of its own, too,
has a worker look at what it opened, and ends with an exit code; a signal ends its
context. The app starts the engine as a process for each selection and
terminates it when the selection is replaced.

The two servers differ in what becomes of a result that arrives after the
deadline: the MCP server discards it (`LateResultDiscarded`), the adapter
delivers it (`WorkerReturns` in `CapabilityAdapter`). In the adapter a deadline
that passes in the queue is answered LIMIT_EXCEEDED, one that passes inside the
open INSPECTION_FAILED, because `authority.Code` knows no context error.

What is hard about it: places where a Go `select` may take any of several ready
branches (call slot, hand-over of an open, the monitor's loop); state read in one
goroutine and set in another (initialized flag, registry); two calls with the
same id; early returns that hold slots, descriptors or both; system calls that
may never return; a process tree that grows while it is being killed; trees and
files that change between two looks at them; a deadline that makes a probe fail
like broken content does; and limits at which exact and partial results meet.
The hazards are listed one by one, with their lines, in `PROJECT.json`.

What makes each correct, in a sentence: every request line is answered once, for
a reason its context allows, and leaves no slot, token, registration or
descriptor behind; the end of a context reaches whatever waits; a run of a worker
ends with the verdict its cause deserves and with nothing it killed alive; a
collection loses nothing without a flag and never mixes its files up; a result
claims no more than was established, and its facts are those of the file; the exit
code tells what happened; the app shows what is selected.

## 2. Modules

**MCP server.** `RpcDispatch` has the decisions about one input line as operators,
without state: what `Serve` does with it (`Disposition`), what `handleSync` answers
(`SyncAnswer`), what ends a tool call before it queues (`EarlyAnswer`). A line is
a record of what these decisions look at; JSON text is abstracted to whether it
parses and is valid.

`McpServer` is the state machine. A call is a member of `Calls`, which plays the
part of the pointer to its `callHandle`, so two calls may share an id. The
variable `phase` says where the call's goroutine stands; each phase ends with an
action named for the code that runs there:

    unread -> refused                                           RefuseCall
    unread -> spawned -> queued -> opening | collecting         AdmitCall, StartCall, AcquireCallSlot
    opening, collecting -> working                              OpenPath, CollectFile, StartWorker, CollectEnds
    (any of these) -> replying                                  early answers, AbandonQueue, AbandonOpen,
                                                                CollectFails, WorkerReturns
    replying -> closing -> unslotting -> unadmitting -> ending  WriteReply, CloseFiles, ReleaseCallSlot,
      -> deregistering -> finishing -> done                     ReleaseAdmission, EndContext, Deregister, CallDone

The tail is the code's chain of deferred functions, one shared effect per step,
in the order Go runs them. `afterInit`, `written` and `tried` are bookkeeping for
properties and for the loop over paths; the rest is the server's own state.

`McpServerProps` states the properties and maps the server to `CallContract`, the
abstract specification: a call is taken or refused, interrupted for one reason,
decided once with an answer its context allows, delivered once; the server stops
when it owes nothing. It knows nothing of slots, goroutines, files or workers.

**Opening a path.** `AuthorityOpen` models `OpenRelativeContext`: the caller's two
selects, the goroutine's select, and `openRelative` as three file-system steps
between which another program may put a different file at the path. `owner` says
which side must still close the descriptor.

**Command line.** `CommandArguments` has what each parser of `cmd/finspect` makes of
its words, as operators, next to the grammar they are compared with. `CommandLine` is
one run of the program, from its words to its exit: signals are caught for
inspections only; `openCLIFile` looks at the path, opens it in a goroutine and takes
what it hands over, unless the context ended; a batch notes what failed and goes on; a
batch and an inventory look at the context once more after the worker, an inspection
does not; `doctor` makes a temporary directory and removes it. `hangs` picks the one
system call that may never return.

`OpenContract` is what both promise of an open: once the context has ended no file is
taken, the end of the context is the answer only if it did end, and no descriptor is
left. `AuthorityOpen` and `CommandLine` each map their state to it; they differ in
`LateErrors`, as a command may still report the error of a failed open after its
context ended. `MCOpens` is the instance for both, one of them per behaviour.

**Running a worker.** `Procmon` models one `procmon.Run`: the leader process, its
descendants (each of which may have inherited the output pipes), the two bounded
buffers with the channel they share, `cmd.Wait`, the select loop, the kill of the
group or of the leader alone, and the supervisor's verdict.

**Capability adapter.** `LineReader` is `ReadRequestLine` over bytes that are text,
carriage return or line feed: pieces of the size of the buffer, the budget, the
drain of an oversized line. `raw` remembers the whole line, so that `FramingExact`
compares what the reader returns with the definition on whole lines.
`CapabilityAdapter` extends it with `serve` and `handleRequestWithTimeout`;
`AdapterProps` states its properties and maps it to the same `CallContract` the MCP
server keeps: the adapter does not report what ended a context and delivers late
results, so no request is ever interrupted in the contract's sense.

**Collections.** `InventoryWalk` is the walk, entry by entry, over a tree that
another program changes at most `MaxChanges` times; a path is a sequence of
numbers and an entry is known by its kind and the change that made it, which is
what `os.SameFile` tells apart. The requested directory is the workspace root, a
directory is read in one step, and a symbolic link in the place of a directory
leads nowhere. `InventoryResult` extends it with the worker's half: items, counts,
formats, status, and the cut to the response budget. `BatchInspect` is a batch
from the opens in the server over the renumbering of descriptors to the worker's
items, the hash budget and the three ways of shrinking the result; files may
grow at any time. A worker that panics or fails replaces the whole result by an error
(`E_INTERNAL`, `E_WORKER`), at any point of its work. In both, "ok" as the status of an item stands for "partial" and
"corrupt" too (the code treats them alike), and the size of a response is a
choice.

**One file.** `InspectFile` is `inspect`, one action for each way a stage can go:
identity, the system's `file` program, structured text, one family of parser or
probe for each kind, digest, the last look at the deadline, the response budget.
A file is what its signature, `file` and its name take it for and whether its bytes
are sound; the deadline may pass between any two steps. `match` is the verdict on the
name, which is put off for text and ZIP and taken again once a parser has spoken
(`Undecided`, `Reconcile`); `Extractable` and `Constraints` are the trait and the
warnings derived from the result. A format in the model
stands for its family: `json` for text with a signature of its own, `csv` for the
formats only a name gives, `movie` for everything ffprobe reads, `bzip` for archives
that are not enumerated. `ArchiveScan` is the archive family in full: a stream of
blocks read under a cap on headers and one on bytes, a compressed stream behind a
second limiter, a ZIP directory. `Whole` is the reference definition: the counts of
the same archive without any limit. It keeps entries (with links, which have no
data whatever size they announce), end blocks and anything else. `OfficePackage` is
what follows a ZIP directory that was read to its end: `detectOOXML` part by part, each
part under a limit of its own, together under a budget, each against the deadline.
The three modules share the deadline (`expired`) and whether it made a step fail
(`cutShort`).

**Content.** `TextFacts` turns characters into bytes under an encoding and a mark, and
reads them back as the code does: from a header that decides whether they are text,
and from a window that is decoded and whose lines are counted. `ImageFacts` has the
walks over the chunks of PNG, GIF and WebP, over data that looks like a chunk, and the
size of an SVG from its root element. `ContentFacts` chooses a file and takes its
facts; the reference definitions are in terms of what the author wrote.

`MCWorker` runs the three kinds of request a worker serves, and the reading of one
content, as alternatives of one instance.

**macOS app.** `InspectionStore` models the store, its task per inspection, the
cancellation handler, `CancellableProcess` under its lock, and the triggers of
`ContentView`. The main actor does one thing at a time; engine and handler run
anywhere.

How they fit: `McpServer!OpenPath` and `AbandonOpen` stand for an
`OpenRelativeContext` that returns while the context is live, or is abandoned
after it ended; `AuthorityOpen!NoFileAfterEnd` and `EndReleasesCaller` are what
justifies that. `McpServer!WorkerReturns` after the end of a context stands for a
`procmon.Run` that comes back; `Procmon!StoppedRunReturns` is what justifies the
fairness put on it, since the worker's probes do not hold the worker's own pipes.
`McpServer!CollectFile` is a step of `InventoryWalk`; an item of `BatchInspect` or
`InventoryResult` is a behaviour of `InspectFile`, whose probes are runs of `Procmon`
in the group of the worker.

`MC*` modules give the constants for TLC; `*Proofs` hold the proofs; `Counting`
has what they share: that a set defined by a function's value grows or shrinks by one
element when the function changes at one argument, that a sum over a function moves
by as much as the function does, and induction over sets of numbers and over the
subsets of a finite set.

Definitions whose comment begins with "Mutant of" are not part of any
specification: each is the named action with one plausible mistake, and
`PROJECT.json` says which property it breaks.

## 3. Runs

| Run | Instance | Checks |
|---|---|---|
| `McpContended` | 3 calls under one id, 2 admission tokens, 1 call slot | slot accounting, exact registry, quiet return, complete cancellation |
| `McpLive` | 1 call with every line shape and 2 ids, 2 calls with an open and a walk, 1 call slot, fair | inductive invariant (types, slots, one answer per call, initialize before the calls behind it), honest reasons, late results lose, cancellation hits only its id, refinement of `CallContract`, first its safety and then with its liveness, `Serve` terminates, capacity recovers |
| `Opens` | 2 opens, 1 slot, 2 callers, 2 files; command lines of up to 4 words and 2 paths; file system may block, fair | inductive invariant (one slot per living goroutine, one owner for each descriptor, validated file), exit code, both refinements of `OpenContract`, the end of the context releases caller and command, slots come back |
| `ProcmonRuns` | leader and 2 helpers, limit 1 byte, in a group of its own or its parent's, fair | inductive invariant, explicit breaches, honest verdicts, complete kill, final output, a stopped run returns |
| `AdapterSession` | 3 requests, 2 admission tokens, 1 slot, 2-byte buffer, budget 1, lines up to 4 bytes and a piece, fair | inductive invariant, exact framing, an answered request holds nothing, quiet drain, refinement of `CallContract`, `serve` returns |
| `Worker` | trees of up to 5 paths, limits of 2 and 3, 1 change; batches of 3 files, budget 1, sizes up to 2; every kind of file under its names; archives of up to 4 blocks, office packages with up to two parts out of order; texts around a header of 4 and a window of 8 bytes, images of up to 3 chunks | invariants, honest inventories, batches, archives, files and facts |
| `AppSelection` | 3 inspections, 2 files, 2 options, fair | inductive invariant, what is shown is current, a replaced engine ends, the spinner stops |
| `McpBlockedWalk`, `ProcmonOverflow`, `BatchOversize`, `FileLimit`, `BomText` | small | statements of the docs and comments that the code does not keep, section 6 |

What the deeper properties say. `InventoryIsHonest`: whatever stood in the tree
undisturbed from the first look to the end is in the result or a flag says that
something is missing, and "ok" means all of it was inspected. `BatchIsHonest`: every
path has an item in its place that speaks of that path's file, or a flag says the
rest was cut, and the status is what the items add up to. `ArchiveIsHonest`: a
complete scan has the count, the sum and the links of the archive read without
limits; a failed one met a broken archive or the deadline; a truncated one gave up
at a limit; and an office document has the one kind its parts agree on, with all its
relations to the outside, or is marked incomplete. `FileIsHonest`: a deadline that
made any step fail makes the answer an error, however corrupt or complete it looked;
"ok" hides no shortfall and, where a built-in parser decides, means sound content;
"corrupt" is not said of sound content outside the misjudgements listed in
`Misjudged`; the verdict on the name is about what the file proved to be; text of an
unknown encoding is not offered for reading; and an inspection that looks complete
overlooked no script, macro, link or reference to the outside (`NameIsHonest`,
`RoutingIsHonest`, with the exceptions they name). `FactsAreHonest`: lines, line
endings and final newline are those the author of the text sees, or are not claimed;
alpha, chunks and size hold of the whole image; a pointer has the one form it may
have. `ExitTellsOutcome`: each parser agrees with its grammar, `E_CANCELLED` means
that a signal came, a collection whose context ended is no success, every place has
its file or a reason of its own, and no temporary directory stays behind.

Bounds. `Calls`, `Opens`, `Requests`, `Helpers` and `MaxInspections` bound how many
there are in a run, not how the input is ordered: lines the reader answers itself
may repeat for ever. One more call than the admission tokens and one more than the
call slots make every refusal and every wait happen; two calls under one id are the
smallest case of a duplicate, three the smallest in which one is cancelled, one
refused and one registered later. Slot capacities are 1 or 2 instead of 4 and 16,
paths 1 or 2 instead of 16 and 32; the theorems hold for all values. A limit of one
byte is enough to fill, exceed and keep exceeding a buffer; a two-byte buffer cuts
CR LF in every place. The contended run has, besides its calls and the line that
cancels them, one line that the reader answers itself. In `McpLive` a client with
two calls sends nothing else (`Session`). `LateReturns` leaves out lines with a
carriage return in the middle, where it is a byte like any other; it bounds the
input, so no behaviour of the adapter is cut that a shorter line does not have.
`NoShutdown` leaves the end of the session out of `McpContended` (`McpLive` has it).
`TreeShapes` bounds the trees the walk starts from to those with one or two files
below one directory, and every kind of entry at one path. Archives of four blocks
have one entry more than the cap of two headers, end exactly at the byte limit of
three, and lie beyond it; `MCFiles` keeps the combinations of signature, `file` and
name the code looks at; archives are inspected deeply and without a digest.
`MCPackages` takes a plain document or workbook and lets up to two of its parts be
missing, doubled, garbled, unreadable or over a limit. Texts have 0, 2 or 6 plain
characters and up to three of any kind behind them, so that marks, line ends and
wide characters lie before, across and behind the ends of header and window.
`MCCommandLines` has, behind each command, up to three words of those that matter to
it, with options given twice, without a value, or after a path. Symmetry is used in
`McpContended` only.

Deadlock is checked in every passing run: a server that returned, a run that was
classified, an answered request and an app at rest stutter explicitly (`Terminated`,
`Ended`, `Answered`, `CommandRests`), and in `AuthorityOpen` files can always be
replaced.

Fairness. `ServerFairness`: goroutines are scheduled, timers fire, and a worker
whose context ended returns (see above). No fairness is assumed for the client, for
a worker in time, or for opens: `AbandonOpen` is fair because it waits for the
context only. `FilesystemResponds` adds that a directory walk makes progress:
`McpLive` needs it and `McpBlockedWalk` shows what happens without.
`SchedulerFairness` and `ProcmonFairness` are the same in their modules: the code's
own goroutines, the context's timer, the 100 ms bound of the kill loop, and the
operating system's promise that a killed process dies. Nothing makes a process exit
that is not killed. `SlotsComeBack` alone assumes that the file system answers, as a
premise. `CommandFairness`: the command's goroutine runs when it can, a worker ends
(it is killed with the context), time passes; an open, `os.Stat` and the walk need
not return, and `CommandReturns` says of the last two that they keep the command.
The adapter assumes goroutines, timers, that input which has ended is found to have
ended, and that the worker of an expired context returns. The app assumes that the
main actor and the tasks run, and that an engine ends (by its own `--timeout`);
`SpinnerStops` also has the premise that Foundation calls a termination handler that
is installed after the process ended, which nothing in the code replaces if it does
not.

## 4. Proofs

For every value of the constants (any number of calls, ids, slots, paths, opens,
helpers, requests, inspections, any tree, any files, archives and packages, any limit),
from the assumptions in the modules: `Calls`, `Opens`, `Requests`, `Paths` and
`FileFormats` are finite, capacities and limits are positive, `NoId`, `NoInode` and
`NoURL` are not ids, files or addresses, `Lines` is any set of line shapes, `Paths` has
the directory of each of its paths, `Files` are some of the files there are
(`FilesAssumption`), `Packages` are well-formed (`IsPackage`: their parts, kinds and
relations are those the model knows), the limit on one part is at least two units,
the size of a part the model calls large but within the limit, and the header, which
the window is no shorter than, holds at least four bytes, the longest byte order mark
(it is 64 KiB in the code).

- `McpServerProofs`: `IInv` is inductive, one lemma per action (`Invariance`), and
  with it `TypeCorrect`, `SlotsBalance`, `DescriptorsBounded`, `RegistryCorrect`,
  `AnswersCorrect`, `ReturnIsQuiet` and `CancellationComplete`. The properties alone
  are not inductive: that tokens are not lost needs `CallFacts`, which ties the
  deferred release to the phases in which it is pending; that a return is quiet needs
  the wait group to count exactly the calls not yet done; that cancellation is
  complete needs `ReaderFacts`: while the reader cancels, each handle registered under
  the id is still on its list or has an ended context. Handles are added to the
  registry by the reader only, which is busy.
  Every step of the server maps to a contract step or a stutter (`ContractKept`), and
  `CancellationIsExact` and `LateResultsLose` are action properties from the same
  invariant.
- `OpenProofs`, of the authority: `Invariance` of the opens; `SlotsBalance` (one slot per
  living goroutine), `DescriptorsCovered` (ownership, validated file), `EndedContextWins`,
  and `ContractKept`: the opens of the authority implement `OpenContract`. It needs the
  invariant for the descriptor that is closed late: only its owner may give it up.
- `OpenProofs`, of the command line: `ExitIsHonest` (`ExitTellsOutcome`) for any set of
  command lines, of any words and any length, with the options the model knows, and
  `CommandContractKept`: the opens of a command implement `OpenContract`, too.
  `ReadRight` says, for every number of words read, what a parser's fold has by then (the
  last value of each field, the paths and whether a misfit came); by induction over the
  number of words it holds of all of them (`WordsReadRight`), and `ArgumentsRight` is that
  each parser agrees with the grammar of its command. Neither property of a running
  command is inductive. `CommandFacts` adds which commands come to a step and with how
  many places (`CommandStages`), what an answer is by then (`CommandAnswers`, where the
  exit code's cause is from), and which goroutines may still be at work and with what
  open (`CommandFiles`): behind the place being opened none is, so nothing is left over
  but what the goroutine of an abandoned open brings, and that closes it.
- `ProcmonProofs`: `Invariance` of a run; `BreachesAreExplicit`, `VerdictsAreHonest`,
  `KillIsComplete`, `ResultsAreFinal`.
- `AdapterProofs`: `AdapterInvariance`; `FramingCorrect` (the reader returns exactly the
  line, its size or the end, for every buffer and budget), `AnsweredClean`,
  `DrainCorrect`, and `AdapterContractKept`: the adapter, too, implements
  `CallContract`. Framing is inductive only with what the reader has put away before:
  until the overflow it is the whole line so far, and between lines nothing is left.
- `StoreProofs`: `Invariance`; `ScreenIsCurrent` (a result on the screen is of the
  selected file and, once the view has reacted, of the chosen options, which hinges on
  the revision being compared on the same actor that changes it) and `EnginesAreTold`:
  the running engine of a replaced inspection has its signal, or is about to get it.
- `WorkerProofs`, of one file: `ArchiveAnswersHonestly` and `FileAnswersHonestly`. A scan
  is compared with `Whole`, the archive read without limits, so its invariant (`ScanStands`)
  says at every block that what has been counted together with what is still ahead
  (`Onward`) is the whole archive; `PackageFacts` says by each stage of `detectOOXML`
  which parts were found and read, and what they say. What an answer claims rests on
  what each stage leaves for the next: `EarlyStands` before the parsers, `FamilyStands`
  between text and family, `LateStands` after it, with `NameStands`, `TextStands` and
  `StatusStands` about the verdict on the name, the encoding and the diagnostics. The
  honest answer alone is not inductive: that "ok" means sound content follows only from
  which parser accepted the file, two stages before.
- `WorkerProofs`, of many: `BatchIsRight`, `InventoryIsRight` and `WorkerIsRight` (the
  invariants the runs check), `BatchAnswersHonestly`, `InventoryAnswersHonestly`, and
  all of it for the worker the runs check (`WorkerAnswersHonestly`). `BatchFacts`: how far
  each list has come by each stage, that an item speaks of its own path's file or fails
  for a reason of its own, and that a file can only have grown since its size was taken
  (`MeasuredBefore`), without which the hash budget is not inductive. `InventoryFacts`:
  nothing lies in two of the places the walk has yet to go (`WaysApart`), so it comes
  nowhere twice; what stood undisturbed is collected or lies below such a place
  (`NothingLost`); and while nothing was missed, entries read are entries kept,
  skipped, walked through or still to be looked at (`Accounted`).
- `ContentProofs`: `FactsHold` (`FactsAreHonest`), for texts, pointers and images of any
  length. The state has one step to make (`ContentIInv`: nothing said yet, or what the
  operators make of this file); what is proved is about the operators. The bytes of a
  text are its characters' bytes block by block, and what the decoder makes of them
  spells the characters the author wrote (`Spells`): each has a place of its own, in
  their order, and line ends are in no other place; so there are as many lines
  (`SpelledLines`) and the same kinds of ending (`SpelledEndings`). A window shows the
  mark whole and the first bytes behind it (`TextWindowShows`), and the mark it shows is
  the text's (`MarkSeen`) but for a UTF-16 text that begins like UTF-32 (`Ambiguous`). A
  sample spells the characters that lie in the window, so the only ending it can add is
  the CR of a CR LF it ends in the middle of. The walks over
  PNG, GIF and WebP are recursive functions over offsets into the cells; that they have
  values is by induction on what is left of the cells, and `FirstBlockDecides` says of
  all of them that they answer as the first block that settles the question does, or
  not at all where the window ends before it.
- `Counting`: cardinalities and sums. Slot channels are counters in the models, as in
  the code, and the invariants equate them with cardinalities of sets of calls; counts
  by format and hashed bytes are sums over functions. The library's theorems of
  induction take an operator as a parameter, which the provers here cannot instantiate;
  `NatSetInduction` and `SubsetInduction` say the same of a set.

Only model-checked: everything about liveness (`ServeTerminates`, `CapacityRecovers`,
`DeadlineEndsCall`, `KeepsWholeContract`, `AdapterKeepsContract`, `EndReleases`, `SlotsComeBack`,
`StoppedRunReturns`, `AdapterReturns`, `SpinnerStops`), because the prover does not
reach liveness under fairness or ENABLED. The invariants are all proved.

## 5. Abstractions

- Message text, JSON, schemas and tool metadata: a validator's verdict is a
  nondeterministic outcome (`E_WORKER`, `E_WORKER_PROTOCOL`) or a field of the line.
- A write to standard output succeeds; the code ignores its error.
- The worker has a timer of its own with the same duration, started later; a
  timeout it reports is an ordinary result to the server.
- A process that leaves its group is not modelled, nor the reuse of process
  numbers, nor the fallback for systems without process groups.
- Path syntax rules are one refusal in `LookUp`, the refusals of a directory one in
  `RefuseRoot`.
- Of one file's result: provenance, the traits that follow from the kind alone, the
  PDF text layer and encryption, and the path and device facts of archives (counted
  like links) are left out; the digest is of the bytes there are, so a file that
  shrinks is one that HASH_FAILED or a shorter digest describes. What the parsers of
  fonts, binaries, JSON, YAML, TOML and XML find is a choice between success, failure
  and limit; signatures other than those of text are taken as recognized.
- Of the command line: `mcp` and `worker` are one step, being modules of their own, and
  the wording of answers is left out.
- Not modelled: the schemas (pure validators; a result that breaks its schema is an
  outcome), the presentation of the app, build and validation scripts.

## 6. What the runs found

- `McpBlockedWalk`: an inventory whose directory walk blocks is not answered at its
  deadline (collection_server.go:98); the README speaks of one deadline from
  file-open to final response. Opening a single path does not have this problem:
  `McpLive` checks the contract's promise of an answer with opens that never return.
- `ProcmonOverflow`: both output streams over their limits close one channel twice,
  which panics in the supervising process (procmon.go:66, 107-109).
- `BatchOversize`: a batch result that fits in no form is answered as one that breaks
  its schema, because its list of items has become null (collection.go:151).
- `FileLimit`: a well-formed SVG of more than 100 000 tokens without absolute
  dimensions is called corrupt (inspect.go:197-203), against structured.go:58-60.
- `BomText`: UTF-16LE and UTF-32LE text that begins with its byte order mark FF FE is
  taken for MP3 audio (identity.go:226), so the mark that docs/REVIEW_CONTRACT.md:12
  calls exact evidence is never read.

Seen while modelling, and visible in the models, though no run is about them:

- A valid WebAssembly module is "corrupt" in every mode but quick: identity.go:141
  makes it a binary, `inspectBinary` knows no such format (binary.go:78-82). The same
  holds for images that only `file` knows, such as TIFF (inspect.go:200), font
  collections that fc-scan cannot read (inspect.go:264) and Git LFS pointers named
  `*.json` (inspect.go:124-129); named `*.csv`, a pointer becomes a table. `Misjudged`
  lists them.
- A broken SVG whose root element is readable is corrupt with `integrity.parseable`
  true (inspect.go:204-206). An SVG that is recognized by its name only gets no SVG
  facts and no `active_content`, as the media type tested at inspect.go:174 is the one
  from before the parse; one that begins with a comment is such an SVG. SVG and XML in
  a declared encoding other than UTF-8 are corrupt, as the decoder has no reader for it.
- A Git LFS pointer with another extension gets EXTENSION_MISMATCH twice (inspect.go:56
  and 58); one named `*.yaml` or `*.csv` is promoted, and for YAML keeps the complaint
  about its name. An identity adopted from `file` never gets a verdict on its name.
- A CSV or JSON file in Latin-1 has the trait `text_extractable` once it is promoted to
  data (inspect.go:389-392), which the comment at 382-385 keeps from text of an unknown
  encoding.
- UTF-8 text of more than 64 KiB whose header ends inside a character is "unknown"
  (identity.go:249); JSON that begins with a UTF-8 mark is corrupt. An office document whose
  metadata was not read completely keeps status "ok" and says `inspection_complete` false.
- An error while text or an image is read once more behind the header is dropped
  (inspect.go:136): nothing is left to parse, and a sound file is called corrupt, or
  taken for an empty table. `FileIsHonest` says so (`readable`).
- Office metadata over its budget turns a document into a plain ZIP without a
  diagnostic (archive.go:124 drops the error). A TAR whose first entry has a name that
  begins like an earlier signature is taken for that. A JSON Lines file of one line of exactly
  the window's size is corrupt (structured.go:71-89).
- A worker that ends by itself leaves its probe running (procmon.go:123-128); the
  README speaks of worker-tree termination.
- An open whose caller left keeps its open slot until the file system answers, so the
  queue is not the only point of contention, as authority.go:13-15 has it.
- An entry limit inside a directory keeps the first names in the order the file
  system lists them (inventory.go:210), so which files remain is not determined by
  the tree; the hash budget is checked against a size that `Inspect` takes again; a
  batch cut to its budget is "partial" even if every item is an error; and a walk whose
  queue is empty succeeds in an ended context.
- `inspect` delivers what its worker said although its context ended meanwhile
  (inspect_command.go:156), where batch and inventory do not; a second signal is lost
  while the first is being obeyed; a `doctor` that is killed leaves its temporary
  directory (doctor_schema.go:104).

## 7. Plan

Done: the two servers, opening, running, the walk, both collections, the command line,
one file with its name, traits and constraints, archives, office packages, the facts of
texts and images, and the app; proofs of every invariant the runs check.

Left to TLC for good: liveness, and the fair part of `CallContract`
(`KeepsWholeContract`, `AdapterKeepsContract`), whose safety part is proved of both
servers. Next: lemmas that the proofs of two modules state each in their own way, in one
place; and what the model leaves out of one file (section 5).
