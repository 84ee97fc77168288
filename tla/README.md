# Harporis in TLA+

Formal models of Harporis, the distributed secret scanner in this repository:
what its services do to the state they share, checked with TLC on small
instances and, where it matters most, proved with TLAPS for every value of the
constants. Paths below are relative to the repository's root.

## 1. The system

A client publishes a **scan request**. A **getter** clones the repository, walks
it and publishes its blobs as **chunks** of lines. A **scanner** matches rules
against a chunk and publishes **findings**. A **writer** stores findings in
files: an NDJSON log and report documents (SARIF, HTML, XLSX, Parquet, PDF) per
scan. The services share nothing but four NATS JetStream streams:

| stream | kind | from | to |
|---|---|---|---|
| `HARPORIS_REQUESTS` | work queue | client | getters (queue subscription, push) |
| `HARPORIS_CHUNKS` | work queue | getter | scanners (durable pull consumer) |
| `HARPORIS_FINDINGS` | work queue, 5 min de-duplication by MsgId | scanner | writers (durable pull consumer) |
| `HARPORIS_STATUS` | log | getter, scanner | writer (ephemeral, new events only), CLI |

A cancel is a plain NATS broadcast to the getters, outside of JetStream.

### Inventory

| component | state | operations | what is hard | what makes it correct |
|---|---|---|---|---|
| consumer loops (`kit/nats/pullconsumer`, `getter/internal/nats/requests.go`) | the server's: delivered, delivery count; the worker's: batch | fetch or push, heartbeat, ack, nak, expiry | only the message in hand is heartbeaten; acks get lost; a process dies with its batch | every message is settled; none is delivered more than MaxDeliver times |
| getter (`services/getter`) | registry, run context, walker, workers, counters | dispatch, clone, walk, publish, cancel, finish, stop | cancel and shutdown against the run; failures that count, failures that end it and those nobody notices; redelivery to another getter | what a scan reports is what it published; a scan that started says how it ended; no goroutine is left behind |
| scanner (`services/scanner`) | status tracker: counts, last emitted, grace deadlines | handle a chunk, tick, final emit | half a chunk published, then redelivered; a tick publishing what it read before | an acknowledged chunk is published and counted; counts reach the status stream |
| writer (`services/writer`) | sinks: open documents, finalized scans, NDJSON files; timers | write to each sink in order, finalize, sweep, close, restart | two mutexes per write; documents closed under a writer; timers nobody waits for; memory lost, files kept | an acknowledged finding is in NDJSON and, while the process lives, in its report; a report is never replaced by a smaller one |
| findings directory (`writer/internal/sink`, `writer-rebuild`) | the files: NDJSON, tempfiles, reports, `findings.db` | append, tokens of a document, save and rename, insert, sweep, rebuild | writes that fail half way; fds on files that retention removed; what the next start finds | what was acknowledged can be read; a report is a well-formed document of what was accepted |
| PDF accumulator | buffers, pending counts, snapshots | add, flush on size, interval, terminal, close | flushes overtaking each other; a pending count reset before the flush | nothing acknowledged is lost but by a failing or overtaken flush; nothing stays pending |
| content of a scan (`getter/internal/{chunk,git,filter}`, `scanner/internal/{detect,rules}`) | the Builder, cat-file's stream, the diff parser | split lines, emit chunks with an overlap, match, number lines | chunk borders, returns, long lines, NULs, hunk lines that look like headers | cutting a file into chunks hides nothing; a finding is where it says it is |
| checkout (`getter/internal/git/clone.go`) | clone directory, credential tempfiles | prepare, clone, clean up | failures between the steps | no credentials or clones are left behind |
| rule hot-reload | detector, mtime | poll, load, swap | an edit between load and stat | an edit is picked up |
| CLI dashboard and history | a row per scan, a panel, loads under way | fold an event, evict, keys, results of loads | seed and tail overlap; clocks differ; loads race events | the dashboard agrees with `harporis history`; a panel shows its scan |
| CLI waiting (`scan --wait`, `watch <id>`) | a consumer per scan | submit, fetch, stop, copy reports | events published before the subscription; two waiters on one consumer | every wait ends, with what the stream says |

`PROJECT.json` lists every component with its sources, and under `hazards` what
can go wrong in this code that a test would hardly reach, each at its line.

## 2. Modules

| module | uses | proofs in |
|---|---|---|
| WorkQueue | | WorkQueueProofs |
| ReportSink | | WriterProofs |
| WriterService | WorkQueue, ReportSink | WriterProofs |
| GetterPool | WorkQueue | GetterProofs |
| BlobPool | implements GetterPool | BlobProofs |
| StatusTracker | | in ScannerProofs |
| ScannerPool | WorkQueue, StatusTracker | ScannerProofs |
| OutputDir, StreamedReports, Accumulator, Retention | the last three extend the first | in FindingsProofs |
| FindingsDir | the four above | FindingsProofs |
| Chunks, DiffPatches, Detection, FileFilter, RuleWatch | | in ContentProofs |
| Checkout | | in ContentProofs |
| ContentPipeline | the six above | ContentProofs |
| ScanStatus, FindingsTab, FleetModel, ScanWait | FleetModel extends FindingsTab, FindingsTab and ScanWait extend ScanStatus | in DashboardProofs |
| CliSession | the four above | DashboardProofs |

The first seven follow the messages, with every worker, lost acknowledgement and
restart, and treat what a message holds as a value. FindingsDir, ContentPipeline and
CliSession open up what the first seven leave out: the bytes in the files, the text in
the chunks, and the reader at the end of the status stream.

**WorkQueue** is JetStream as the services use it, written from the consumer
options and the Ack, Nak, Term and InProgress calls; the server is external. It
has the states a message goes through and leaves to the service that uses it
when the handler returns and with what. One module serves both the pull loops
(`Fetch`) and the getters' subscription (`Push`). Left out: back-off of a
failing fetch, a stream at its MaxBytes. The branch of `handleOne` that drops a
message delivered more than MaxDeliver times never runs, the server having the
same limit: ScannerPool keeps its guard (`Dropped`), and a message delivered
MaxDeliver times without an ack ends as `given_up`.

**ReportSink** is one streaming report sink. `Write` is two actions, since it
looks its document up under the sink's mutex and appends under the document's:
`WriteJoin` or `WriteOpen`, then `RowAppended` or `RowFails`. Finishing is two as
well: `Finalize`, `SweepIdle` and `CloseSink` take documents out of the map,
`Publish` closes and renames one. `Crash` is a process death and a restart, with
the sweep of orphaned tempfiles. SARIF, HTML and XLSX have the same structure
(`sarif.go`, `html.go`, `xlsx.go`: Write, Finalize, markFinalizedLocked, Close,
runIdleSweeper, closeAndRename); the map cites `parquet.go`.

**WriterService** composes the queue and the report sink with the NDJSON sink and
the process: the handler's loop over the sinks (`hand` is the sink to call next),
terminal events and their timers, a stop in order (`Stop`, `CloseSinks`, `Exit`),
a kill, a restart. The NDJSON sink is the set of findings in its files: `acquire`
locks a file before it lets go of the sink, and the append is one write. An Exit
waits for the documents Close and the sweeper took, not for those a timer's
goroutine has (`byTimer`).

**GetterPool** is several getters on one REQUESTS queue: subscription,
dispatcher, registry, cancel, and the runner from PENDING to its last status. A
run is one record per getter: what the walker has still to emit, the jobs
emitted, how the walk ended, whether an error was counted, whether the run
context is dead. Status events are a set per scan. A `Blob` is one the filters let
through; a diff scan is the same record with its patches for blobs. `CutBlob` is a
cat-file that ends inside a blob, by itself or because it runs under the run's context:
the worker takes that for the blob's end, counts the blob as scanned and no error. The
next Read of that cat-file fails and is counted, so that a run has at most `CatFiles` such
blobs (`cut`); `lost` remembers those of runs that said COMPLETED.

**BlobPool** opens that record up: the walker goroutine, the bounded channel, the
workers with their cat-file processes, the coordinator of `waitFirstSpawn`, the
caller that waits and collects errors. A worker whose cat-file ended (`CutShort` inside a
blob, `ProcessFails` elsewhere) is an `orphan`: it stays on the channel and fails every
job it takes. `Getter == INSTANCE GetterPool WITH ...`
maps the goroutines to the record, and `ImplementsRun` says that each step is one
of GetterPool's `HandlerStep`s or cancels, or changes nothing the record shows. In
the mapping a walk is over once the walker has ended and every spawn is decided,
and a spawn that failed makes it a failed one, whatever the others published.

**StatusTracker** is the scanner's counter. `Tick` is `emitDeltas` up to the
unlock, `Emit` and `EmitFails` are its publishes one by one; `FinalRead` and then
`FinalEmitted` or `FinalFails` are `FinalEmit`. A publish and the recording of it
are one step: `said` is the maximum of what was published, as the consumers merge
it, so that nothing lies between the two that another order of steps does not
also give. The grace deadline can pass at any tick.

**ScannerPool** composes queue and tracker with the chunk handler. The findings
of a chunk are numbered, the FINDINGS stream is a set of them: the MsgId is a
function of chunk, rule and position, and the 5 minute window is taken to outlast
the redeliveries of a chunk. The getter never sets `is_last_in_scan`; the handler
and its tests do have it, and so does the passing run.

**FindingsDir** is the directory the writer leaves its results in, as one scan
sees it. A file is a sequence of what was written to it, `Torn` for a line or row cut
short. *OutputDir* has the NDJSON file with its fd (which eviction closes and
retention may leave on an unlinked file), the order NDJSON, report sink, ack, and what
`SweepOrphanTempfiles` and `writer-rebuild` make of the files. *StreamedReports* has
the four streaming formats, each with its own tokens, failures and completion; a Write
is one step here, its two critical sections being ReportSink's subject, and that
`excelize.SetRow` stores a row or reports an error is taken from its documentation.
*Accumulator* is `BatchedAccumulator` under the PDF sink: worker, ticker, terminal event
and Close take snapshots under the mutex and render them outside it, in any order.
*Retention* lists once and removes file by file while the sinks go on. FindingsDir adds
SQLite, crash and start, another replica starting on the directory, and rebuild.

**ContentPipeline** takes the text of a repository from the checkout to the reports.
*Checkout* is `PrepareRepo` with its deferred removals. *Chunks* is the line splitter
and the Builder, *DiffPatches* the parser of `git diff`, *FileFilter* the five layers,
*Detection* joining, matching, line index, context and what HTML, PDF and SARIF print
around a finding, *RuleWatch* the reload. A text is a sequence of a few byte values; a
rule is a pattern of fixed length with a capture group, an entropy threshold is "two
symbols", a glob the sequence of sets of names its parts match. A patch's header is read
by `fileHeaderRE`'s rule: one with a path git quotes (`Quoted`) is none, and starts no
patch (`MatchesHeader`); one with " b/" in it is split at the first (`HeaderPath`, `AndB`).
cat-file's output is a stream that the
worker reads blob after blob (`pipe`, `remaining`, `Drained`), so that a blob that is not
read to its end can spoil the next. `TrueLines` and `FileMatches` are the reference the
properties compare with: lines split by definition, matches over the whole file.

**CliSession** is CLI processes beside a status stream. *ScanStatus* is `scanstate`,
`scanmetrics` and the history reads, *FleetModel* the dashboard as a record and what
Update makes of it for each message, *FindingsTab* the second tab with its filter, sort
and paging, *ScanWait* a command that submits, waits and copies the reports (a `hasty` one has a
timeout that is over before its first fetch). The program
takes one message at a time; the pump and each load are goroutines of their own, whose
results come in any order. Texts are constants with an order and a containment
relation; a query is typed whole. The history reads sort by second and with Go's unstable
sort, so that events of one second may be in any order.

Every `Mutant` operator is the definition that follows it with a plausible bug;
none is part of a specification.

## 3. Runs

| run | instance | shows |
|---|---|---|
| `report_sink` | 2 scans, 3 findings, 2 workers, 3 documents, row cap 1, FIFO cap 1, all faults | safety and liveness of the sink |
| `report_sink_restart` | row and FIFO caps 2, crashes, no faults | **violated**: a straggler after a restart replaces the report |
| `writer_service` | 1 scan, 2 findings, 2 workers, batches of 2, MaxDeliver 2, 2 documents, 1 restart, all faults | acknowledged findings are where they belong |
| `writer_shutdown` | as above, no faults, no kill | **violated**: a timer's document is lost at an orderly stop |
| `getter_pool` | 2 requests (one refused) of 1 scan, 2 blobs, 2 getters, MaxDeliver 2, 1 restart, all faults | reports agree with what was published |
| `getter_duplicate` | 2 requests, 1 blob, no faults | **violated**: a queued request runs on two getters |
| `blob_pool` | 4 blobs, 2 workers, a channel of 1, all faults | nothing blocks for ever; what a clean walk published; refinement of GetterPool |
| `scanner_pool` | chunks with 2 and 0 findings, 2 workers, MaxDeliver 2, 1 restart | chunks published, counted, settled; counts reported |
| `scanner_count` | the same, nobody final, no restart | **violated**: one replica over-counts after a redelivery |
| `findings_dir` | 2 findings, 2 deliveries; each format in turn: 1 worker and a restart for the streaming ones, 2 workers for PDF and SQLite, retention beside NDJSON alone | what the files hold, whatever failed |
| `content_pipeline` | 28 blobs, diffs, edits and sources; chunks of 3 bytes with 1 line of overlap; 2 edits; 2 deliveries | nothing is missed, lines are true, checkouts are cleaned, edits are seen |
| `cli_fleet` | 4 status streams over 4 scans with a table of 2, keyboards, 2 loads, 2 waiters, one redelivery | dashboard and history agree; panels are sound; waits end |

### Properties

*ReportSink.* `AckedAccounted`: a finding whose Write stored it is in the report or
in a document that will still be published, or the publish failed, or the FIFO
forgot the scan. `OneDocumentPerScan`: two live documents never race for one
report. `ReportKept`: a published report never loses a finding. `OpenedIsFinished`:
a document with rows is finished even if no terminal event ever comes.

*WriterService.* `AckedInNDJSON`, `ReportWithinNDJSON`, `AckedReported`: what an
acknowledgement means for each sink, through redelivery, failing sinks, shutdown
and restart. A restart loses the rows of unfinished documents: `AckedReported`
excepts processes that were restarted, and `AckedSurvives`, which does not, is
violated. `ReportWithinNDJSON` needs no run: the proof covers it.

*GetterPool.* `CleanScanIsWhole`: COMPLETED without errors means every blob was
published, but for those a cat-file was in the middle of when it ended, at most one for
each. `AckedIsReported`: a request leaves the queue with its blobs published, with the
same exception, or with errors reported, or with a last status that could not be sent. `EndIsReported`: a scan that said RUNNING and
that nobody runs any more said how it ended, however it was cancelled.

*BlobPool.* `OnlyHopelessWalkIsCancelled`: a slow spawn is not taken for a failed
one. `CleanWalkIsWhole`: a walk without any error scanned every blob, and a worker lost at
most the one its cat-file ended in. `NothingIsLeftRunning`: walker, coordinator and caller end. TLC also checks
for deadlock here.

*ScannerPool.* `AckedIsPublished`, `AckedIsCounted`: an acknowledged chunk has all
its findings in the stream and in the counter, also when an answer was lost and
the redelivered finding was a duplicate. `RecordedWasSaid`: the tracker takes for
published only what was. `ChunkIsSettled`: no chunk starves. `CountIsReported`: the
counter is caught up with for ever.

*FindingsDir.* `AckedOnDisk`: an acknowledged finding can be read from NDJSON, but for
a line glued to a torn one and what retention took. `PublishedIsWhole`: a report is a
well-formed document of exactly the accepted rows, or a write failed half way (SARIF and
HTML then go on behind the fragment). `TempfileInUseIsKept`, `OrphansAreSwept`: the sweep
at a start, seen by the process that crashed and by one that runs. `AckedInPdf`,
`ReportIsCurrent`, `PendingIsFlushed`: the accumulator under overtaking flushes.
`DatabaseIsExact`, `RebuildIsComplete`, `SweepTellsTheTruth`: SQLite, rebuild, and the
statistics of a sweep.

*ContentPipeline.* `NothingMissed`: once a source counts as scanned, and not as skipped
too, and its chunks are handled, whatever the rules find in the whole file within
`OverlapLines + 1` lines was published; an error has a cause of its own, a skip is the
filter's, and everything is counted. `LinesAreTrue`: a finding names its file, its number
and offset lead to its secret, and every context line stands in the file where the reports
say. Both except what the code misreads, each case named in the property: a patch whose
header was not understood or that such a header was read into, a misread hunk, a cut-off
blob, SARIF's snippets. `NothingIsLeftBehind`:
credentials and clones. `EditsAreSeen`: an edit is served in the end.

*CliSession.* `FleetAgrees`: with nothing left to send, the dashboard shows of every scan
it never evicted what `harporis history` says. `PanelIsSound`: header, history and
findings of the open panel are its scan's, "loading" has a load under way, and no event
that came with no load under way is lost. `WaitEnds`: every wait ends, with the code
of an end the scan had (the first on the stream for a command that waits alone) or of the
reason it gave up. A waiter that shares its consumer may miss events, and is still never
told what the scan's events did not say.

These state what the code does, its known exceptions included. The exceptions are worth
a reader's time:

- An added line that begins with `++` is dropped by the diff parser as a file header and
  later lines of the hunk are numbered one too low (`diff.go:118-119` says headers are
  told apart). A header whose path git quotes is no header: its hunks, and its "deleted file
  mode", go to the patch before it, or nowhere; a path with " b/" in it loses what is before
  the first (both `diff.go:38`). A cat-file that ends inside a blob looks like the blob's
  end (`runner.go:227`), a cancelled scan's included. A blob the sniff refuses is counted
  twice, as skipped and as scanned (`runner.go:229`). A line of
  MaxLine bytes makes an error of its whole blob. Finish may emit a chunk of overlap only,
  whose findings come twice. A SARIF snippet of a match of several lines leaves out all but
  the first; the PDF prints the context without the matched line (`pdf.go:111-115`). An edit
  of the rules between `LoadFile` and the second stat is never seen.
- SARIF and HTML tempfiles are never swept, against `sarif.go:333-334`; another
  replica's start sweeps XLSX and Parquet tempfiles in use. A retention pass that fails to
  remove a file reports too few `RemainingFiles`. A finding refused for the cap still reaches
  the report with the next flush.
- A history load that was under way when an event arrived replaces the history that has
  it (`detail_model.go:22-25`). Skewed clocks can leave an ended scan RUNNING, in both
  tables. The first terminal event of a failed attempt ends a wait although the getter
  retries; a scan id used again ends a wait with the old outcome. Two waiters of one
  scan share a consumer and split its events. `waitForFindingsStable` never returns an
  empty list, so that `scan -o` of a scan without reports fails after 30 s.

### Bounds

Each bound is a constant or a guard: `Doc` (tempfiles ever opened), `MaxRestarts`,
`MaxDeliver`, and the sets of findings, chunks, requests and blobs. Two workers are
enough for every race in this code: each is between one holder of an item looked
up or read earlier and one other actor (a finalizer, a second worker with the
redelivered message, a tick). Two findings of a scan tell a report that lost one
from one that kept it; the third belongs to another scan and pushes the first out
of a FIFO of one. Two deliveries are a first attempt and a retry. The channel of
BlobPool holds 1 instead of 2 per worker so that 4 blobs fill it. Symmetry is used
where only invariants are checked.

The three larger compositions are cut into configurations that TLC starts from, one
initial state each, since their parts meet at few places: a report format at a time in
FindingsDir (`lives` bounds the starts, `MaxTries` the deliveries, `MaxSweeps` the sweeps;
two findings fill the batch, and `MaxPerScan` is 3 so that a redelivered row reaches
it), an input at a time in ContentPipeline (3 bytes of target put every border inside a
line, a match or a return; `SniffBytes` is shorter than a blob and `MaxLine` than a line),
a stream, a keyboard or a pair of jobs at a time in CliSession (`MaxFleetScans` 2 makes the
table evict, `FetchBatch` 2 splits a stream, `MaxLoads` 2 lets two loads race).

### Fairness

`SinkFairness`: the sweeper ticks until the sink is closed (it runs when
flush_interval_ms is positive) and whoever took a document publishes it.
`PoolFairness`: goroutines run, subprocesses and the broker answer; nothing makes
git fail, so that a walker blocked on its channel is not saved by an error.
`ScannerFairness`: as long as some goroutine or timer can step, one does (each step
of the queue's side uses up a delivery or part of one, so no more is needed); the
ticker ticks; and the broker may refuse a status event any number of times but not
for ever, which is strong fairness of `EmitCount`. `FairSpec` of FindingsDir: the
accumulator's ticker ticks and finishes the flush it began. ContentPipeline: the rule
watcher's ticker, and nothing of getter or scanner. `Fairness` of CliSession: each
waiter's own steps, whose fetches and polls have deadlines; nothing of the operator or
of what is published. WriterService and GetterPool state no liveness: their handlers
can fail until MaxDeliver and leave a message given up.

### Disagreements found

1. `report_sink_restart`: `parquet.go:252-253` says dropping stragglers keeps a
   second document from overwriting the first; the set of finalized scans is not
   kept across a restart.
2. `writer_shutdown`: `sink.go:33-35` asks that no acknowledged finding is lost in a
   crash; even an orderly stop loses a document that a terminal timer is publishing.
3. `getter_duplicate`: `services/getter/README.md:94-96` says a request goes to
   exactly one getter and that the registry refuses a second; a request queued
   behind a running scan expires and runs twice at once.
4. `scanner_count`: `services/scanner/README.md:60-63` recommends one replica for
   correct counts; a redelivered chunk is counted again.

Five more have no run of their own. The models have what the code does, and where a property
is about it, it makes a named exception:

5. `services/getter/README.md:336` says a scanned blob passed all filter layers and was
   published. A blob whose cat-file ends in its middle is counted as scanned and lacks
   lines, or all (`CutShort`; except for it, `CleanWalkIsWhole` and `CleanScanIsWhole`).
6. By the same line, one the NUL sniff refuses is counted as scanned too (`SniffRefuses`;
   `NothingMissed` speaks of what was not skipped).
7. `diff.go:42` speaks of per-file patches. The hunks of a file whose path git quotes are
   filed under another file, and its findings name that one (`MatchesHeader`; `Misfiled`
   in `LinesAreTrue` and `NothingMissed`).
8. `services/cli/README.md:85-87` gives exit code 124 to a timeout and 2 to other errors. The
   panel of `watch` and `scan --wait` ends with 2 when its timeout is reached, and says
   "scan terminal state non-zero" (`watch.go:102-104,126`; `Told` in `WaitEnds` asks for 2 of
   a panel and 124 of lines, so that the passing run is no evidence for that table).
9. `services/getter/README.md:381` says a clone that fails makes the scan FAILED; the
   dispatcher returns before there is a runner, and no status is published (`CloneFails`).
   Who waits for such a scan waits for a timeout.

## 4. Proofs

**WriterProofs** proves, first of the report sink alone, for every set of scans, findings,
workers, documents and every cap: `SinkTypeCorrect`, `SinkAcked`, `SinkOneDocument` (invariants) and
`SinkReportKept` (an action property), all of `SinkSpec`. The assumptions are those
of `SinkAssumption`: scan of a finding, null values outside their sets, positive
caps.

None of the three invariants is inductive. `SinkInv` adds what relates the maps to
the documents: an open document belongs to its scan, is not closed and is not
pending; a pending document is not closed; every document with a scan is open,
pending or closed; the scan of a pending or closed document is remembered as
finalized, forgotten by the FIFO, or the sink is closed; a scan with an open
document is not remembered; a worker's document has the scan of its finding; a row
is a finding of its document's scan; and an unopened document has no rows.
`SinkInvInit` and `SinkInvNext` (one lemma per kind of action) show it inductive, and
`SinkReportKept` follows because a publish over an existing report would need a
second document of a remembered scan. A crash breaks most of this, which is what
`report_sink_restart` shows. Types and caps survive it: `SinkCrashTypeCorrect` proves
them of `SinkCrashSpec`, from `SinkTypeInv`, which says only that a Write between its
sections has a finding and a document.

**WorkQueueProofs** has one lemma for each operation of the queue: it keeps
`QueueInv`, the type invariant with `DeliverableInv`, without which the delivery
after next could exceed MaxDeliver. The bound on what is outstanding is a fact
about cardinalities (`RoomIsCount`, `RangeIsSmall`): a batch is an injection of
1 .. n into the ready messages, disjoint from those in flight. `QueueAssumption`:
finitely many messages, positive limits.

**ScannerProofs** proves of `ScannerSpec`, restarts and all faults included, for any
chunks, workers, scans and options: `ScannerTypeCorrect`, `ScannerAcked`
(`AckedIsPublished`), `ScannerRecorded` (`RecordedWasSaid`) and `ScannerCounted`
(`AckedIsCounted`). `AckedIsPublished` needs
`HandInv`: what a worker has sent of the chunk in hand is in the stream, an idle
worker has sent nothing, and one inside FinalEmit has sent everything of a chunk
that unmarshals. `MovesOn` shows it for a worker that goes on to its next chunk, in
whatever way; `AckedNow` shows that a chunk dropped without a handler call is one
that does not unmarshal, because the delivery limit of `handleOne` is never passed.
`AckedIsCounted` is an inequality of cardinalities: `CountInv` adds to the findings of
acknowledged chunks those that workers have published of the chunk in hand, all counted
already. An ack moves findings from the second set to the first (`Moved`), and whatever
else a worker does to go on can only make the second smaller.

**WriterProofs** then proves of `WriterSpec`, kills and restarts included: `WriterTypeCorrect`,
`WriterAcked` (`AckedInNDJSON`), `WriterReports` (`ReportWithinNDJSON`), `WriterReported`
(`AckedReported`), and `WriterRunsSink`, that `WriterSpec` implements `SinkCrashSpec`. `ProgressInv` says that a worker at the report sink has in hand a
finding NDJSON took, and that a Write under way is of that finding. `AckedReported` holds
until the first restart, which is as long as `SinkInv` does: `SinkStep`
shows that a step of the writer is a step of the sink or leaves it alone, and
`AckedIsHeld` that an acknowledged finding was stored, skipped or lost there. The types are put
together from those of the parts, `SinkTypeInv` and the queue's `QueueInv` (`QP` is
WorkQueueProofs for findings, whose lemmas ask for `QueueOptions`, implied by
`WriterAssumption`: finitely many findings, positive limits); what the writer adds is that
a timer publishes only documents the sink still has (`ProcInv`).

**GetterProofs** proves of `GetterSpec`: `GetterTypeCorrect`, `GetterCleanIsWhole`
(`CleanScanIsWhole`), `GetterAcked` (`AckedIsReported`) and `GetterEnds` (`EndIsReported`).
`RunInv` says where a run's blobs are at each moment: still to be emitted, emitted,
published, cut off, or accounted for by a counted error or a failed walk, and a walk that is
done emitted all (`Accounted`); that no more than `CatFiles` are cut off is carried along
with it. `FinalInv` carries it over the last status, `EndInv` says who
still owes a scan its end, `HoldInv` that a getter runs what it accepted.

**BlobProofs** proves of `PoolSpec`, for any number of workers and blobs and any channel:
`PoolTypeCorrect`, `PoolHopeless` (`OnlyHopelessWalkIsCancelled`), `PoolCleanIsWhole`
(`CleanWalkIsWhole`) and `PoolImplementsRun` (`ImplementsRun`). The coordinator only counts signals; `CountInv` equates its count plus
the failed signals still on the channel with the spawns that failed, as cardinalities. The
refinement is proved step by step: each action of the goroutines is mapped to what it does
to the run's record, the published chunks, the status and the context (`EmitIsStep` to
`CancelIsStep`). A step may do nothing there, or two things of the walk at once, and which
it does depends on where the blobs are: `FlowInv` says that each is in one place and that
workers leave only when the channel is closed and drained. `PoolAssumption`: finitely many
workers, and at least one, since `runner.go:83` turns a setting below 1 into 1.

**FindingsProofs** proves of FindingsDir's `Spec`, for any findings, workers, caps and
batch size, any number of sweeps and starts, every safety property of the run: `DirAcked`
(`AckedOnDisk`), `DirDatabase` (`DatabaseIsExact`), `DirPdf` (`AckedInPdf`), `DirOrphans`
(`OrphansAreSwept`), `DirPublished` (`PublishedIsWhole`), `DirTempfile`
(`TempfileInUseIsKept`), `DirCurrent` (`ReportIsCurrent`), `DirSweep`
(`SweepTellsTheTruth`) and `DirRebuild` (`RebuildIsComplete`).
`WhereInv` says which configuration owns which state, so that each sink's steps concern one
conjunct; `LineInv` extends `AckedOnDisk` to findings in hand, `RowsInv` likewise to the
rows of the database. `PdfInv` is the one with an idea: with nothing pending, the buffer's
rows within the cap are in the report, in flight or recorded as lost, which is why
Finalize may drop the buffer; and a worker that flushes has its finding in its snapshot.
On top of these come three invariants of their own. `StreamInv` follows a document token
by token: an open one holds its opening and exactly what its rows make (`Begun`; for SARIF
with the separators, whose next one is right because `first` says whether there is a row),
or is spoilt, so that the closing makes it well-formed. `CurrentInv` says that with nothing
pending the newest snapshot, in flight or on disk, is the buffer up to the cap. `SweepInv`
is the account of a retention pass: what it has still to look at and what it kept are,
each once, the files it listed and did not remove, and `total` is their bytes.
`RebuildIsComplete` is inductive beside `LineInv`. To make this provable `Sum` counts the
pairs of a file and a byte instead of folding over the files, and a rebuild's rows are a
set. Assumed are null values that are no files, workers that are not called "ticker",
"terminal" or "closer", and finitely many files of other scans.

**ContentProofs** proves of ContentPipeline's `Spec`, for any blobs and hunks, any chunk
size, overlap and context, any rules, edits of them and faults: `LinesTrue`
(`LinesAreTrue`, its named exceptions included) and `CheckoutLeavesNothing` (`NothingIsLeftBehind`).

The first is mostly about data. A source has its true lines, numbered (`Truth`); a chunk is
`Faithful` if its rows are a part of them, or its hunk was misread, or cat-file died in its
blob. From there on the detector: the line index of the joined rows finds the row and the
offset of each byte (`LineAtIs`, `JoinedIs`), so a hit in a faithful chunk has its secret,
its number and its context from the true lines (`PrintedIsTrue`, `FindingIsTrue`). Before
it the Builder: `Built` says that each of its chunks is a contiguous part of the lines that
went through it, and what it still holds their last ones (`FinishIs`). Then what goes through
it. For a blob, each call of the splitter takes the next line of the whole text
(`NextLineIs`), however the reads cut it. For a hunk, the parser is followed over what git
prints, a line leading from one set of parser states to the next (`Leads`), so that every
hunk that is not misread comes out with its rows under their numbers (`ParsedIs`), in the
patch of the header before it that was understood (`AllFiled`, `FiledPatch`): that is the
hunk's own file unless `Misfiled` says otherwise.

`ContentInv` ties this to the worker's steps. Its `ReaderInv` is the reason a blob cannot
be numbered by the one before it: between blobs cat-file's pipe is empty, whichever way the
last was left (skipped, too large, its line too long, its publish failed), so that what is
read as a header is one; and the text not yet split is the blob after the lines the Builder
has (`InText`). `StreamInv` says that every chunk published or about to be is faithful,
`FoundInv` that a finding is a hit of some version of the rules in a published chunk,
`TodoInv` and `TypeInv` the rest. What recursive functions compute is shown by induction
over sets, as for the dashboard.

Assumed are that newline, carriage return and NUL are three bytes (`ChunksAssumption`),
that the size limits are positive (`FilterAssumption`), that a pattern matches at least one
byte and its group lies in the match (`RuleType`), and of git's diff that it prints one
patch for a path, that a hunk with lines of the new file starts at 1 or later, and that the
rename just mentioned under "Not modelled" does not occur (`DiffInput`). To make this provable `ParseUnifiedDiff` and `AddLines` are recursive
functions, and the matches of a rule and the `Hits` of a pack are sets, in which `Earlier`
keeps the code's order, where there were sequences built one by one.

`CheckoutInv` adds to `NothingIsLeftBehind` where the clone directory exists at each phase.

**DashboardProofs** proves of CliSession's `Spec`, for any stream of events, any keys, any
failures of seed, tail and loads and any order of the loads' results: `DashboardAgrees`
(`FleetAgrees`) and `PanelSound` (`PanelIsSound`).

The first says that two folds agree: `ListHistory`'s over the stream, and the dashboard's
over whatever the pump sent it, which is the history's own result and then events many of
which that result has counted already. `TableInv` is what makes counting them again
harmless: a table made from a sequence of events has the counters of each of them, and an
event that would still replace its scan's row has the row's second and kind (ended or not).
So a row can only be set back to an event of the same second, and only until the event it
showed comes again (`Streaming`): once everything was sent, the row shows what the history
says. `again` and `Ambiguous` name the one exception, an event delivered twice by the
server. `Seeding` and `Streaming` say how far the pump is, `FleetInv` joins them. That
`TableInv` holds of a table of any length is induction over the stream (`Induction`, from
the library's `WFMin`, which takes sets where the other induction theorems take operators),
after showing that the recursive function of `HistoryTable` exists (`TablesExist`).

`PanelInv` adds the panel: the loads that are on their way carry findings or events of the
scan they were started for, a tab that is loading has one, and as long as none is, the
history has the events that came (`OpenPanelInv`). It rests on what the sort promises: that
sorting a finite set by a strict total order gives each element once (`CanBeSorted`), so
that a row under the cursor is the row of a scan. Assumed is `TextAssumption`, that the
order of texts lists each once and that "no metrics" is no metrics record.

Only model-checked: `NothingMissed`, which is not true of every rule: a pattern that
matches across lines may, in a chunk that starts inside such a match, find a shifted match
that takes the place of the one-line match after it, so it is a property of the rules
checked; `AckedSurvives` and the other violated properties, by nature; all liveness (the
prover has no ENABLED).

## 5. Not modelled

Start-up configuration and resources of the getter, gRPC, metrics and health; the
creation of the streams; the contracts' enumerations and kit's helpers; generated
code. Of the CLI: compose, doctor, nats, health, metrics and `findings export`, which
are request-response or formatting; rendering; the range presets of a request; the
lines of a fleet without a terminal (`StreamStatusLinesAll`). Encodings and document
text, masking, redaction, the environment git gets its credentials in, regular
expressions and entropy beyond the stand-ins named above, `ByteOffset` of a row,
`BatchedAccumulator.Flush`, which only tests call. SQLite's own transactions are taken
as given. Of `git diff`: combined diffs, `diff.noprefix` and `diff.mnemonicPrefix`, and a
rename to a quoted path out of a directory whose name ends in " b". Of globs: a part that
matches "/".

Simplifications: `CloseSinks` closes all sinks in one step; `Refuse` does not tell a
terminated poison request from a refused one; a walk that fails without any worker
drops its jobs; one report sink stands for those that run one after the other; the
idle timeout of a wait passes after an empty fetch or, for a hasty one, before any; `findings.ReadFile` is given the one
report its listing names, as in the code, which of several replicas reads only the first.

## 6. What could come next

1. **Pipeline**: a first attempt that fails, the writer's finalize, and the retry whose
   findings are stragglers, out of GetterPool and ReportSink in one model.
2. Of `NothingMissed`, the part that holds of every rule: that the Builder's chunks cover
   every line, each new chunk beginning with the overlap of the last (`Built` has half of
   it), and that a rule whose pattern stays within a line misses nothing.
