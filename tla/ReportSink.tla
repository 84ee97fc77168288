------------------------------ MODULE ReportSink ------------------------------
(***************************************************************************)
(* One streaming report sink of the writer: SARIF, HTML, XLSX and Parquet  *)
(* all follow this protocol (parquet.go is the one the map cites).  The    *)
(* first Write of a scan opens a tempfile, every Write appends one row,    *)
(* and a terminal event, the idle sweeper or Close finishes the document   *)
(* and renames it onto <scan_id>.<ext>.                                    *)
(*                                                                         *)
(* A Write runs in two critical sections with nothing held in between: it  *)
(* looks its document up under the sink's mutex (Write* actions), then     *)
(* appends under the document's own mutex (Row* actions).  Taking a        *)
(* document out of the open map and publishing it are two sections as      *)
(* well.  Every action below is one of these sections.                     *)
(***************************************************************************)
EXTENDS Naturals, Sequences, Functions

CONSTANTS
  Scan,          \* scan ids
  Finding,       \* findings the workers hand to the sink
  ScanOf,        \* the scan of each finding
  Worker,        \* goroutines that call Write
  Doc,           \* bound: the tempfiles that can ever be opened
  NoScan, NoFinding, NoDoc,
  MaxPerScan,    \* maxPerScan: rows a document may hold
  FinalizedCap,  \* parquetFinalizedCap: scans the finalized FIFO remembers
  Faults         \* file operations that may fail: "open", "row", "publish"

ASSUME SinkAssumption ==
  /\ ScanOf \in [Finding -> Scan]
  /\ NoScan \notin Scan /\ NoFinding \notin Finding /\ NoDoc \notin Doc
  /\ MaxPerScan \in Nat \ {0}
  /\ FinalizedCap \in Nat \ {0}
  /\ Faults \subseteq {"open", "row", "publish"}

VARIABLES
  closed,     \* Parquet.closed
  open,       \* Parquet.scans: the document each scan is being written to
  finalized,  \* Parquet.finalizedOrder; Parquet.finalized is its range
  doc,        \* parquetScanState of every tempfile
  pending,    \* documents out of the map, waiting for closeAndRename
  call,       \* where each worker's Write stands
  report,     \* the findings in the published <scan_id>.parquet
  acked,      \* history: findings a Write stored and returned nil for
  lost,       \* history: rows of a document that could not be published
  evicted     \* history: scans the finalized FIFO has forgotten

sinkMem  == <<closed, open, finalized, doc, pending, call>>
sinkHist == <<acked, lost, evicted>>
sinkVars == <<closed, open, finalized, doc, pending, call, report,
              acked, lost, evicted>>

DocState == [scan : Scan \cup {NoScan}, rows : Seq(Finding), closed : BOOLEAN]
Unopened == [scan |-> NoScan, rows |-> <<>>, closed |-> FALSE]

\* A worker is outside Write, or between its two sections with finding f and
\* document d in hand.
CallState == [f : Finding \cup {NoFinding}, d : Doc \cup {NoDoc}]
Idle      == [f |-> NoFinding, d |-> NoDoc]

SinkInit ==
  /\ closed = FALSE
  /\ open = [s \in Scan |-> NoDoc]
  /\ finalized = <<>>
  /\ doc = [d \in Doc |-> Unopened]
  /\ pending = {}
  /\ call = [w \in Worker |-> Idle]
  /\ report = [s \in Scan |-> {}]
  /\ acked = {} /\ lost = {} /\ evicted = {}

-----------------------------------------------------------------------------
(* The first section of Write: find or open the scan's document.           *)

\* The sink is closed: ErrSinkClosed, the caller naks.
WriteRejected(w) ==
  /\ closed
  /\ call[w] = Idle
  /\ UNCHANGED sinkVars

\* A straggler of a finalized scan is dropped, and acknowledged.
WriteStraggler(w, f) ==
  /\ ~closed
  /\ call[w] = Idle
  /\ ScanOf[f] \in Range(finalized)
  /\ UNCHANGED sinkVars

\* The scan's document is open already.
WriteJoin(w, f) ==
  /\ ~closed
  /\ call[w] = Idle
  /\ ScanOf[f] \notin Range(finalized)
  /\ open[ScanOf[f]] # NoDoc
  /\ call' = [call EXCEPT ![w] = [f |-> f, d |-> open[ScanOf[f]]]]
  /\ UNCHANGED <<closed, open, finalized, doc, pending, report, sinkHist>>

\* The tempfile the next document gets (its random name is unused).
Fresh == CHOOSE d \in Doc : doc[d] = Unopened

\* Mutant: the finalized set is not consulted.
WriteOpenOverFinalized(w, f) ==
  /\ ~closed
  /\ call[w] = Idle
  /\ open[ScanOf[f]] = NoDoc
  /\ \E d \in Doc : doc[d] = Unopened
  /\ doc' = [doc EXCEPT ![Fresh].scan = ScanOf[f]]
  /\ open' = [open EXCEPT ![ScanOf[f]] = Fresh]
  /\ call' = [call EXCEPT ![w] = [f |-> f, d |-> Fresh]]
  /\ UNCHANGED <<closed, finalized, pending, report, sinkHist>>

\* First sighting of the scan: newScanState opens a fresh tempfile.
WriteOpen(w, f) ==
  /\ ~closed
  /\ call[w] = Idle
  /\ ScanOf[f] \notin Range(finalized)
  /\ open[ScanOf[f]] = NoDoc
  /\ \E d \in Doc : doc[d] = Unopened
  /\ doc' = [doc EXCEPT ![Fresh].scan = ScanOf[f]]
  /\ open' = [open EXCEPT ![ScanOf[f]] = Fresh]
  /\ call' = [call EXCEPT ![w] = [f |-> f, d |-> Fresh]]
  /\ UNCHANGED <<closed, finalized, pending, report, sinkHist>>

\* ... or cannot, and the caller naks.
WriteOpenFails(w, f) ==
  /\ ~closed
  /\ call[w] = Idle
  /\ ScanOf[f] \notin Range(finalized)
  /\ open[ScanOf[f]] = NoDoc
  /\ "open" \in Faults
  /\ UNCHANGED sinkVars

-----------------------------------------------------------------------------
(* The second section of Write, under the document's mutex.                *)

\* The document was closed since it was looked up (ErrSinkClosed), it is full, or
\* the encoder fails: the caller naks.
RowFails(w) ==
  /\ call[w] # Idle
  /\ \/ doc[call[w].d].closed
     \/ Len(doc[call[w].d].rows) >= MaxPerScan
     \/ "row" \in Faults
  /\ call' = [call EXCEPT ![w] = Idle]
  /\ UNCHANGED <<closed, open, finalized, doc, pending, report, sinkHist>>

\* Mutant: the row cap is not checked.
RowAppendedUncapped(w) ==
  /\ call[w] # Idle
  /\ ~doc[call[w].d].closed
  /\ doc' = [doc EXCEPT ![call[w].d].rows = Append(@, call[w].f)]
  /\ acked' = acked \cup {call[w].f}
  /\ call' = [call EXCEPT ![w] = Idle]
  /\ UNCHANGED <<closed, open, finalized, pending, report, lost, evicted>>

\* Mutant: the document is not looked at again under its own mutex.
RowAppendedUnchecked(w) ==
  /\ call[w] # Idle
  /\ Len(doc[call[w].d].rows) < MaxPerScan
  /\ doc' = [doc EXCEPT ![call[w].d].rows = Append(@, call[w].f)]
  /\ acked' = acked \cup {call[w].f}
  /\ call' = [call EXCEPT ![w] = Idle]
  /\ UNCHANGED <<closed, open, finalized, pending, report, lost, evicted>>

\* The row is in and Write returns nil.
RowAppended(w) ==
  /\ call[w] # Idle
  /\ ~doc[call[w].d].closed
  /\ Len(doc[call[w].d].rows) < MaxPerScan
  /\ doc' = [doc EXCEPT ![call[w].d].rows = Append(@, call[w].f)]
  /\ acked' = acked \cup {call[w].f}
  /\ call' = [call EXCEPT ![w] = Idle]
  /\ UNCHANGED <<closed, open, finalized, pending, report, lost, evicted>>

-----------------------------------------------------------------------------
(* Finishing a document.                                                   *)

\* markFinalizedLocked: remember the scan, forgetting the oldest beyond the cap.
MarkFinalized(s) ==
  LET order == IF s \in Range(finalized) THEN finalized ELSE Append(finalized, s)
  IN IF Len(order) > FinalizedCap
     THEN /\ finalized' = Tail(order)
          /\ evicted' = evicted \cup {Head(order)}
     ELSE /\ finalized' = order
          /\ UNCHANGED evicted

\* Mutant: the scan is not remembered as finalized.
TakeUnmarked(s) ==
  /\ ~closed
  /\ open[s] # NoDoc
  /\ open' = [open EXCEPT ![s] = NoDoc]
  /\ pending' = pending \cup {open[s]}
  /\ UNCHANGED <<closed, finalized, doc, call, report, sinkHist>>

\* Take a scan's document out of the map, to be published outside the mutex.
Take(s) ==
  /\ ~closed
  /\ open[s] # NoDoc
  /\ open' = [open EXCEPT ![s] = NoDoc]
  /\ pending' = pending \cup {open[s]}
  /\ MarkFinalized(s)
  /\ UNCHANGED <<closed, doc, call, report, acked, lost>>

\* Finalize, on a terminal status event.  A scan with no open document is a
\* no-op, and is not remembered as finalized.
Finalize(s) == Take(s)

\* The idle sweeper: a document whose last row is old enough.  One that never got a
\* row (lastWrite is zero) is left alone.  A tick that finds several scans idle is
\* that many of these steps in a row.
SweepIdle(s) ==
  /\ open[s] # NoDoc
  /\ doc[open[s]].rows # <<>>
  /\ Take(s)

\* closeAndRename: the document stops accepting rows and, unless a file operation
\* fails and its tempfile is removed, replaces the scan's report.
Publish(d) ==
  /\ d \in pending
  /\ pending' = pending \ {d}
  /\ doc' = [doc EXCEPT ![d].closed = TRUE]
  /\ \/ /\ report' = [report EXCEPT ![doc[d].scan] = Range(doc[d].rows)]
        /\ UNCHANGED lost
     \/ /\ "publish" \in Faults
        /\ lost' = lost \cup Range(doc[d].rows)
        /\ UNCHANGED report
  /\ UNCHANGED <<closed, open, finalized, call, acked, evicted>>

\* Mutant: the map is dropped before its documents are collected.
CloseSinkDropping ==
  /\ ~closed
  /\ closed' = TRUE
  /\ open' = [s \in Scan |-> NoDoc]
  /\ UNCHANGED <<finalized, doc, pending, call, report, sinkHist>>

\* Close: no Write is accepted from here on, every open document is finished.
CloseSink ==
  /\ ~closed
  /\ closed' = TRUE
  /\ open' = [s \in Scan |-> NoDoc]
  /\ pending' = pending \cup (Range(open) \ {NoDoc})
  /\ UNCHANGED <<finalized, doc, call, report, sinkHist>>

\* The process dies and is started again: memory is gone, SweepOrphanTempfiles
\* removes the tempfiles, the published reports stay.
Crash ==
  /\ closed' = FALSE
  /\ open' = [s \in Scan |-> NoDoc]
  /\ finalized' = <<>>
  /\ doc' = [d \in Doc |-> IF doc[d] = Unopened THEN Unopened
                           ELSE [doc[d] EXCEPT !.closed = TRUE]]
  /\ pending' = {}
  /\ call' = [w \in Worker |-> Idle]
  /\ lost' = lost \cup UNION {Range(doc[d].rows) : d \in {x \in Doc : ~doc[x].closed}}
  /\ UNCHANGED <<report, acked, evicted>>

-----------------------------------------------------------------------------
SinkNext ==
  \/ \E w \in Worker, f \in Finding : WriteJoin(w, f) \/ WriteOpen(w, f)
  \/ \E w \in Worker : RowFails(w) \/ RowAppended(w)
  \/ \E s \in Scan : Finalize(s) \/ SweepIdle(s)
  \/ \E d \in Doc : Publish(d)
  \/ CloseSink

\* WriteRejected, WriteStraggler and WriteOpenFails leave the sink as it was: they
\* are not steps of SinkNext.
SinkSpec == SinkInit /\ [][SinkNext]_sinkVars

\* The sweeper is enabled (flush_interval_ms > 0) and ticks until the sink is closed,
\* and whoever took a document out of the map goes on to publish it.
SinkFairness ==
  /\ \A s \in Scan : WF_sinkVars(SweepIdle(s))
  /\ \A d \in Doc : WF_sinkVars(Publish(d))

SinkFairSpec == SinkSpec /\ SinkFairness

\* The sink across crashes of its process.
SinkCrashSpec == SinkInit /\ [][SinkNext \/ Crash]_sinkVars

-----------------------------------------------------------------------------
(* Type correctness; no document grows past the cap Write enforces.        *)
SinkTypeOK ==
  /\ closed \in BOOLEAN
  /\ open \in [Scan -> Doc \cup {NoDoc}]
  /\ finalized \in Seq(Scan)
  /\ Len(finalized) <= FinalizedCap
  /\ doc \in [Doc -> DocState]
  /\ \A d \in Doc : Len(doc[d].rows) <= MaxPerScan
  /\ pending \subseteq Doc
  /\ call \in [Worker -> CallState]
  /\ report \in [Scan -> SUBSET Finding]
  /\ acked \subseteq Finding /\ lost \subseteq Finding
  /\ evicted \subseteq Scan

\* Documents that still accept rows.
Live == {d \in Doc : doc[d].scan # NoScan /\ ~doc[d].closed}

\* A finding whose Write returned nil after storing it is never mislaid: it is in the
\* scan's report or in a document that will still be published, unless publishing
\* failed or the scan fell out of the finalized FIFO.  This is what the second closed
\* check of Write and the finalized set are for.
AckedAccounted ==
  \A f \in acked :
    \/ f \in report[ScanOf[f]]
    \/ \E d \in Live : /\ f \in Range(doc[d].rows)
                       /\ d \in pending \/ open[ScanOf[f]] = d
    \/ f \in lost
    \/ ScanOf[f] \in evicted

\* Two documents of a scan never race to be renamed onto the same report.
OneDocumentPerScan ==
  \A d, e \in Live :
    doc[d].scan = doc[e].scan => d = e \/ doc[d].scan \in evicted

\* Once published, a report keeps every finding it shows (while the finalized FIFO
\* remembers the scan): dropping stragglers exists so that no second document is
\* renamed over the first.
ReportKept ==
  [][\A s \in Scan : s \notin evicted => report[s] \subseteq report'[s]]_sinkVars

\* ReportKept without the allowance for the FIFO, across restarts: what the comment
\* in Write says dropping stragglers achieves.
ReportNeverOverwritten ==
  [][\A s \in Scan : report[s] \subseteq report'[s]]_sinkVars

\* A document with rows is finished in the end, terminal event or not: the idle
\* sweeper is the backstop.
OpenedIsFinished ==
  \A d \in Doc : doc[d].rows # <<>> ~> doc[d].closed

===============================================================================
