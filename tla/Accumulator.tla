------------------------------ MODULE Accumulator ------------------------------
(***************************************************************************)
(* BatchedAccumulator with the PDF sink on top of it.  Findings pile up in *)
(* memory; whoever finds the batch full, the ticker, a terminal event and  *)
(* Close each take a snapshot of the whole buffer under the mutex and      *)
(* render it outside: the report is replaced by snapshot after snapshot,   *)
(* in the order the renames happen.                                        *)
(***************************************************************************)
EXTENDS OutputDir

CONSTANTS
  FlushBatch,   \* BatchConfig.FlushBatch
  Nobody        \* no flusher

ASSUME AccAssumption ==
  /\ FlushBatch \in Nat \ {0}
  /\ Worker \cap {"ticker", "terminal", "closer", Nobody} = {}

\* Whoever calls doFlush: a worker in Add, the ticker, a terminal event, Close.
Flusher == Worker \cup {"ticker", "terminal", "closer"}

VARIABLES
  known,     \* the scan is in BatchedAccumulator.scans
  buf,       \* accState.findings
  pending,   \* accState.pendingCount
  flush,     \* the flush each flusher is in: its snapshot and its stage
  newest,    \* history: whose snapshot is the latest one taken
  fresh,     \* history: the latest snapshot taken is the report
  dropped    \* history: findings of snapshots that failed or reports replaced

bufVars == <<known, buf, pending>>
accVars == <<bufVars, flush, newest, fresh, dropped>>

NoFlush == [stage |-> "none", snap |-> <<>>]

AccInit ==
  /\ known = FALSE /\ buf = <<>> /\ pending = 0
  /\ flush = [x \in Flusher |-> NoFlush]
  /\ newest = Nobody /\ fresh = FALSE /\ dropped = {}

accSame == <<config, up, starts, tries, acked, lineVars, orphan>>

\* Flusher x takes snapshot s, to render it outside the mutex.
Snapshot(x, s) ==
  /\ flush[x] = NoFlush
  /\ flush' = [flush EXCEPT ![x] = [stage |-> "queued", snap |-> s]]
  /\ newest' = x /\ fresh' = FALSE

-----------------------------------------------------------------------------
(* Add.                                                                    *)

\* The buffer once the worker's finding is appended: a scan not known starts anew.
Added(w) == Append(IF known THEN buf ELSE <<>>, hand[w].f)
Count    == (IF known THEN pending ELSE 0) + 1

Adding(w) ==
  /\ up /\ hand[w].at = "pdf"
  /\ ~closed
  /\ known' = TRUE
  /\ buf' = Added(w)

\* ErrSinkClosed.
AddRefused(w) ==
  /\ up /\ hand[w].at = "pdf"
  /\ closed
  /\ Drop(w)
  /\ UNCHANGED <<accSame, closed, report, accVars>>

\* Over MaxPerScan: the error comes after the append.
AddOverCap(w) ==
  /\ Adding(w)
  /\ Len(Added(w)) > MaxPerScan
  /\ pending' = Count - 1
  /\ Drop(w)
  /\ UNCHANGED <<accSame, closed, report, flush, newest, fresh, dropped>>

\* Below the batch size: buffered, and Write returns nil.
AddBuffered(w) ==
  /\ Adding(w)
  /\ Len(Added(w)) <= MaxPerScan
  /\ Count < FlushBatch
  /\ pending' = Count
  /\ Pass(w)
  /\ UNCHANGED <<accSame, closed, report, flush, newest, fresh, dropped>>

\* Mutant: the snapshot is the findings of this batch only.
AddFlushesBatch(w) ==
  /\ Adding(w)
  /\ Len(Added(w)) <= MaxPerScan
  /\ Count >= FlushBatch
  /\ pending' = 0
  /\ Snapshot(w, SubSeq(Added(w), Len(Added(w)) - Count + 1, Len(Added(w))))
  /\ hand' = [hand EXCEPT ![w].at = "flush"]
  /\ UNCHANGED <<accSame, closed, report, dropped>>

\* The batch is full: this worker flushes.
AddFlushes(w) ==
  /\ Adding(w)
  /\ Len(Added(w)) <= MaxPerScan
  /\ Count >= FlushBatch
  /\ pending' = 0
  /\ Snapshot(w, Added(w))
  /\ hand' = [hand EXCEPT ![w].at = "flush"]
  /\ UNCHANGED <<accSame, closed, report, dropped>>

-----------------------------------------------------------------------------
(* The ticker, Finalize and Close.                                         *)

Pdf == up /\ config.report = "pdf"

\* Mutant: the ticker leaves a batch that is not full to the next Add.
TickFlushFullBatch ==
  /\ Pdf /\ ~closed
  /\ known /\ pending >= FlushBatch
  /\ Snapshot("ticker", buf)
  /\ pending' = 0
  /\ UNCHANGED <<accSame, closed, hand, report, known, buf, dropped>>

\* tickFlush, for a scan whose last flush is an interval ago.
TickFlush ==
  /\ Pdf /\ ~closed
  /\ known /\ pending > 0
  /\ Snapshot("ticker", buf)
  /\ pending' = 0
  /\ UNCHANGED <<accSame, closed, hand, report, known, buf, dropped>>

\* Mutant: Finalize drops the state and leaves the flush to the ticker.
FinalizeUnflushed ==
  /\ Pdf /\ ~closed
  /\ known
  /\ known' = FALSE /\ buf' = <<>> /\ pending' = 0
  /\ UNCHANGED <<accSame, closed, hand, report, dropped, flush, newest, fresh>>

\* Finalize: the scan's state is dropped, with a last flush if something is pending.
Finalize ==
  /\ Pdf /\ ~closed
  /\ known
  /\ flush["terminal"] = NoFlush
  /\ IF pending > 0 THEN Snapshot("terminal", buf)
                    ELSE UNCHANGED <<flush, newest, fresh>>
  /\ known' = FALSE /\ buf' = <<>> /\ pending' = 0
  /\ UNCHANGED <<accSame, closed, hand, report, dropped>>

\* Close: no Add from here on; what is pending is flushed when the ticker is gone.
Close ==
  /\ Pdf /\ ~closed
  /\ closed' = TRUE
  /\ IF known /\ pending > 0 THEN Snapshot("closer", buf)
                             ELSE UNCHANGED <<flush, newest, fresh>>
  /\ CloseLines
  /\ UNCHANGED <<config, up, starts, tries, acked, orphan, hand, report, bufVars, dropped>>

-----------------------------------------------------------------------------
(* PDF.flush: render into a tempfile, rename it onto the report.           *)

Flushed(x) == flush' = [flush EXCEPT ![x] = NoFlush]

\* a.wg.Wait in Close.
MayFlush(x) == x = "closer" => flush["ticker"] = NoFlush

Render(x) ==
  /\ flush[x].stage = "queued"
  /\ MayFlush(x)
  /\ flush' = [flush EXCEPT ![x].stage = "saved"]
  /\ UNCHANGED <<accSame, closed, hand, report, bufVars, newest, fresh, dropped>>

\* The fonts, the rendering or the rename fail, or the tempfile is gone: it is
\* removed and the error goes to the caller, who naks if it is a worker.
FlushFails(x) ==
  /\ flush[x].stage # "none"
  /\ MayFlush(x)
  /\ Flushed(x)
  /\ IF x \in Worker THEN Drop(x) ELSE UNCHANGED hand
  /\ dropped' = dropped \cup ToSet(flush[x].snap)
  /\ UNCHANGED <<accSame, closed, report, bufVars, newest, fresh>>

ReportRows == IF report = NoFile THEN <<>> ELSE report.rows

Rename(x) ==
  /\ flush[x].stage = "saved"
  /\ Flushed(x)
  /\ report' = [rows |-> flush[x].snap]
  /\ IF x \in Worker THEN Pass(x) ELSE UNCHANGED hand
  /\ fresh' = (x = newest)
  /\ dropped' = dropped \cup (ToSet(ReportRows) \ ToSet(flush[x].snap))
  /\ UNCHANGED <<accSame, closed, bufVars, newest>>

-----------------------------------------------------------------------------
AccNext ==
  \/ \E w \in Worker :
       AddRefused(w) \/ AddOverCap(w) \/ AddBuffered(w) \/ AddFlushes(w)
  \/ TickFlush \/ Finalize \/ Close
  \/ \E x \in Flusher : Render(x) \/ FlushFails(x) \/ Rename(x)

\* A crash: the buffer and the snapshots are gone.
InFlight == UNION {ToSet(flush[x].snap) : x \in Flusher}

AccForget ==
  /\ known' = FALSE /\ buf' = <<>> /\ pending' = 0
  /\ flush' = [x \in Flusher |-> NoFlush]
  /\ newest' = Nobody /\ fresh' = FALSE
  /\ dropped' = dropped \cup ToSet(buf) \cup InFlight

===============================================================================
