---------------------------- MODULE StreamedReports ----------------------------
(***************************************************************************)
(* What the streaming sinks write into a report: SARIF token by token,     *)
(* HTML row by row, XLSX into a workbook that is saved at the end, Parquet *)
(* through its writer.  ReportSink has the protocol these sinks share, in  *)
(* its two critical sections; here a Write is one step, and the question   *)
(* is what is in the file when operations fail half way.                   *)
(***************************************************************************)
EXTENDS OutputDir

VARIABLES
  doc,       \* the open document of the scan (sarifScanState and its siblings)
  finalized  \* the scan was finalized by this process

streamVars == <<doc, finalized>>

\* stage: none, open, taken (out of the map, under closeAndRename), saved (complete,
\* to be renamed), over.  tmp: the tempfile exists.  bytes: what was written; rows:
\* the findings Write accepted; first: no separator is due yet; total: the counter
\* of the XLSX summary; spoilt (history): a failed write left something behind.
NoDocument == [stage |-> "none", tmp |-> FALSE, bytes |-> <<>>, rows |-> <<>>,
               first |-> TRUE, total |-> 0, spoilt |-> FALSE]

StreamInit == doc = NoDocument /\ finalized = FALSE

\* The document a Write goes to, opened by the first one of the scan.
Document(prefix) ==
  IF doc.stage = "open" THEN doc
  ELSE [NoDocument EXCEPT !.stage = "open", !.tmp = prefix # <<>>, !.bytes = prefix]

\* Document x once finding f is accepted and its file holds bytes.
Rows(x, f, bytes) == [x EXCEPT !.bytes = bytes, !.rows = Append(@, f)]

-----------------------------------------------------------------------------
(* One Write: closed, finalized, opened, full, appended or failed.         *)

Writing(w, fmt) == up /\ hand[w].at = fmt

\* ErrSinkClosed, the document cannot be opened, or it is full.
StreamRefuses(w, fmt) ==
  /\ Writing(w, fmt)
  /\ \/ closed
     \/ ~finalized /\ doc.stage = "none"
     \/ doc.stage = "open" /\ Len(doc.rows) >= MaxPerScan
  /\ Drop(w)
  /\ UNCHANGED <<sinkSame, streamVars>>

\* A straggler: dropped, and acknowledged.
StreamDrops(w, fmt) ==
  /\ Writing(w, fmt)
  /\ ~closed /\ finalized
  /\ Pass(w)
  /\ UNCHANGED <<sinkSame, streamVars>>

\* A row is due in document x.
RowDue(w, fmt, x) ==
  /\ Writing(w, fmt)
  /\ ~closed /\ ~finalized
  /\ Len(x.rows) < MaxPerScan

Accept(w, x) == doc' = x /\ Pass(w) /\ UNCHANGED <<sinkSame, finalized>>
Reject(w, x) == doc' = x /\ Drop(w) /\ UNCHANGED <<sinkSame, finalized>>

-----------------------------------------------------------------------------
(* SARIF: {... "results": [ r1, r2 ]}                                      *)

SarifDocument == Document(<<"[">>)

\* Mutant: first is never cleared.
SeparatedNever(x) == [x EXCEPT !.bytes = IF x.first THEN @ ELSE Append(@, ",")]

\* Separator and result are two writes; first is cleared once the first indentation
\* is in (white space, not a token here).
Separated(x) == [x EXCEPT !.bytes = IF x.first THEN @ ELSE Append(@, ","),
                          !.first = FALSE]

SarifWrite(w) ==
  LET x == SarifDocument
      y == Separated(x)
  IN /\ RowDue(w, "sarif", x)
     /\ Accept(w, Rows(y, hand[w].f, Append(y.bytes, hand[w].f)))

\* The separator fails, whole or after its comma, or the result does.
SarifWriteFails(w) ==
  LET x == SarifDocument
      y == Separated(x)
  IN /\ RowDue(w, "sarif", x)
     /\ \E left \in {x, [y EXCEPT !.first = x.first], y,
                     [y EXCEPT !.bytes = Append(@, Torn)]} :
          Reject(w, [left EXCEPT !.spoilt = @ \/ left # x])

-----------------------------------------------------------------------------
(* HTML: a row is one write.                                               *)

HtmlDocument == Document(<<"<table>">>)

HtmlWrite(w) ==
  /\ RowDue(w, "html", HtmlDocument)
  /\ LET x == HtmlDocument
     IN Accept(w, Rows(x, hand[w].f, Append(x.bytes, hand[w].f)))

HtmlWriteFails(w) ==
  /\ RowDue(w, "html", HtmlDocument)
  /\ \E t \in {<<>>, <<Torn>>} :
       Reject(w, [HtmlDocument EXCEPT !.bytes = @ \o t, !.spoilt = @ \/ t # <<>>])

-----------------------------------------------------------------------------
(* XLSX: rows stay in the workbook until it is saved; the summary counts   *)
(* them apart.                                                             *)

XlsxDocument == Document(<<>>)

\* appendRow: the row is set, then the counters go up.
XlsxWrite(w) ==
  /\ RowDue(w, "xlsx", XlsxDocument)
  /\ LET x == [XlsxDocument EXCEPT !.total = @ + 1]
     IN Accept(w, Rows(x, hand[w].f, Append(x.bytes, hand[w].f)))

XlsxWriteFails(w) ==
  /\ RowDue(w, "xlsx", XlsxDocument)
  /\ Reject(w, XlsxDocument)

\* Mutant: the counters go up before the row is set.
XlsxWriteFailsCounted(w) ==
  /\ RowDue(w, "xlsx", XlsxDocument)
  /\ Reject(w, [XlsxDocument EXCEPT !.total = @ + 1])

-----------------------------------------------------------------------------
(* Parquet: rows go through the GenericWriter into the tempfile.           *)

ParquetDocument == Document(<<"PAR1">>)

ParquetWrite(w) ==
  /\ RowDue(w, "parquet", ParquetDocument)
  /\ LET x == ParquetDocument
     IN Accept(w, Rows(x, hand[w].f, Append(x.bytes, hand[w].f)))

ParquetWriteFails(w) ==
  /\ RowDue(w, "parquet", ParquetDocument)
  /\ Reject(w, ParquetDocument)

-----------------------------------------------------------------------------
(* Finishing: the document leaves the map, is completed, then renamed.     *)

Streaming == config.report \in {"sarif", "html", "xlsx", "parquet"}

doneSame == <<config, up, starts, hand, tries, acked, lineVars, orphan>>

\* Out of the map, marked finalized, to be published outside the mutex.
TakeDocument(fmt) ==
  /\ up /\ ~closed
  /\ config.report = fmt
  /\ doc.stage = "open"
  /\ doc' = [doc EXCEPT !.stage = "taken"]
  /\ finalized' = TRUE
  /\ UNCHANGED <<doneSame, closed, report>>

\* Finalize on a terminal event, a no-op for a scan with no document.
SarifFinalize   == TakeDocument("sarif")
HtmlFinalize    == TakeDocument("html")
XlsxFinalize    == TakeDocument("xlsx")
ParquetFinalize == TakeDocument("parquet")

\* The sweeper finalizes a scan that had a row and has had none for idleTimeout.
SarifSweep   == doc.rows # <<>> /\ TakeDocument("sarif")
HtmlSweep    == doc.rows # <<>> /\ TakeDocument("html")
XlsxSweep    == doc.rows # <<>> /\ TakeDocument("xlsx")
ParquetSweep == doc.rows # <<>> /\ TakeDocument("parquet")

\* Close of the sinks, NDJSON first, takes whatever is open.
CloseSinks(fmt) ==
  /\ up /\ ~closed
  /\ config.report = fmt
  /\ closed' = TRUE
  /\ doc' = IF doc.stage = "open" THEN [doc EXCEPT !.stage = "taken"] ELSE doc
  /\ CloseLines
  /\ UNCHANGED <<config, up, starts, hand, tries, acked, orphan, finalized, report>>

SarifClose   == CloseSinks("sarif")
HtmlClose    == CloseSinks("html")
XlsxClose    == CloseSinks("xlsx")
ParquetClose == CloseSinks("parquet")

Completed(fmt, x) ==
  /\ up
  /\ config.report = fmt
  /\ doc.stage = "taken"
  /\ doc' = [x EXCEPT !.stage = "saved"]
  /\ UNCHANGED <<doneSame, closed, finalized, report>>

\* closeAndRename up to the rename: the closing brackets, the suffix, the workbook
\* with its summary, the Parquet footer; each synced and closed.
SarifSave   == Completed("sarif", [doc EXCEPT !.bytes = Append(@, "]")])
HtmlSave    == Completed("html", [doc EXCEPT !.bytes = Append(@, "</table>")])
XlsxSave    == Completed("xlsx", [doc EXCEPT !.tmp = TRUE])
ParquetSave == Completed("parquet", [doc EXCEPT !.bytes = Append(@, "footer")])

Over == doc' = [doc EXCEPT !.stage = "over", !.tmp = FALSE]

\* An operation fails: the tempfile is removed.
StreamSaveFails ==
  /\ up
  /\ doc.stage = "taken" \/ doc.stage = "saved"
  /\ Over
  /\ UNCHANGED <<doneSame, closed, finalized, report>>

\* The rename, which needs a tempfile to be there.
StreamRename ==
  /\ up
  /\ doc.stage = "saved" /\ doc.tmp
  /\ report' = [bytes |-> doc.bytes, rows |-> doc.rows, total |-> doc.total,
                spoilt |-> doc.spoilt]
  /\ Over
  /\ UNCHANGED <<doneSame, closed, finalized>>

-----------------------------------------------------------------------------
\* The formats' actions, and what a crash makes of them.
StreamNext ==
  \/ \E w \in Worker :
       \/ \E fmt \in {"sarif", "html", "xlsx", "parquet"} :
            StreamRefuses(w, fmt) \/ StreamDrops(w, fmt)
       \/ SarifWrite(w) \/ SarifWriteFails(w)
       \/ HtmlWrite(w) \/ HtmlWriteFails(w)
       \/ XlsxWrite(w) \/ XlsxWriteFails(w)
       \/ ParquetWrite(w) \/ ParquetWriteFails(w)
  \/ SarifFinalize \/ HtmlFinalize \/ XlsxFinalize \/ ParquetFinalize
  \/ SarifSweep \/ HtmlSweep \/ XlsxSweep \/ ParquetSweep
  \/ SarifClose \/ HtmlClose \/ XlsxClose \/ ParquetClose
  \/ SarifSave \/ HtmlSave \/ XlsxSave \/ ParquetSave
  \/ StreamSaveFails \/ StreamRename

StreamForget == doc' = NoDocument /\ finalized' = FALSE

-----------------------------------------------------------------------------
(* What the published report must be.                                      *)

\* rows interleaved with commas: what SARIF must hold between its brackets.
Listed(rows) ==
  [i \in 1..(IF rows = <<>> THEN 0 ELSE 2 * Len(rows) - 1) |->
     IF i % 2 = 0 THEN "," ELSE rows[(i + 1) \div 2]]

WellFormed(r) ==
  LET inside == SubSeq(r.bytes, 2, Len(r.bytes) - 1) IN
  CASE config.report = "sarif" -> inside = Listed(r.rows) /\ Last(r.bytes) = "]"
    [] config.report = "html" -> inside = r.rows /\ Last(r.bytes) = "</table>"
    [] config.report = "parquet" -> inside = r.rows /\ Last(r.bytes) = "footer"
    [] config.report = "xlsx" -> r.bytes = r.rows /\ r.total = Len(r.rows)
    [] OTHER -> TRUE

===============================================================================
