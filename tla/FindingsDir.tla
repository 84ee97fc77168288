------------------------------ MODULE FindingsDir ------------------------------
(***************************************************************************)
(* The findings directory with everything that writes to it: the NDJSON    *)
(* file, one report sink (or none, with the retention sweep running), the  *)
(* crash and restart of the writer, the start of another replica on the    *)
(* same directory, and writer-rebuild reading it.  WriterService has the   *)
(* queue and the timers; the question here is what the files hold.         *)
(***************************************************************************)
EXTENDS StreamedReports, Accumulator, Retention

VARIABLES
  sqlite,    \* findings.db: the rows of the scan, in insertion order
  othersUp,  \* another replica was started on the directory
  rebuilt    \* the rows of the report writer-rebuild made last, and what was acked then

fileVars == <<sqlite, othersUp, rebuilt>>
vars == <<dirVars, streamVars, accVars, retVars, fileVars>>

NotRebuilt == [done |-> FALSE, rows |-> {}, acked |-> {}]

Init ==
  /\ DirInit /\ StreamInit /\ AccInit /\ RetInit
  /\ sqlite = <<>> /\ othersUp = FALSE /\ rebuilt = NotRebuilt

-----------------------------------------------------------------------------
(* SQLite: one INSERT OR IGNORE, committed on its own.                     *)

Inserting(w) == up /\ hand[w].at = "sqlite"

\* Mutant: INSERT without OR IGNORE, into a table without its primary key.
InsertedAgain(f) == Append(sqlite, f)

Inserted(f) == IF f \in ToSet(sqlite) THEN sqlite ELSE Append(sqlite, f)

SqliteWrite(w) ==
  /\ Inserting(w)
  /\ ~closed
  /\ sqlite' = Inserted(hand[w].f)
  /\ Pass(w)
  /\ UNCHANGED <<sinkSame, streamVars, accVars, retVars, othersUp, rebuilt>>

\* Closed, not opened, busy: nothing is stored.  Cancelled late: the row may be.
SqliteFails(w) ==
  /\ Inserting(w)
  /\ sqlite' \in {sqlite, Inserted(hand[w].f)}
  /\ closed => sqlite' = sqlite
  /\ Drop(w)
  /\ UNCHANGED <<sinkSame, streamVars, accVars, retVars, othersUp, rebuilt>>

\* Mutant: the error of the INSERT is not returned.
SqliteFailsIgnored(w) ==
  /\ Inserting(w)
  /\ sqlite' \in {sqlite, Inserted(hand[w].f)}
  /\ Pass(w)
  /\ UNCHANGED <<sinkSame, streamVars, accVars, retVars, othersUp, rebuilt>>

\* Close of the statement and the database; NDJSON alone closes with nothing to do.
CloseOthers ==
  /\ up /\ ~closed
  /\ config.report \in {"none", "sqlite"}
  /\ closed' = TRUE
  /\ CloseLines
  /\ UNCHANGED <<config, up, starts, hand, tries, acked, report, orphan>>
  /\ UNCHANGED <<streamVars, accVars, retVars, fileVars>>

-----------------------------------------------------------------------------
(* The process.                                                            *)

\* The tempfiles in the directory that belong to this process.
Tempfile == doc.tmp \/ \E x \in Flusher : flush[x].stage = "saved"

Crash ==
  /\ up
  /\ up' = FALSE
  /\ hand' = [w \in Worker |-> Idle]
  /\ handle' = "none"
  /\ orphan' = (orphan \/ Tempfile)
  /\ StreamForget /\ AccForget /\ RetForget
  /\ UNCHANGED <<config, starts, closed, tries, acked, ndjson, adrift, report, fileVars>>

\* Mutant: the sweep is not run.
StartUnswept ==
  /\ ~up /\ starts < config.lives
  /\ up' = TRUE /\ starts' = starts + 1
  /\ closed' = FALSE
  /\ UNCHANGED <<config, hand, tries, acked, lineVars, report, orphan>>
  /\ UNCHANGED <<streamVars, accVars, retVars, fileVars>>

\* main sweeps the orphans, then opens the sinks.
Start ==
  /\ ~up /\ starts < config.lives
  /\ up' = TRUE /\ starts' = starts + 1
  /\ closed' = FALSE
  /\ orphan' = (orphan /\ config.report \notin Swept)
  /\ UNCHANGED <<config, hand, tries, acked, lineVars, report>>
  /\ UNCHANGED <<streamVars, accVars, retVars, fileVars>>

\* Another replica starts on the same directory: its sweep cannot tell an orphan from
\* a tempfile in use.
OtherStarts ==
  /\ config.report \in {"sarif", "html", "xlsx", "parquet"}
  /\ ~othersUp
  /\ othersUp' = TRUE
  /\ orphan' = (orphan /\ config.report \notin Swept)
  /\ doc' = [doc EXCEPT !.tmp = @ /\ config.report \notin Swept]
  /\ UNCHANGED <<procVars, hand, tries, acked, lineVars, report, finalized>>
  /\ UNCHANGED <<accVars, retVars, sqlite, rebuilt>>

\* writer-rebuild: replays <scan_id>.ndjson into a report of its own name, and gives
\* up at the first line it cannot read.
Rebuild(kept) ==
  /\ config.report = "none"
  /\ ndjson # NoFile
  /\ Replay(ndjson, kept).ok
  /\ rebuilt' = [done |-> TRUE, rows |-> Replay(ndjson, kept).rows,
                 acked |-> acked \cap kept]
  /\ UNCHANGED <<dirVars, streamVars, accVars, retVars, sqlite, othersUp>>

-----------------------------------------------------------------------------
LineNext ==
  /\ \/ \E w \in Worker, f \in Finding : AppendLine(w, f) \/ AppendFails(w, f)
     \/ \E w \in Worker : AckFinding(w)
     \/ Evict
  /\ UNCHANGED <<streamVars, accVars, retVars, fileVars>>

Next ==
  \/ LineNext
  \/ StreamNext /\ UNCHANGED <<accVars, retVars, fileVars>>
  \/ AccNext /\ UNCHANGED <<streamVars, retVars, fileVars>>
  \/ RetentionNext /\ UNCHANGED <<streamVars, accVars, fileVars>>
  \/ \E w \in Worker : SqliteWrite(w) \/ SqliteFails(w)
  \/ CloseOthers
  \/ Crash \/ Start \/ OtherStarts
  \/ \E kept \in {Finding} \cup {{f} : f \in Finding} : Rebuild(kept)

Spec == Init /\ [][Next]_vars

\* The ticker's goroutine ticks and finishes the flush it started.
Ticks == TickFlush /\ UNCHANGED <<streamVars, retVars, fileVars>>
TickerFlush ==
  /\ Render("ticker") \/ FlushFails("ticker") \/ Rename("ticker")
  /\ UNCHANGED <<streamVars, retVars, fileVars>>

FairSpec == Spec /\ WF_vars(Ticks) /\ WF_vars(TickerFlush)

-----------------------------------------------------------------------------
\* The findings that can be read from the NDJSON file.
Legible == IF ndjson = NoFile THEN {}
           ELSE {ndjson[i] : i \in {j \in DOMAIN ndjson : Decodable(ndjson, j)}}

\* A finding that was acknowledged can be read from the NDJSON file, unless a write
\* cut short before it spoilt its line; or retention removed the file with its line
\* in it, or under the sink's fd before the line was appended.
AckedOnDisk ==
  /\ \A f \in acked :
       \/ f \in Legible
       \/ ndjson # NoFile /\ {f, Torn} \subseteq ToSet(ndjson)
       \/ f \in expired \cup adrift
  /\ expired \cup adrift # {} => config.retention

\* A published report is a well-formed document of exactly the findings Write
\* accepted, unless a write failed half way; then SARIF and HTML keep what it left,
\* and the sink goes on behind it.  A workbook's summary counts its rows.
PublishedIsWhole ==
  report # NoFile /\ Streaming =>
    \/ WellFormed(report)
    \/ report.spoilt /\ config.report \in {"sarif", "html"}

\* The tempfile of an open document stays until it is renamed, unless another replica
\* starts: its sweep removes tempfiles of the formats it knows, in use or not.
TempfileInUseIsKept ==
  doc.stage \in (IF config.report = "xlsx" THEN {"saved"} ELSE {"open", "taken", "saved"})
    => doc.tmp \/ (othersUp /\ config.report \in {"xlsx", "parquet"})

\* What a crash leaves behind is cleaned at the next start, but for SARIF and HTML.
OrphansAreSwept == up /\ orphan => config.report \in {"sarif", "html"}

\* An acknowledged finding of the PDF sink is in the report, in the buffer or in a
\* snapshot being rendered, unless a flush failed, an older snapshot or a buffer
\* begun anew replaced the report, or the process died.
AckedInPdf ==
  config.report = "pdf" =>
    acked \subseteq ToSet(ReportRows) \cup ToSet(buf) \cup InFlight \cup dropped

\* With nothing pending and the latest snapshot on disk, the report is the buffer, up
\* to the findings refused for being over the cap.
ReportIsCurrent ==
  known /\ pending = 0 /\ fresh =>
    /\ IsPrefix(report.rows, buf)
    /\ Len(report.rows) = Len(buf) \/ Len(report.rows) >= MaxPerScan

\* findings.db has every acknowledged finding, across crashes, and each once, however
\* often it was delivered.
DatabaseIsExact ==
  config.report = "sqlite" => acked \subseteq ToSet(sqlite) /\ IsInjective(sqlite)

\* A rebuilt report has every finding of the kept severities that was acknowledged.
RebuildIsComplete ==
  rebuilt.done => rebuilt.acked \subseteq rebuilt.rows \cup expired \cup adrift

\* What the ticker exists for: a finding does not stay pending while the process runs.
PendingIsFlushed == pending > 0 ~> (pending = 0 \/ closed)

===============================================================================
