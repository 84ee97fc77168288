----------------------------- MODULE FindingsProofs -----------------------------
(***************************************************************************)
(* What FindingsDir promises of the files, for any findings, workers, caps *)
(* and batch sizes, any number of sweeps and restarts.  WhereInv says      *)
(* which configuration each piece of state belongs to; on it rest LineInv  *)
(* for the NDJSON file, RowsInv for the database, PdfInv and CurrentInv    *)
(* for the accumulator, and StreamInv for the streamed documents.          *)
(* SweepInv is the retention sweep's own.                                  *)
(***************************************************************************)
EXTENDS FindingsDir, SequenceTheorems, FiniteSetTheorems, TLAPS

Place == Format \cup {"idle", "ack", "flush"}

\* A finding in hand is at the sink the configuration names; only the PDF sink has
\* flushes, and only the streaming sinks documents.
WhereInv ==
  /\ config.report \in Format
  /\ hand \in [Worker -> [f : Finding \cup {NoFinding}, at : Place]]
  /\ \A w \in Worker :
       /\ hand[w].at # "idle" => hand[w].f \in Finding
       /\ hand[w].at \in {"idle", "ack", "flush", config.report}
       /\ hand[w].at = "flush" => config.report = "pdf"
       /\ flush[w].stage # "none" => hand[w].at = "flush"
  /\ \A x \in Flusher : flush[x].stage # "none" => config.report = "pdf"
  /\ doc = NoDocument \/ Streaming

\* A finding AckedOnDisk is content with.
OnDisk(f) ==
  \/ f \in Legible
  \/ ndjson # NoFile /\ {f, Torn} \subseteq ToSet(ndjson)
  \/ f \in expired \cup adrift

\* A finding past the NDJSON sink is on disk, acknowledged or not.
LineInv ==
  /\ ndjson = NoFile \/ ndjson \in Seq(Finding \cup {Torn})
  /\ acked \subseteq Finding /\ \A f \in acked : OnDisk(f)
  /\ \A w \in Worker : hand[w].at # "idle" => OnDisk(hand[w].f)
  /\ \/ expired \cup adrift # {}
     \/ handle = "unlinked"
     \/ sweep.stage # "none"
     => config.retention

\* A finding past SQLite is a row of the database.
RowsInv ==
  config.report = "sqlite" =>
    /\ sqlite \in Seq(Finding) /\ IsInjective(sqlite)
    /\ acked \subseteq ToSet(sqlite)
    /\ \A w \in Worker : hand[w].at = "ack" => hand[w].f \in ToSet(sqlite)

\* The rows of the buffer that are within the cap, and what is beyond the buffer.
CapRows == {buf[i] : i \in {j \in DOMAIN buf : j <= MaxPerScan}}
Settled == ToSet(ReportRows) \cup InFlight \cup dropped

AccTypes ==
  /\ known \in BOOLEAN /\ pending \in Nat /\ buf \in Seq(Finding)
  /\ flush \in [Flusher -> [stage : {"none", "queued", "saved"}, snap : Seq(Finding)]]
  /\ ~known => buf = <<>> /\ pending = 0
  /\ report = NoFile \/ report \in [rows : Seq(Finding)]

\* A finding past the PDF sink is in the buffer's first rows or beyond the buffer; with
\* nothing pending those rows are beyond it too, so that Finalize may drop the buffer.  A
\* worker that flushes has its finding in its snapshot.
PdfInv ==
  config.report = "pdf" =>
    /\ AccTypes
    /\ acked \subseteq Settled \cup CapRows
    /\ \A w \in Worker :
         /\ hand[w].at = "ack" => hand[w].f \in Settled \cup CapRows
         /\ hand[w].at = "flush" => hand[w].f \in ToSet(flush[w].snap)
    /\ pending = 0 => CapRows \subseteq Settled

\* A tempfile is made by the sinks that make some.
OrphanInv ==
  /\ orphan => Streaming \/ config.report = "pdf"
  /\ OrphansAreSwept

DirInv == WhereInv /\ LineInv /\ RowsInv /\ PdfInv /\ OrphanInv

-----------------------------------------------------------------------------
(* What the steps do to the hands.                                         *)

\* One worker drops its finding or takes it further.
HandStep ==
  \/ UNCHANGED hand
  \/ \E w \in Worker :
       /\ hand[w].at # "idle"
       /\ \/ Drop(w) \/ Pass(w)
          \/ config.report = "pdf" /\ hand' = [hand EXCEPT ![w].at = "flush"]

\* What the report sinks never touch.
Elsewhere ==
  /\ UNCHANGED <<config, acked, ndjson, adrift>>
  /\ handle' \in {handle, "none"}

\* A step of a hand leaves every hand with a finding in its place.
LEMMA HandStepTypes ==
  ASSUME WhereInv, HandStep, UNCHANGED config
  PROVE  /\ hand' \in [Worker -> [f : Finding \cup {NoFinding}, at : Place]]
         /\ \A w \in Worker :
              /\ hand'[w].at # "idle" => hand[w].at # "idle" /\ hand'[w].f = hand[w].f
              /\ hand'[w].at \in {"idle", "ack", "flush", config.report}
              /\ hand'[w].at = "flush" => config.report = "pdf"
<1> USE DEF WhereInv, Place
<1>1. CASE UNCHANGED hand
  BY <1>1
<1>2. ASSUME NEW w \in Worker, hand[w].at # "idle", Drop(w)
      PROVE  hand' = [hand EXCEPT ![w] = Idle] /\ Idle \in [f : Finding \cup {NoFinding}, at : Place]
             /\ Idle.at = "idle"
  BY <1>2 DEF Drop, Idle
<1>3. CASE \E w \in Worker : hand[w].at # "idle" /\ Drop(w)
  BY <1>2, <1>3
<1>4. CASE \E w \in Worker : hand[w].at # "idle" /\ Pass(w)
  BY <1>4 DEF Pass
<1>5. CASE \E w \in Worker : /\ hand[w].at # "idle" /\ config.report = "pdf"
                             /\ hand' = [hand EXCEPT ![w].at = "flush"]
  BY <1>5
<1>6. QED
  BY <1>1, <1>3, <1>4, <1>5 DEF HandStep

-----------------------------------------------------------------------------
(* The streaming sinks.                                                    *)

LEMMA StreamMoves ==
  ASSUME WhereInv, StreamNext
  PROVE  /\ Streaming /\ Elsewhere /\ HandStep /\ UNCHANGED <<up, orphan>>
         /\ \A w \in Worker : hand[w].at # "flush"
<1> USE DEF WhereInv
<1>0. config.report \in {"sarif", "html", "xlsx", "parquet"} =>
        Streaming /\ \A w \in Worker : hand[w].at # "flush"
  BY DEF Streaming
<1>1. ASSUME NEW w \in Worker, NEW fmt \in {"sarif", "html", "xlsx", "parquet"},
             StreamRefuses(w, fmt) \/ StreamDrops(w, fmt)
      PROVE  /\ config.report = fmt /\ Elsewhere /\ HandStep /\ UNCHANGED <<up, orphan>>
  <2>1. hand[w].at = fmt /\ fmt \notin {"idle", "ack", "flush"}
    BY <1>1 DEF StreamRefuses, StreamDrops, Writing
  <2>2. QED
    BY <1>1, <2>1 DEF StreamRefuses, StreamDrops, sinkSame, procVars, lineVars, Elsewhere, HandStep
<1>2. ASSUME NEW w \in Worker, SarifWrite(w) \/ SarifWriteFails(w)
      PROVE  config.report = "sarif" /\ Elsewhere /\ HandStep /\ UNCHANGED <<up, orphan>>
  BY <1>2 DEF SarifWrite, SarifWriteFails, RowDue, Writing, Accept, Reject, sinkSame, procVars,
              lineVars, Elsewhere, HandStep
<1>3. ASSUME NEW w \in Worker, HtmlWrite(w) \/ HtmlWriteFails(w)
      PROVE  config.report = "html" /\ Elsewhere /\ HandStep /\ UNCHANGED <<up, orphan>>
  BY <1>3 DEF HtmlWrite, HtmlWriteFails, RowDue, Writing, Accept, Reject, sinkSame, procVars,
              lineVars, Elsewhere, HandStep
<1>4. ASSUME NEW w \in Worker, XlsxWrite(w) \/ XlsxWriteFails(w)
      PROVE  config.report = "xlsx" /\ Elsewhere /\ HandStep /\ UNCHANGED <<up, orphan>>
  BY <1>4 DEF XlsxWrite, XlsxWriteFails, RowDue, Writing, Accept, Reject, sinkSame, procVars,
              lineVars, Elsewhere, HandStep
<1>5. ASSUME NEW w \in Worker, ParquetWrite(w) \/ ParquetWriteFails(w)
      PROVE  config.report = "parquet" /\ Elsewhere /\ HandStep /\ UNCHANGED <<up, orphan>>
  BY <1>5 DEF ParquetWrite, ParquetWriteFails, RowDue, Writing, Accept, Reject, sinkSame, procVars,
              lineVars, Elsewhere, HandStep
<1>6. ASSUME NEW fmt \in {"sarif", "html", "xlsx", "parquet"},
             TakeDocument(fmt) \/ CloseSinks(fmt)
      PROVE  config.report = fmt /\ Elsewhere /\ HandStep /\ UNCHANGED <<up, orphan>>
  BY <1>6 DEF TakeDocument, CloseSinks, CloseLines, doneSame, lineVars, Elsewhere, HandStep
<1>7. ASSUME NEW fmt \in {"sarif", "html", "xlsx", "parquet"}, NEW x, Completed(fmt, x)
      PROVE  config.report = fmt /\ Elsewhere /\ HandStep /\ UNCHANGED <<up, orphan>>
  BY <1>7 DEF Completed, doneSame, lineVars, Elsewhere, HandStep
<1>8. ASSUME StreamSaveFails \/ StreamRename
      PROVE  Streaming /\ Elsewhere /\ HandStep /\ UNCHANGED <<up, orphan>>
  <2>1. doc.stage # "none"
    BY <1>8 DEF StreamSaveFails, StreamRename
  <2>2. Streaming
    BY <2>1 DEF NoDocument
  <2>3. QED
    BY <1>8, <2>2 DEF StreamSaveFails, StreamRename, doneSame, lineVars, Elsewhere, HandStep
<1>9. ASSUME \/ SarifFinalize \/ HtmlFinalize \/ XlsxFinalize \/ ParquetFinalize
             \/ SarifSweep \/ HtmlSweep \/ XlsxSweep \/ ParquetSweep
      PROVE  \E fmt \in {"sarif", "html", "xlsx", "parquet"} : TakeDocument(fmt)
  BY <1>9 DEF SarifFinalize, HtmlFinalize, XlsxFinalize, ParquetFinalize,
              SarifSweep, HtmlSweep, XlsxSweep, ParquetSweep
<1>10. ASSUME SarifClose \/ HtmlClose \/ XlsxClose \/ ParquetClose
       PROVE  \E fmt \in {"sarif", "html", "xlsx", "parquet"} : CloseSinks(fmt)
  BY <1>10 DEF SarifClose, HtmlClose, XlsxClose, ParquetClose
<1>11. ASSUME SarifSave \/ HtmlSave \/ XlsxSave \/ ParquetSave
       PROVE  \E fmt \in {"sarif", "html", "xlsx", "parquet"} : \E x : Completed(fmt, x)
  BY <1>11, Zenon DEF SarifSave, HtmlSave, XlsxSave, ParquetSave
<1>12. QED
  BY <1>0, <1>1, <1>2, <1>3, <1>4, <1>5, <1>6, <1>7, <1>8, <1>9, <1>10, <1>11
     DEF StreamNext, Streaming

-----------------------------------------------------------------------------
(* The accumulator.                                                        *)

\* The snapshots in flight, without the set of flushers.
LEMMA InFlightIs == \A f : f \in InFlight <=> \E x \in Flusher : f \in ToSet(flush[x].snap)
BY DEF InFlight

LEMMA InFlightIsNext ==
  \A f : f \in InFlight' <=> \E x \in Flusher : f \in ToSet(flush'[x].snap)
BY DEF InFlight, ToSet

\* A snapshot adds its findings to those in flight.
LEMMA SnapshotTaken ==
  ASSUME AccTypes, NEW x \in Flusher, NEW s \in Seq(Finding), Snapshot(x, s)
  PROVE  /\ flush' \in [Flusher -> [stage : {"none", "queued", "saved"}, snap : Seq(Finding)]]
         /\ InFlight \cup ToSet(s) \subseteq InFlight'
         /\ flush[x] = NoFlush
         /\ flush'[x].snap = s
         /\ \A y \in Flusher : y # x => flush'[y] = flush[y]
<1>1. flush' = [flush EXCEPT ![x] = [stage |-> "queued", snap |-> s]] /\ flush[x] = NoFlush
  BY DEF Snapshot
<1>2. flush' \in [Flusher -> [stage : {"none", "queued", "saved"}, snap : Seq(Finding)]]
  BY <1>1 DEF AccTypes
<1>3. flush'[x].snap = s /\ \A y \in Flusher : y # x => flush'[y] = flush[y]
  BY <1>1 DEF AccTypes
<1>4. ToSet(flush[x].snap) = {}
  BY <1>1 DEF NoFlush, ToSet
<1>5. InFlight \cup ToSet(s) \subseteq InFlight'
  BY <1>3, <1>4, InFlightIs, InFlightIsNext
<1>6. QED
  BY <1>1, <1>2, <1>3, <1>5

\* A flush that ends takes its snapshot out of those in flight, and no other.
LEMMA FlushEnds ==
  ASSUME AccTypes, NEW x \in Flusher, Flushed(x)
  PROVE  /\ flush' \in [Flusher -> [stage : {"none", "queued", "saved"}, snap : Seq(Finding)]]
         /\ InFlight \subseteq InFlight' \cup ToSet(flush[x].snap)
         /\ flush'[x].stage = "none"
         /\ \A y \in Flusher : y # x => flush'[y] = flush[y]
<1>1. flush' = [flush EXCEPT ![x] = NoFlush]
  BY DEF Flushed
<1>2. NoFlush \in [stage : {"none", "queued", "saved"}, snap : Seq(Finding)]
      /\ NoFlush.stage = "none"
  BY DEF NoFlush
<1>3. \A y \in Flusher : y # x => flush'[y] = flush[y]
  BY <1>1 DEF AccTypes
<1>4. InFlight \subseteq InFlight' \cup ToSet(flush[x].snap)
  BY <1>3, InFlightIs, InFlightIsNext
<1>5. QED
  BY <1>1, <1>2, <1>3, <1>4 DEF AccTypes

\* The buffer after an Add.
LEMMA AddedIs ==
  ASSUME AccTypes, NEW w \in Worker, hand[w].f \in Finding
  PROVE  /\ Added(w) = Append(buf, hand[w].f) /\ Added(w) \in Seq(Finding)
         /\ Len(Added(w)) = Len(buf) + 1
         /\ \A i \in 1 .. Len(buf) : Added(w)[i] = buf[i]
         /\ Added(w)[Len(buf) + 1] = hand[w].f
         /\ Count = pending + 1
BY DEF AccTypes, Added, Count

LEMMA AccMoves ==
  ASSUME WhereInv, PdfInv, AccNext
  PROVE  /\ config.report = "pdf" /\ Elsewhere /\ HandStep /\ UNCHANGED <<up, orphan>>
         /\ \A w \in Worker : flush'[w].stage # "none" => hand'[w].at = "flush"
<1> USE DEF WhereInv
<1>0. \A x \in Worker : x \in Flusher
  BY DEF Flusher
<1>1. ASSUME NEW w \in Worker, AddRefused(w) \/ AddOverCap(w) \/ AddBuffered(w)
      PROVE  /\ config.report = "pdf" /\ Elsewhere /\ HandStep /\ UNCHANGED <<up, orphan>>
             /\ \A v \in Worker : flush'[v].stage # "none" => hand'[v].at = "flush"
  <2>1. hand[w].at = "pdf" /\ (Drop(w) \/ Pass(w)) /\ UNCHANGED flush
    BY <1>1 DEF AddRefused, AddOverCap, AddBuffered, Adding, accVars
  <2>2. UNCHANGED <<config, up, acked, lineVars, orphan>>
    BY <1>1 DEF AddRefused, AddOverCap, AddBuffered, accSame
  <2>3. \A v \in Worker : v # w => hand'[v] = hand[v]
    BY <2>1 DEF Drop, Pass
  <2>4. QED
    BY <2>1, <2>2, <2>3 DEF Elsewhere, HandStep, lineVars
<1>2. ASSUME NEW w \in Worker, AddFlushes(w)
      PROVE  /\ config.report = "pdf" /\ Elsewhere /\ HandStep /\ UNCHANGED <<up, orphan>>
             /\ \A v \in Worker : flush'[v].stage # "none" => hand'[v].at = "flush"
  <2>1. config.report = "pdf" /\ hand[w].at = "pdf" /\ hand' = [hand EXCEPT ![w].at = "flush"]
    BY <1>2 DEF AddFlushes, Adding
  <2>2. UNCHANGED <<config, up, acked, lineVars, orphan>>
    BY <1>2 DEF AddFlushes, accSame
  <2>3. \A v \in Worker : v # w => flush'[v] = flush[v]
    BY <1>2, <2>1, <1>0, AddedIs, SnapshotTaken DEF AddFlushes, PdfInv
  <2>4. QED
    BY <2>1, <2>2, <2>3 DEF Elsewhere, HandStep, lineVars
<1>3. ASSUME TickFlush \/ Finalize \/ Close
      PROVE  /\ config.report = "pdf" /\ Elsewhere /\ HandStep /\ UNCHANGED <<up, orphan>>
             /\ \A v \in Worker : flush'[v].stage # "none" => hand'[v].at = "flush"
  <2>1. config.report = "pdf" /\ UNCHANGED hand
    BY <1>3 DEF TickFlush, Finalize, Close, Pdf
  <2>2. UNCHANGED <<config, up, acked, ndjson, adrift, orphan>> /\ handle' \in {handle, "none"}
    BY <1>3 DEF TickFlush, Finalize, Close, accSame, lineVars, CloseLines
  <2>3. UNCHANGED flush \/ \E x \in {"ticker", "terminal", "closer"} : Snapshot(x, buf)
    BY <1>3 DEF TickFlush, Finalize, Close
  <2>4. \A x \in {"ticker", "terminal", "closer"} : x \in Flusher /\ x \notin Worker
    BY AccAssumption DEF Flusher
  <2>5. \A v \in Worker : flush'[v] = flush[v]
    BY <2>1, <2>3, <2>4, <1>0, SnapshotTaken DEF PdfInv, AccTypes
  <2>6. QED
    BY <2>1, <2>2, <2>5 DEF Elsewhere, HandStep
<1>4. ASSUME NEW x \in Flusher, Render(x)
      PROVE  /\ config.report = "pdf" /\ Elsewhere /\ HandStep /\ UNCHANGED <<up, orphan>>
             /\ \A v \in Worker : flush'[v].stage # "none" => hand'[v].at = "flush"
  <2>1. config.report = "pdf" /\ UNCHANGED <<hand, config, up, acked, lineVars, orphan>>
    BY <1>4 DEF Render, accSame
  <2>2. flush \in [Flusher -> [stage : {"none", "queued", "saved"}, snap : Seq(Finding)]]
    BY <2>1 DEF PdfInv, AccTypes
  <2>3. \A v \in Worker : flush'[v].stage # "none" => flush[v].stage # "none"
    BY <1>4, <1>0, <2>2 DEF Render
  <2>4. QED
    BY <2>1, <2>3 DEF Elsewhere, HandStep, lineVars
<1>5. ASSUME NEW x \in Flusher, FlushFails(x) \/ Rename(x)
      PROVE  /\ config.report = "pdf" /\ Elsewhere /\ HandStep /\ UNCHANGED <<up, orphan>>
             /\ \A v \in Worker : flush'[v].stage # "none" => hand'[v].at = "flush"
  <2>1. config.report = "pdf" /\ flush[x].stage # "none" /\ Flushed(x)
    BY <1>5 DEF FlushFails, Rename
  <2>2. UNCHANGED <<config, up, acked, lineVars, orphan>>
    BY <1>5 DEF FlushFails, Rename, accSame
  <2>3. IF x \in Worker THEN Drop(x) \/ Pass(x) ELSE UNCHANGED hand
    BY <1>5 DEF FlushFails, Rename
  <2>4. x \in Worker => hand[x].at = "flush"
    BY <2>1
  <2>5. flush'[x].stage = "none" /\ \A y \in Flusher : y # x => flush'[y] = flush[y]
    BY <2>1, FlushEnds DEF PdfInv
  <2>6. \A v \in Worker : v # x => hand'[v] = hand[v]
    BY <2>3 DEF Drop, Pass
  <2>7. QED
    BY <2>1, <2>2, <2>3, <2>4, <2>5, <2>6, <1>0 DEF Elsewhere, HandStep, lineVars
<1>6. QED
  BY <1>1, <1>2, <1>3, <1>4, <1>5 DEF AccNext

\* An Add puts one row behind the others.
LEMMA BufferGrows ==
  ASSUME AccTypes, NEW w \in Worker, hand[w].f \in Finding, buf' = Added(w)
  PROVE  /\ CapRows \subseteq CapRows'
         /\ CapRows' \subseteq CapRows \cup {hand[w].f}
         /\ Len(Added(w)) > MaxPerScan => CapRows' = CapRows
         /\ Len(Added(w)) <= MaxPerScan => hand[w].f \in CapRows'
         /\ CapRows' \subseteq ToSet(Added(w))
         /\ hand[w].f \in ToSet(Added(w))
<1> DEFINE n == Len(buf)
<1>1. n \in Nat /\ DOMAIN buf = 1 .. n /\ MaxPerScan \in Nat
  BY DirAssumption DEF AccTypes
<1>2. DOMAIN buf' = 1 .. (n + 1) /\ Len(Added(w)) = n + 1
  BY AddedIs
<1>3. \A i \in 1 .. n : buf'[i] = buf[i]
  BY AddedIs
<1>4. buf'[n + 1] = hand[w].f
  BY AddedIs
<1>5. CapRows = {buf[i] : i \in {j \in 1 .. n : j <= MaxPerScan}}
  BY <1>1 DEF CapRows
<1>6. CapRows' = {buf'[i] : i \in {j \in 1 .. (n + 1) : j <= MaxPerScan}}
  BY <1>2 DEF CapRows
<1>7. ToSet(Added(w)) = {buf'[i] : i \in 1 .. (n + 1)}
  BY <1>2 DEF ToSet
<1>8. QED
  <2> HIDE DEF n
  <2>1. CapRows \subseteq CapRows'
    BY <1>1, <1>3, <1>5, <1>6
  <2>2. CapRows' \subseteq CapRows \cup {hand[w].f}
    BY <1>1, <1>3, <1>4, <1>5, <1>6
  <2>3. n + 1 > MaxPerScan => CapRows' \subseteq CapRows
    BY <1>1, <1>3, <1>5, <1>6
  <2>4. n + 1 <= MaxPerScan => hand[w].f \in CapRows'
    BY <1>1, <1>4, <1>6
  <2>5. CapRows' \subseteq ToSet(Added(w)) /\ hand[w].f \in ToSet(Added(w))
    BY <1>1, <1>4, <1>6, <1>7
  <2>6. QED
    BY <1>2, <2>1, <2>2, <2>3, <2>4, <2>5

\* The rows within the cap are rows.
LEMMA CapIsPart == CapRows \subseteq ToSet(buf)
BY DEF CapRows, ToSet

LEMMA AccKeeps ==
  ASSUME WhereInv, PdfInv, AccNext
  PROVE  PdfInv'
<1>1. /\ config.report = "pdf" /\ UNCHANGED <<config, acked>>
      /\ AccTypes /\ acked \subseteq Settled \cup CapRows
      /\ \A w \in Worker :
           /\ hand[w].at = "ack" => hand[w].f \in Settled \cup CapRows
           /\ hand[w].at = "flush" => hand[w].f \in ToSet(flush[w].snap)
           /\ hand[w].at # "idle" => hand[w].f \in Finding
           /\ flush[w].stage # "none" => hand[w].at = "flush"
      /\ pending = 0 => CapRows \subseteq Settled
      /\ hand \in [Worker -> [f : Finding \cup {NoFinding}, at : Place]]
  BY AccMoves DEF PdfInv, WhereInv, Elsewhere
<1>2. \A x \in Worker : x \in Flusher
  BY DEF Flusher
<1>4. ASSUME NEW w \in Worker, AddRefused(w) PROVE PdfInv'
  <2>1. hand[w].at = "pdf" /\ Drop(w) /\ UNCHANGED <<report, accVars>>
    BY <1>4 DEF AddRefused
  <2>2. AccTypes' /\ Settled' = Settled /\ CapRows' = CapRows
    BY <1>1, <2>1 DEF accVars, bufVars, AccTypes, Settled, CapRows, ReportRows, InFlight
  <2>3. \A v \in Worker : hand'[v].at # "idle" => hand'[v] = hand[v]
    BY <1>1, <2>1 DEF Drop, Idle
  <2>4. QED
    BY <1>1, <2>1, <2>2, <2>3 DEF PdfInv, accVars, bufVars
<1>5. ASSUME NEW w \in Worker, AddOverCap(w) \/ AddBuffered(w) PROVE PdfInv'
  <2>1. /\ hand[w].at = "pdf" /\ known' = TRUE /\ buf' = Added(w)
        /\ UNCHANGED <<report, flush, dropped>>
    BY <1>5 DEF AddOverCap, AddBuffered, Adding
  <2>2. hand[w].f \in Finding
    BY <1>1, <2>1
  <2>3. Settled' = Settled /\ CapRows \subseteq CapRows'
    BY <1>1, <2>1, <2>2, BufferGrows DEF Settled, ReportRows, InFlight
  <2>4. AccTypes'
    BY <1>1, <1>5, <2>1, <2>2, AddedIs DEF AccTypes, AddOverCap, AddBuffered
  <2>5. \A v \in Worker : v # w => hand'[v] = hand[v]
    BY <1>1, <1>5 DEF AddOverCap, AddBuffered, Drop, Pass
  <2>6. CASE AddOverCap(w)
    <3>1. CapRows' = CapRows /\ pending' = pending
      BY <1>1, <2>1, <2>2, <2>6, BufferGrows, AddedIs DEF AddOverCap, AccTypes
    <3>2. hand'[w] = Idle
      BY <1>1, <2>6 DEF AddOverCap, Drop
    <3>3. QED
      BY <1>1, <2>1, <2>3, <2>4, <2>5, <3>1, <3>2 DEF PdfInv, Idle
  <2>7. CASE AddBuffered(w)
    <3>1. hand[w].f \in CapRows' /\ pending' # 0
      BY <1>1, <2>1, <2>2, <2>7, BufferGrows, AddedIs DEF AddBuffered, AccTypes
    <3>2. hand'[w].f = hand[w].f /\ hand'[w].at = "ack"
      BY <1>1, <2>7 DEF AddBuffered, Pass
    <3>3. QED
      BY <1>1, <2>1, <2>3, <2>4, <2>5, <3>1, <3>2 DEF PdfInv
  <2>8. QED
    BY <1>5, <2>6, <2>7
<1>6. ASSUME NEW w \in Worker, AddFlushes(w) PROVE PdfInv'
  <2>1. /\ hand[w].at = "pdf" /\ known' = TRUE /\ buf' = Added(w) /\ pending' = 0
        /\ hand' = [hand EXCEPT ![w].at = "flush"]
        /\ Snapshot(w, Added(w)) /\ UNCHANGED <<report, dropped>>
    BY <1>6 DEF AddFlushes, Adding
  <2>2. hand[w].f \in Finding
    BY <1>1, <2>1
  <2>3. /\ flush' \in [Flusher -> [stage : {"none", "queued", "saved"}, snap : Seq(Finding)]]
        /\ InFlight \cup ToSet(Added(w)) \subseteq InFlight'
        /\ flush'[w].snap = Added(w)
        /\ \A y \in Flusher : y # w => flush'[y] = flush[y]
    BY <1>1, <1>2, <2>1, <2>2, AddedIs, SnapshotTaken
  <2>4. Settled \subseteq Settled' /\ ToSet(Added(w)) \subseteq Settled'
    BY <2>1, <2>3 DEF Settled, ReportRows
  <2>5. CapRows \subseteq CapRows' /\ CapRows' \subseteq ToSet(Added(w))
        /\ hand[w].f \in ToSet(Added(w))
    BY <1>1, <2>1, <2>2, BufferGrows
  <2>6. AccTypes'
    BY <1>1, <2>1, <2>2, <2>3, AddedIs DEF AccTypes
  <2>7. /\ \A v \in Worker : v # w => hand'[v] = hand[v]
        /\ hand'[w].at = "flush" /\ hand'[w].f = hand[w].f
    BY <1>1, <2>1
  <2>8. QED
    BY <1>1, <1>2, <2>1, <2>3, <2>4, <2>5, <2>6, <2>7 DEF PdfInv
<1>7. ASSUME TickFlush \/ Finalize \/ Close PROVE PdfInv'
  <2>1. UNCHANGED <<hand, report, dropped>>
    BY <1>7 DEF TickFlush, Finalize, Close
  <2>2. \A x \in {"ticker", "terminal", "closer"} : x \in Flusher /\ x \notin Worker
    BY AccAssumption DEF Flusher
  <2>3. \/ UNCHANGED flush
        \/ \E x \in {"ticker", "terminal", "closer"} : Snapshot(x, buf)
    BY <1>7 DEF TickFlush, Finalize, Close
  <2>4. /\ flush' \in [Flusher -> [stage : {"none", "queued", "saved"}, snap : Seq(Finding)]]
        /\ InFlight \subseteq InFlight'
        /\ \A v \in Worker : flush'[v] = flush[v]
    <3>1. CASE UNCHANGED flush
      BY <1>1, <3>1, InFlightIs, InFlightIsNext DEF AccTypes
    <3>2. ASSUME NEW x \in {"ticker", "terminal", "closer"}, Snapshot(x, buf)
          PROVE  /\ flush' \in [Flusher -> [stage : {"none", "queued", "saved"}, snap : Seq(Finding)]]
                 /\ InFlight \subseteq InFlight'
                 /\ \A v \in Worker : flush'[v] = flush[v]
      <4>1. buf \in Seq(Finding) /\ x \in Flusher /\ x \notin Worker
        BY <1>1, <2>2 DEF AccTypes
      <4>2. /\ flush' \in [Flusher -> [stage : {"none", "queued", "saved"}, snap : Seq(Finding)]]
            /\ InFlight \cup ToSet(buf) \subseteq InFlight'
            /\ \A y \in Flusher : y # x => flush'[y] = flush[y]
        BY <1>1, <3>2, <4>1, SnapshotTaken
      <4>3. QED
        BY <1>2, <4>1, <4>2
    <3>3. QED
      BY <2>3, <3>1, <3>2
  <2>5. Settled \subseteq Settled'
    BY <2>1, <2>4 DEF Settled, ReportRows
  <2>6. ASSUME TickFlush \/ (Finalize /\ pending > 0)
        PROVE  ToSet(buf) \subseteq Settled'
    <3>1. PICK x \in {"ticker", "terminal"} : Snapshot(x, buf)
      BY <2>6 DEF TickFlush, Finalize
    <3>2. buf \in Seq(Finding) /\ x \in Flusher
      BY <1>1, <2>2 DEF AccTypes
    <3>3. ToSet(buf) \subseteq InFlight'
      BY <1>1, <3>1, <3>2, SnapshotTaken
    <3>4. QED
      BY <3>3 DEF Settled
  <2>7. CASE TickFlush
    <3>1. UNCHANGED <<known, buf>> /\ known /\ pending' = 0
      BY <2>7 DEF TickFlush
    <3>2. AccTypes' /\ CapRows' = CapRows
      BY <1>1, <2>1, <2>4, <3>1 DEF AccTypes, CapRows
    <3>3. QED
      BY <1>1, <2>1, <2>4, <2>5, <2>6, <2>7, <3>1, <3>2, CapIsPart DEF PdfInv
  <2>8. CASE Finalize
    <3>1. known' = FALSE /\ buf' = <<>> /\ pending' = 0
      BY <2>8 DEF Finalize
    <3>2. AccTypes'
      <4>1. buf' \in Seq(Finding)
        BY <3>1, EmptySeq
      <4>2. known' \in BOOLEAN /\ pending' \in Nat
        BY <3>1
      <4>3. report' = NoFile \/ report' \in [rows : Seq(Finding)]
        BY <1>1, <2>1 DEF AccTypes
      <4>4. QED
        BY <2>4, <3>1, <4>1, <4>2, <4>3 DEF AccTypes
    <3>3. CapRows' = {}
      <4>1. DOMAIN buf' = {}
        BY <3>1
      <4>2. QED
        BY <4>1 DEF CapRows
    <3>4. CapRows \subseteq Settled'
      BY <1>1, <2>5, <2>6, <2>8, CapIsPart DEF AccTypes
    <3>5. QED
      BY <1>1, <2>1, <2>4, <2>5, <3>2, <3>3, <3>4 DEF PdfInv
  <2>9. CASE Close
    <3>1. UNCHANGED <<known, buf, pending>>
      BY <2>9 DEF Close, bufVars
    <3>2. AccTypes' /\ CapRows' = CapRows
      BY <1>1, <2>1, <2>4, <3>1 DEF AccTypes, CapRows
    <3>3. QED
      BY <1>1, <2>1, <2>4, <2>5, <3>1, <3>2 DEF PdfInv
  <2>10. QED
    BY <1>7, <2>7, <2>8, <2>9
<1>8. ASSUME NEW x \in Flusher, Render(x) PROVE PdfInv'
  <2>1. flush' = [flush EXCEPT ![x].stage = "saved"]
        /\ UNCHANGED <<hand, report, known, buf, pending, dropped>>
    BY <1>8 DEF Render, bufVars
  <2>2. /\ flush' \in [Flusher -> [stage : {"none", "queued", "saved"}, snap : Seq(Finding)]]
        /\ \A y \in Flusher : flush'[y].snap = flush[y].snap
    BY <1>1, <2>1 DEF AccTypes
  <2>3. Settled' = Settled /\ CapRows' = CapRows
    BY <2>1, <2>2, InFlightIs, InFlightIsNext DEF Settled, CapRows, ReportRows
  <2>4. AccTypes'
    BY <1>1, <2>1, <2>2 DEF AccTypes
  <2>5. QED
    BY <1>1, <1>2, <2>1, <2>2, <2>3, <2>4 DEF PdfInv
<1>9. ASSUME NEW x \in Flusher, FlushFails(x) \/ Rename(x) PROVE PdfInv'
  <2>1. flush[x].stage # "none" /\ Flushed(x) /\ UNCHANGED <<known, buf, pending>>
    BY <1>9 DEF FlushFails, Rename, bufVars
  <2>2. /\ flush' \in [Flusher -> [stage : {"none", "queued", "saved"}, snap : Seq(Finding)]]
        /\ InFlight \subseteq InFlight' \cup ToSet(flush[x].snap)
        /\ \A y \in Flusher : y # x => flush'[y] = flush[y]
    BY <1>1, <2>1, FlushEnds
  <2>3. flush[x].snap \in Seq(Finding)
    BY <1>1 DEF AccTypes
  <2>4. Settled \subseteq Settled' /\ ToSet(flush[x].snap) \subseteq Settled'
        /\ (report' = NoFile \/ report' \in [rows : Seq(Finding)])
    <3>1. CASE FlushFails(x)
      BY <1>1, <2>2, <3>1 DEF FlushFails, Settled, ReportRows, AccTypes
    <3>2. CASE Rename(x)
      <4>1. report' = [rows |-> flush[x].snap]
            /\ dropped' = dropped \cup (ToSet(ReportRows) \ ToSet(flush[x].snap))
        BY <3>2 DEF Rename
      <4>2. report' \in [rows : Seq(Finding)] /\ report' # NoFile
        BY <2>3, <4>1, DirAssumption
      <4>3. ReportRows' = flush[x].snap
        BY <4>1, <4>2 DEF ReportRows
      <4>4. QED
        BY <2>2, <4>1, <4>2, <4>3 DEF Settled
    <3>3. QED
      BY <1>9, <3>1, <3>2
  <2>5. CapRows' = CapRows
    BY <2>1 DEF CapRows
  <2>6. AccTypes'
    BY <1>1, <2>1, <2>2, <2>4 DEF AccTypes
  <2>7. IF x \in Worker THEN Drop(x) \/ Pass(x) ELSE UNCHANGED hand
    BY <1>9 DEF FlushFails, Rename
  <2>8. x \in Worker => hand[x].at = "flush" /\ hand[x].f \in ToSet(flush[x].snap)
    BY <1>1, <2>1
  <2>9. \A v \in Worker : v # x => hand'[v] = hand[v]
    BY <1>1, <2>7 DEF Drop, Pass
  <2>10. x \in Worker => /\ hand'[x].at # "flush"
                         /\ hand'[x].at = "ack" => hand'[x].f \in ToSet(flush[x].snap)
    BY <1>1, <2>7, <2>8 DEF Drop, Pass, Idle
  <2>11. QED
    BY <1>1, <1>2, <2>1, <2>2, <2>4, <2>5, <2>6, <2>9, <2>10 DEF PdfInv
<1>10. QED
  BY <1>4, <1>5, <1>6, <1>7, <1>8, <1>9 DEF AccNext

-----------------------------------------------------------------------------
(* The NDJSON file.                                                        *)

\* A token appended to the file leaves every line as it was; a finding is on disk once it
\* is appended, whatever precedes it.
LEMMA TokenAppended ==
  ASSUME LineInv, NEW t \in Finding \cup {Torn}, AppendToken(t), UNCHANGED expired
  PROVE  /\ ndjson' = NoFile \/ ndjson' \in Seq(Finding \cup {Torn})
         /\ \A f \in Finding : OnDisk(f) => OnDisk(f)'
         /\ t \in Finding => OnDisk(t)'
         /\ handle' = "unlinked" => handle = "unlinked"
         /\ adrift' # adrift => handle = "unlinked"
<1>1. CASE handle = "unlinked"
  <2>1. /\ adrift' = adrift \cup ({t} \cap Finding) /\ UNCHANGED <<ndjson, handle>>
    BY <1>1 DEF AppendToken
  <2>2. Legible' = Legible
    BY <2>1 DEF Legible, Decodable
  <2>3. QED
    BY <1>1, <2>1, <2>2 DEF LineInv, OnDisk, ToSet
<1>2. CASE handle # "unlinked"
  <2> DEFINE old == Opened
             n   == Len(old)
  <2>1. ndjson' = Append(old, t) /\ handle' = "linked" /\ UNCHANGED adrift
    BY <1>2 DEF AppendToken
  <2>2. old \in Seq(Finding \cup {Torn})
    BY EmptySeq DEF LineInv, Opened
  <2>3. n \in Nat /\ DOMAIN old = 1 .. n
    BY <2>2
  <2>4. /\ ndjson' \in Seq(Finding \cup {Torn}) /\ DOMAIN ndjson' = 1 .. (n + 1)
        /\ \A i \in 1 .. n : ndjson'[i] = old[i]
        /\ ndjson'[n + 1] = t
    BY <2>1, <2>2
  <2>5. ndjson' # NoFile
    BY <2>4, DirAssumption
  <2>6. ndjson # NoFile => ndjson = old
    BY DEF Opened
  <2> HIDE DEF old, n
  <2>7. Legible' = {ndjson'[i] : i \in {j \in 1 .. (n + 1) :
                      ndjson'[j] # Torn /\ (j = 1 \/ ndjson'[j - 1] # Torn)}}
    BY <2>4, <2>5 DEF Legible, Decodable
  <2>8. ToSet(ndjson') = {ndjson'[i] : i \in 1 .. (n + 1)}
    BY <2>4 DEF ToSet
  <2>9. ASSUME NEW f \in Legible PROVE f \in Legible'
    <3>1. ndjson # NoFile
      BY <2>9 DEF Legible
    <3>2. PICK i \in 1 .. n : f = old[i] /\ old[i] # Torn /\ (i = 1 \/ old[i - 1] # Torn)
      BY <2>3, <2>6, <2>9, <3>1 DEF Legible, Decodable
    <3>3. i \in 1 .. (n + 1) /\ ndjson'[i] = f /\ (i = 1 \/ ndjson'[i - 1] # Torn)
      BY <2>3, <2>4, <3>2
    <3>4. QED
      BY <2>7, <3>2, <3>3
  <2>10. ndjson # NoFile => ToSet(ndjson) \subseteq ToSet(ndjson')
    BY <2>3, <2>4, <2>6, <2>8 DEF ToSet
  <2>11. \A f \in Finding : OnDisk(f) => OnDisk(f)'
    BY <2>1, <2>5, <2>9, <2>10 DEF OnDisk
  <2>12. ASSUME t \in Finding PROVE OnDisk(t)'
    <3>1. t # Torn
      BY <2>12, DirAssumption
    <3>2. CASE n = 0 \/ old[n] # Torn
      <4>1. n + 1 \in 1 .. (n + 1) /\ (n + 1) - 1 = n /\ (n # 0 => n \in 1 .. n)
        BY <2>3
      <4>2. n + 1 = 1 \/ ndjson'[(n + 1) - 1] # Torn
        BY <2>3, <2>4, <3>2, <4>1
      <4>3. t \in Legible'
        BY <2>4, <2>7, <3>1, <4>1, <4>2
      <4>4. QED
        BY <4>3 DEF OnDisk
    <3>3. CASE n # 0 /\ old[n] = Torn
      BY <2>3, <2>4, <2>5, <2>8, <3>3 DEF OnDisk
    <3>4. QED
      BY <3>2, <3>3
  <2>13. QED
    BY <1>2, <2>1, <2>4, <2>11, <2>12
<1>3. QED
  BY <1>1, <1>2

\* A file that is removed takes its findings with it.
LEMMA Unlinked ==
  ASSUME LineInv, NEW x, Unlink(x), config.retention
  PROVE  /\ ndjson' = NoFile \/ ndjson' \in Seq(Finding \cup {Torn})
         /\ \A f \in Finding : OnDisk(f) => OnDisk(f)'
<1>1. CASE x = "ndjson"
  <2>1. /\ ndjson' = NoFile /\ expired' = expired \cup (ToSet(ndjson) \cap Finding)
        /\ UNCHANGED adrift
    BY <1>1 DEF Unlink
  <2>2. Legible \subseteq ToSet(ndjson)
    BY DEF Legible, ToSet
  <2>3. QED
    BY <2>1, <2>2 DEF OnDisk
<1>2. CASE x # "ndjson"
  <2>1. UNCHANGED <<ndjson, adrift, expired>>
    BY <1>2 DEF Unlink, lineVars
  <2>2. QED
    BY <2>1 DEF LineInv, OnDisk, Legible, Decodable, ToSet
<1>3. QED
  BY <1>1, <1>2

\* Steps beside the file and the sweep keep LineInv when no hand takes a new finding.
LEMMA LineAside ==
  ASSUME LineInv, Elsewhere, UNCHANGED expired, sweep' = sweep \/ sweep' = NoSweep,
         \A w \in Worker : hand'[w].at # "idle" => hand[w].at # "idle" /\ hand'[w].f = hand[w].f
  PROVE  LineInv'
<1>1. UNCHANGED <<config, acked, ndjson, adrift, expired>> /\ handle' \in {handle, "none"}
  BY DEF Elsewhere
<1>2. \A f : OnDisk(f)' <=> OnDisk(f)
  BY <1>1 DEF OnDisk, Legible, Decodable, ToSet
<1>3. NoSweep.stage = "none"
  BY DEF NoSweep
<1>4. QED
  BY <1>1, <1>2, <1>3 DEF LineInv

-----------------------------------------------------------------------------
(* The steps, kind by kind.                                                *)

\* Nothing but the line sink gives a hand a finding.
LEMMA WhereKeeps ==
  ASSUME WhereInv, HandStep, UNCHANGED config,
         \A w \in Worker : flush'[w].stage # "none" => hand'[w].at = "flush",
         UNCHANGED flush \/ config.report = "pdf" \/ flush' = [x \in Flusher |-> NoFlush],
         UNCHANGED doc \/ Streaming \/ doc' = NoDocument
  PROVE  WhereInv'
<1>1. /\ hand' \in [Worker -> [f : Finding \cup {NoFinding}, at : Place]]
      /\ \A w \in Worker :
           /\ hand'[w].at # "idle" => hand[w].at # "idle" /\ hand'[w].f = hand[w].f
           /\ hand'[w].at \in {"idle", "ack", "flush", config.report}
           /\ hand'[w].at = "flush" => config.report = "pdf"
  BY HandStepTypes
<1>2. \A x \in Flusher : flush'[x].stage # "none" => config.report = "pdf"
  BY DEF WhereInv, NoFlush
<1>3. doc' = NoDocument \/ Streaming'
  BY DEF WhereInv, Streaming
<1>4. NoDocument' = NoDocument
  BY DEF NoDocument
<1>5. QED
  BY <1>1, <1>2, <1>3 DEF WhereInv

\* The steps of the NDJSON file.
LEMMA LineStepKeeps == DirInv /\ LineNext => DirInv'
<1> SUFFICES ASSUME DirInv, LineNext PROVE DirInv'
  OBVIOUS
<1>1. /\ WhereInv /\ LineInv /\ RowsInv /\ PdfInv /\ OrphanInv
      /\ UNCHANGED <<procVars, report, orphan, streamVars, accVars, retVars, fileVars>>
  BY DEF DirInv, LineNext, AppendLine, AppendFails, AckFinding, Evict
<1>2. UNCHANGED <<config, up, doc, flush, known, buf, pending, dropped, expired, sweep, sqlite>>
  BY <1>1 DEF procVars, streamVars, accVars, bufVars, retVars, fileVars
<1>3. OrphanInv'
  BY <1>1, <1>2 DEF OrphanInv, OrphansAreSwept, Streaming
<1>4. Settled' = Settled /\ CapRows' = CapRows /\ (AccTypes => AccTypes')
  BY <1>1, <1>2 DEF Settled, CapRows, ReportRows, InFlight, AccTypes, ToSet
<1>5. ASSUME NEW w \in Worker, NEW f \in Finding, AppendLine(w, f) PROVE DirInv'
  <2>1. /\ hand[w] = Idle /\ AppendToken(f) /\ UNCHANGED acked
        /\ hand' = [hand EXCEPT ![w] = [f |-> f, at |-> NextSink]]
    BY <1>5 DEF AppendLine, Deliver
  <2>2. NextSink \in Place \ {"idle", "flush"} /\ NextSink \in {"ack", config.report}
        /\ (NextSink = "ack" => config.report = "none")
    BY <1>1 DEF NextSink, WhereInv, Format, Place
  <2>3. /\ hand' \in [Worker -> [f : Finding \cup {NoFinding}, at : Place]]
        /\ hand'[w].f = f /\ hand'[w].at = NextSink
        /\ \A v \in Worker : v # w => hand'[v] = hand[v]
    BY <1>1, <2>1, <2>2 DEF WhereInv
  <2>4. flush[w].stage = "none"
    BY <1>1, <2>1 DEF WhereInv, Idle
  <2>5. WhereInv'
    BY <1>1, <1>2, <2>2, <2>3, <2>4 DEF WhereInv, Streaming, NoDocument
  <2>6. LineInv'
    <3>1. /\ ndjson' = NoFile \/ ndjson' \in Seq(Finding \cup {Torn})
          /\ \A g \in Finding : OnDisk(g) => OnDisk(g)'
          /\ OnDisk(f)'
          /\ handle' = "unlinked" => handle = "unlinked"
          /\ adrift' # adrift => handle = "unlinked"
      BY <1>1, <1>2, <2>1, TokenAppended
    <3>2. \A v \in Worker : hand'[v].at # "idle" => OnDisk(hand[v].f)'
      BY <1>1, <2>3, <3>1 DEF LineInv, WhereInv, OnDisk
    <3>3. QED
      BY <1>1, <1>2, <2>1, <3>1, <3>2 DEF LineInv, OnDisk
  <2>7. RowsInv'
    BY <1>1, <1>2, <2>1, <2>2, <2>3 DEF RowsInv
  <2>8. PdfInv'
    BY <1>1, <1>2, <1>4, <2>1, <2>2, <2>3 DEF PdfInv
  <2>9. QED
    BY <1>3, <2>5, <2>6, <2>7, <2>8 DEF DirInv
<1>6. ASSUME NEW w \in Worker, NEW f \in Finding, AppendFails(w, f) PROVE DirInv'
  <2>1. UNCHANGED <<hand, acked>> /\ (UNCHANGED lineVars \/ AppendToken(Torn))
    BY <1>6 DEF AppendFails
  <2>2. WhereInv' /\ RowsInv' /\ PdfInv'
    BY <1>1, <1>2, <1>4, <2>1 DEF WhereInv, RowsInv, PdfInv, Streaming
  <2>3. CASE UNCHANGED lineVars
    <3>1. Elsewhere
      BY <1>2, <2>1, <2>3 DEF Elsewhere, lineVars
    <3>2. QED
      BY <1>1, <1>2, <1>3, <2>1, <2>2, <3>1, LineAside DEF DirInv
  <2>4. CASE AppendToken(Torn)
    <3>1. /\ ndjson' = NoFile \/ ndjson' \in Seq(Finding \cup {Torn})
          /\ \A g \in Finding : OnDisk(g) => OnDisk(g)'
          /\ handle' = "unlinked" => handle = "unlinked"
          /\ adrift' # adrift => handle = "unlinked"
      BY <1>1, <1>2, <2>4, TokenAppended
    <3>2. LineInv'
      BY <1>1, <1>2, <2>1, <3>1 DEF LineInv, WhereInv
    <3>3. QED
      BY <1>3, <2>2, <3>2 DEF DirInv
  <2>5. QED
    BY <2>1, <2>3, <2>4
<1>7. ASSUME NEW w \in Worker, AckFinding(w) PROVE DirInv'
  <2>1. /\ hand[w].at = "ack" /\ acked' = acked \cup {hand[w].f}
        /\ hand' = [hand EXCEPT ![w] = Idle] /\ UNCHANGED lineVars
    BY <1>7 DEF AckFinding
  <2>2. HandStep
    BY <2>1 DEF HandStep, Drop
  <2>3. /\ \A v \in Worker : hand'[v].at # "idle" => hand'[v] = hand[v]
        /\ hand[w].f \in Finding
        /\ \A v \in Worker : flush[v].stage # "none" => hand'[v] = hand[v]
    BY <1>1, <2>1 DEF Idle, WhereInv
  <2>4. WhereInv'
    BY <1>1, <1>2, <2>2, <2>3, WhereKeeps DEF WhereInv
  <2>5. \A f : OnDisk(f)' <=> OnDisk(f)
    BY <1>2, <2>1 DEF OnDisk, Legible, Decodable, ToSet, lineVars
  <2>6. LineInv'
    BY <1>1, <1>2, <2>1, <2>3, <2>5 DEF LineInv, lineVars
  <2>7. RowsInv' /\ PdfInv'
    BY <1>1, <1>2, <1>4, <2>1, <2>3 DEF RowsInv, PdfInv
  <2>8. QED
    BY <1>3, <2>4, <2>6, <2>7 DEF DirInv
<1>8. CASE Evict
  <2>1. UNCHANGED <<hand, acked, ndjson, adrift>> /\ handle' = "none"
    BY <1>8 DEF Evict
  <2>2. WhereInv' /\ RowsInv' /\ PdfInv'
    BY <1>1, <1>2, <1>4, <2>1 DEF WhereInv, RowsInv, PdfInv, Streaming
  <2>3. QED
    BY <1>1, <1>2, <1>3, <2>1, <2>2, LineAside DEF DirInv, Elsewhere
<1>9. QED
  BY <1>5, <1>6, <1>7, <1>8 DEF LineNext

\* The streaming sinks have neither rows in a database nor a buffer.
LEMMA StreamStepKeeps ==
  DirInv /\ StreamNext /\ UNCHANGED <<accVars, retVars, fileVars>> => DirInv'
<1> SUFFICES ASSUME DirInv, StreamNext, UNCHANGED <<accVars, retVars, fileVars>> PROVE DirInv'
  OBVIOUS
<1>1. /\ WhereInv /\ LineInv /\ OrphanInv
      /\ UNCHANGED <<flush, expired, sweep>>
  BY DEF DirInv, accVars, retVars
<1>2. /\ Streaming /\ Elsewhere /\ HandStep /\ UNCHANGED <<config, up, orphan>>
      /\ \A w \in Worker : hand[w].at # "flush"
  BY <1>1, StreamMoves DEF Elsewhere
<1>3. \A w \in Worker : flush[w].stage = "none"
  BY <1>1, <1>2 DEF WhereInv
<1>4. WhereInv'
  BY <1>1, <1>2, <1>3, WhereKeeps
<1>5. LineInv'
  BY <1>1, <1>2, HandStepTypes, LineAside
<1>6. RowsInv' /\ PdfInv'
  BY <1>2 DEF RowsInv, PdfInv, Streaming
<1>7. OrphanInv'
  BY <1>1, <1>2 DEF OrphanInv, OrphansAreSwept, Streaming
<1>8. QED
  BY <1>4, <1>5, <1>6, <1>7 DEF DirInv

\* The steps of the accumulator.
LEMMA AccStepKeeps ==
  DirInv /\ AccNext /\ UNCHANGED <<streamVars, retVars, fileVars>> => DirInv'
<1> SUFFICES ASSUME DirInv, AccNext, UNCHANGED <<streamVars, retVars, fileVars>> PROVE DirInv'
  OBVIOUS
<1>1. /\ WhereInv /\ LineInv /\ PdfInv /\ OrphanInv
      /\ UNCHANGED <<doc, expired, sweep>>
  BY DEF DirInv, streamVars, retVars
<1>2. /\ config.report = "pdf" /\ Elsewhere /\ HandStep /\ UNCHANGED <<config, up, orphan>>
      /\ \A w \in Worker : flush'[w].stage # "none" => hand'[w].at = "flush"
  BY <1>1, AccMoves DEF Elsewhere
<1>3. WhereInv' /\ LineInv' /\ PdfInv'
  BY <1>1, <1>2, WhereKeeps, HandStepTypes, LineAside, AccKeeps
<1>4. RowsInv' /\ OrphanInv'
  BY <1>1, <1>2 DEF RowsInv, OrphanInv, OrphansAreSwept
<1>5. QED
  BY <1>3, <1>4 DEF DirInv

\* Hands, reports and buffer left alone, only the files and the sweep matter.
LEMMA HandsAside ==
  ASSUME DirInv, UNCHANGED <<config, hand, acked, report, sqlite>>,
         UNCHANGED accVars, UNCHANGED doc \/ Streaming
  PROVE  WhereInv' /\ RowsInv' /\ PdfInv'
<1>1. UNCHANGED <<flush, known, buf, pending, dropped>>
  BY DEF accVars, bufVars
<1>2. WhereInv'
  BY <1>1 DEF DirInv, WhereInv, Streaming
<1>3. Settled' = Settled /\ CapRows' = CapRows /\ (AccTypes => AccTypes')
  BY <1>1 DEF Settled, CapRows, ReportRows, InFlight, AccTypes, ToSet
<1>4. QED
  BY <1>1, <1>2, <1>3 DEF DirInv, RowsInv, PdfInv

\* Only a sweep that retention started removes files.
LEMMA RetentionKeeps ==
  DirInv /\ RetentionNext /\ UNCHANGED <<streamVars, accVars, fileVars>> => DirInv'
<1> SUFFICES ASSUME DirInv, RetentionNext, UNCHANGED <<streamVars, accVars, fileVars>> PROVE DirInv'
  OBVIOUS
<1>1. LineInv /\ OrphanInv
  BY DEF DirInv
<1>2. UNCHANGED <<config, up, hand, acked, report, orphan, accVars, doc, sqlite>>
  BY DEF RetentionNext, RetentionList, AgePass, AgeDone, SizePass, SizeDone, SweepLogged,
         retSame, procVars, streamVars, fileVars
<1>3. WhereInv' /\ RowsInv' /\ PdfInv' /\ OrphanInv'
  BY <1>1, <1>2, HandsAside DEF OrphanInv, OrphansAreSwept, Streaming
<1>4. config.retention
  BY <1>1 DEF LineInv, RetentionNext, RetentionList, AgePass, AgeDone, SizePass, SizeDone,
              SweepLogged
<1>5. UNCHANGED <<lineVars, expired>> \/ \E x : Unlink(x)
  BY DEF RetentionNext, RetentionList, AgePass, AgeDone, SizePass, SizeDone, SweepLogged
<1>6. /\ ndjson' = NoFile \/ ndjson' \in Seq(Finding \cup {Torn})
      /\ \A f \in Finding : OnDisk(f) => OnDisk(f)'
  <2>1. CASE UNCHANGED <<lineVars, expired>>
    BY <1>1, <2>1 DEF LineInv, OnDisk, Legible, Decodable, ToSet, lineVars
  <2>2. CASE \E x : Unlink(x)
    BY <1>1, <1>4, <2>2, Unlinked
  <2>3. QED
    BY <1>5, <2>1, <2>2
<1>7. WhereInv
  BY DEF DirInv
<1>8. LineInv'
  BY <1>1, <1>2, <1>4, <1>6, <1>7 DEF LineInv, OnDisk, WhereInv
<1>9. QED
  BY <1>3, <1>8 DEF DirInv

\* INSERT OR IGNORE adds a row, or finds it there.
LEMMA RowInserted ==
  ASSUME sqlite \in Seq(Finding), IsInjective(sqlite), NEW f \in Finding
  PROVE  /\ Inserted(f) \in Seq(Finding) /\ IsInjective(Inserted(f))
         /\ ToSet(sqlite) \cup {f} \subseteq ToSet(Inserted(f))
<1>1. CASE f \in ToSet(sqlite)
  BY <1>1 DEF Inserted
<1>2. CASE f \notin ToSet(sqlite)
  <2> DEFINE s == Append(sqlite, f)
             n == Len(sqlite)
  <2>1. n \in Nat /\ DOMAIN sqlite = 1 .. n
    OBVIOUS
  <2>2. /\ s \in Seq(Finding) /\ DOMAIN s = 1 .. (n + 1) /\ s[n + 1] = f
        /\ \A i \in 1 .. n : s[i] = sqlite[i]
    OBVIOUS
  <2>3. \A i \in 1 .. n : sqlite[i] # f
    BY <1>2, <2>1 DEF ToSet
  <2>4. Inserted(f) = s
    BY <1>2 DEF Inserted
  <2> HIDE DEF s, n
  <2>5. IsInjective(s)
    <3> SUFFICES ASSUME NEW a \in 1 .. (n + 1), NEW b \in 1 .. (n + 1), s[a] = s[b]
                 PROVE  a = b
      BY <2>2 DEF IsInjective
    <3>1. CASE a \in 1 .. n /\ b \in 1 .. n
      BY <2>1, <2>2, <3>1 DEF IsInjective
    <3>2. CASE a \notin 1 .. n \/ b \notin 1 .. n
      BY <2>1, <2>2, <2>3, <3>2
    <3>3. QED
      BY <3>1, <3>2
  <2>6. ToSet(sqlite) \cup {f} \subseteq ToSet(s)
    BY <2>1, <2>2 DEF ToSet
  <2>7. QED
    BY <2>2, <2>4, <2>5, <2>6
<1>3. QED
  BY <1>1, <1>2

\* The steps of the database.
LEMMA SqliteKeeps ==
  ASSUME DirInv, NEW w \in Worker, SqliteWrite(w) \/ SqliteFails(w)
  PROVE  DirInv'
<1>1. /\ WhereInv /\ LineInv /\ RowsInv /\ OrphanInv
  BY DEF DirInv
<1>2. /\ hand[w].at = "sqlite" /\ config.report = "sqlite" /\ hand[w].f \in Finding
      /\ Pass(w) \/ Drop(w)
      /\ UNCHANGED <<config, up, acked, lineVars, orphan, doc, flush, expired, sweep>>
  BY <1>1 DEF SqliteWrite, SqliteFails, Inserting, WhereInv, sinkSame, procVars, streamVars,
              accVars, retVars
<1>3. HandStep /\ Elsewhere
  BY <1>2 DEF HandStep, Elsewhere, lineVars
<1>4. \A v \in Worker : flush[v].stage = "none"
  BY <1>1, <1>2 DEF WhereInv
<1>5. WhereInv' /\ LineInv'
  BY <1>1, <1>2, <1>3, <1>4, WhereKeeps, HandStepTypes, LineAside
<1>6. PdfInv' /\ OrphanInv'
  BY <1>1, <1>2 DEF PdfInv, OrphanInv, OrphansAreSwept, Streaming
<1>7. RowsInv'
  <2>1. sqlite \in Seq(Finding) /\ IsInjective(sqlite) /\ acked \subseteq ToSet(sqlite)
    BY <1>1, <1>2 DEF RowsInv
  <2>2. /\ sqlite' \in Seq(Finding) /\ IsInjective(sqlite')
        /\ ToSet(sqlite) \subseteq ToSet(sqlite')
        /\ Pass(w) => hand[w].f \in ToSet(sqlite')
    <3>1. /\ sqlite' \in {sqlite, Inserted(hand[w].f)}
          /\ Pass(w) => sqlite' = Inserted(hand[w].f)
      BY <1>1, <1>2 DEF SqliteWrite, SqliteFails, Pass, Drop, Idle, WhereInv
    <3>2. QED
      BY <1>2, <2>1, <3>1, RowInserted
  <2>3. \A v \in Worker : v # w => hand'[v] = hand[v]
    BY <1>1, <1>2 DEF Pass, Drop, WhereInv
  <2>4. /\ Pass(w) => hand'[w].f = hand[w].f
        /\ Drop(w) => hand'[w].at # "ack"
    BY <1>1 DEF Pass, Drop, Idle, WhereInv
  <2>5. \A v \in Worker : hand'[v].at = "ack" => hand'[v].f \in ToSet(sqlite')
    BY <1>1, <1>2, <2>2, <2>3, <2>4 DEF RowsInv
  <2>6. QED
    BY <1>2, <2>1, <2>2, <2>5 DEF RowsInv, ToSet
<1>8. QED
  BY <1>5, <1>6, <1>7 DEF DirInv

-----------------------------------------------------------------------------
(* The process.                                                            *)

\* A crash empties the hands and the buffer, which the history records.
LEMMA CrashKeeps == DirInv /\ Crash => DirInv'
<1> SUFFICES ASSUME DirInv, Crash PROVE DirInv'
  OBVIOUS
<1>1. /\ WhereInv /\ LineInv /\ RowsInv /\ PdfInv /\ OrphanInv
  BY DEF DirInv
<1>2. /\ up /\ up' = FALSE /\ hand' = [w \in Worker |-> Idle] /\ handle' = "none"
      /\ orphan' = (orphan \/ Tempfile)
      /\ doc' = NoDocument
      /\ known' = FALSE /\ buf' = <<>> /\ pending' = 0
      /\ flush' = [x \in Flusher |-> NoFlush]
      /\ dropped' = dropped \cup ToSet(buf) \cup InFlight
      /\ sweep' = NoSweep
      /\ UNCHANGED <<config, acked, ndjson, adrift, report, expired, sqlite>>
  BY DEF Crash, StreamForget, AccForget, RetForget, fileVars
<1>3. Idle.at = "idle" /\ Idle \in [f : Finding \cup {NoFinding}, at : Place]
      /\ NoFlush.stage = "none"
      /\ NoFlush \in [stage : {"none", "queued", "saved"}, snap : Seq(Finding)]
  BY EmptySeq DEF Idle, Place, NoFlush
<1>4. WhereInv'
  <2>1. \A w \in Worker : w \in Flusher
    BY DEF Flusher
  <2>2. NoDocument' = NoDocument
    BY DEF NoDocument
  <2>3. QED
    BY <1>1, <1>2, <1>3, <2>1, <2>2 DEF WhereInv
<1>5. LineInv'
  BY <1>1, <1>2, <1>3, LineAside DEF Elsewhere
<1>6. RowsInv'
  BY <1>1, <1>2, <1>3 DEF RowsInv, ToSet
<1>7. PdfInv'
  <2>1. SUFFICES ASSUME config.report = "pdf" PROVE PdfInv'
    BY <1>2 DEF PdfInv
  <2>2. AccTypes'
    BY <1>1, <1>2, <1>3, <2>1, EmptySeq DEF PdfInv, AccTypes
  <2>3. DOMAIN buf' = {}
    BY <1>2
  <2>4. CapRows' = {}
    BY <2>3 DEF CapRows
  <2>5. Settled \cup CapRows \subseteq Settled'
    BY <1>2, CapIsPart DEF Settled, ReportRows, ToSet
  <2>6. QED
    BY <1>1, <1>2, <1>3, <2>1, <2>2, <2>4, <2>5 DEF PdfInv
<1>8. OrphanInv'
  <2>1. Tempfile => Streaming \/ config.report = "pdf"
    BY <1>1 DEF Tempfile, WhereInv, NoDocument
  <2>2. QED
    BY <1>1, <1>2, <2>1 DEF OrphanInv, OrphansAreSwept, Streaming
<1>9. QED
  BY <1>4, <1>5, <1>6, <1>7, <1>8 DEF DirInv

\* Starts sweep the orphans they know; a replica's sweep may take a tempfile in use.
LEMMA StartsKeep == DirInv /\ (Start \/ OtherStarts) => DirInv'
<1> SUFFICES ASSUME DirInv, Start \/ OtherStarts PROVE DirInv'
  OBVIOUS
<1>1. LineInv /\ OrphanInv
  BY DEF DirInv
<1>2. /\ orphan' = (orphan /\ config.report \notin Swept)
      /\ UNCHANGED <<config, hand, acked, lineVars, report, sqlite, accVars, expired, sweep>>
      /\ UNCHANGED doc \/ Streaming
  BY DEF Start, OtherStarts, procVars, streamVars, retVars, fileVars, Streaming
<1>3. WhereInv' /\ RowsInv' /\ PdfInv'
  BY <1>2, HandsAside
<1>4. LineInv'
  BY <1>1, <1>2, LineAside DEF Elsewhere, lineVars
<1>5. OrphanInv'
  BY <1>1, <1>2 DEF OrphanInv, OrphansAreSwept, Streaming, Swept
<1>6. QED
  BY <1>3, <1>4, <1>5 DEF DirInv

\* Closing the remaining sinks, rebuilding a report, and stuttering.
LEMMA AsideKeeps ==
  DirInv /\ (CloseOthers \/ (\E kept : Rebuild(kept)) \/ UNCHANGED vars) => DirInv'
<1> SUFFICES ASSUME DirInv, CloseOthers \/ (\E kept : Rebuild(kept)) \/ UNCHANGED vars
             PROVE  DirInv'
  OBVIOUS
<1>1. LineInv /\ OrphanInv
  BY DEF DirInv
<1>2. /\ UNCHANGED <<config, up, hand, acked, report, orphan, accVars, doc, sqlite>>
      /\ UNCHANGED <<expired, sweep, ndjson, adrift>> /\ handle' \in {handle, "none"}
  BY DEF CloseOthers, Rebuild, CloseLines, vars, dirVars, procVars, lineVars, streamVars,
         retVars, fileVars
<1>3. WhereInv' /\ RowsInv' /\ PdfInv'
  BY <1>2, HandsAside
<1>4. LineInv'
  BY <1>1, <1>2, LineAside DEF Elsewhere
<1>5. OrphanInv'
  BY <1>1, <1>2 DEF OrphanInv, OrphansAreSwept, Streaming
<1>6. QED
  BY <1>3, <1>4, <1>5 DEF DirInv

-----------------------------------------------------------------------------
\* The strengthening holds at the start of every configuration.
LEMMA InitInv == Init => DirInv
<1> SUFFICES ASSUME Init PROVE DirInv
  OBVIOUS
<1>1. /\ config \in Config /\ hand = [w \in Worker |-> Idle] /\ acked = {}
      /\ ndjson = NoFile /\ handle = "none" /\ adrift = {} /\ report = NoFile /\ orphan = FALSE
      /\ doc = NoDocument
      /\ known = FALSE /\ buf = <<>> /\ pending = 0 /\ flush = [x \in Flusher |-> NoFlush]
      /\ sweep = NoSweep /\ expired = {} /\ sqlite = <<>>
  BY DEF Init, DirInit, StreamInit, AccInit, RetInit
<1>2. /\ Idle.at = "idle" /\ Idle \in [f : Finding \cup {NoFinding}, at : Place]
      /\ NoFlush.stage = "none" /\ NoSweep.stage = "none"
      /\ NoFlush \in [stage : {"none", "queued", "saved"}, snap : Seq(Finding)]
      /\ <<>> \in Seq(Finding) /\ DOMAIN <<>> = {}
  BY EmptySeq DEF Idle, Place, NoFlush, NoSweep
<1>3. WhereInv
  <2>1. \A w \in Worker : w \in Flusher
    BY DEF Flusher
  <2>2. config.report \in Format
    BY <1>1, DirAssumption
  <2>3. QED
    BY <1>1, <1>2, <2>1, <2>2 DEF WhereInv
<1>4. LineInv
  BY <1>1, <1>2 DEF LineInv
<1>5. RowsInv
  BY <1>1, <1>2 DEF RowsInv, IsInjective
<1>6. PdfInv
  BY <1>1, <1>2 DEF PdfInv, AccTypes, CapRows
<1>7. OrphanInv
  BY <1>1 DEF OrphanInv, OrphansAreSwept
<1>8. QED
  BY <1>3, <1>4, <1>5, <1>6, <1>7 DEF DirInv

\* Every step keeps it.
LEMMA StepInv == DirInv /\ [Next]_vars => DirInv'
BY LineStepKeeps, StreamStepKeeps, AccStepKeeps, RetentionKeeps, SqliteKeeps, CrashKeeps,
   StartsKeep, AsideKeeps DEF Next

\* The strengthening holds in every state of the directory, over crashes and starts.
THEOREM DirInvariant == Spec => []DirInv
BY InitInv, StepInv, PTL DEF Spec

\* An acknowledged finding can be read from the NDJSON file: a write cut short may have
\* spoilt its line, retention may have removed the file or its name, and nothing else.
THEOREM DirAcked == Spec => []AckedOnDisk
<1>1. DirInv => AckedOnDisk
  BY DEF DirInv, LineInv, OnDisk, AckedOnDisk
<1>2. QED
  BY DirInvariant, <1>1, PTL

\* findings.db has every acknowledged finding once, over redeliveries and crashes, for
\* any number of workers that insert.
THEOREM DirDatabase == Spec => []DatabaseIsExact
<1>1. DirInv => DatabaseIsExact
  BY DEF DirInv, RowsInv, DatabaseIsExact
<1>2. QED
  BY DirInvariant, <1>1, PTL

\* The accumulator loses no acknowledged finding but through a flush that failed, a report
\* replaced by an older or a smaller one, or the death of the process, for any batch
\* size, any cap and however the flushes overtake each other.
THEOREM DirPdf == Spec => []AckedInPdf
<1>1. DirInv => AckedInPdf
  BY CapIsPart DEF DirInv, PdfInv, Settled, AckedInPdf
<1>2. QED
  BY DirInvariant, <1>1, PTL

\* A running writer has swept the orphans of the formats its sweep knows.
THEOREM DirOrphans == Spec => []OrphansAreSwept
<1>1. DirInv => OrphansAreSwept
  BY DEF DirInv, OrphanInv
<1>2. QED
  BY DirInvariant, <1>1, PTL

-----------------------------------------------------------------------------
(* The streamed documents.                                                 *)

Token == Finding \cup {Torn, "[", ",", "]", "<table>", "</table>", "PAR1", "footer"}

DocType == [stage : {"none", "open", "taken", "saved", "over"}, tmp : BOOLEAN,
            bytes : Seq(Token), rows : Seq(Finding), first : BOOLEAN, total : Nat,
            spoilt : BOOLEAN]

\* What a document of these rows has between its opening and its closing.
Inside(rows) == IF config.report = "sarif" THEN Listed(rows) ELSE rows

\* The opening and everything inside are there, and nothing else.
Begun(x) ==
  /\ Len(x.bytes) = Len(Inside(x.rows)) + 1
  /\ \A i \in 1 .. Len(Inside(x.rows)) : x.bytes[i + 1] = Inside(x.rows)[i]

\* What holds of a document while rows are written to it.
Filled(x) ==
  /\ config.report = "sarif" => x.spoilt \/ (Begun(x) /\ (x.first = TRUE <=> x.rows = <<>>))
  /\ config.report = "html" => x.spoilt \/ Begun(x)
  /\ config.report = "parquet" => Begun(x)
  /\ config.report = "xlsx" => x.bytes = x.rows /\ x.total = Len(x.rows)

\* What PublishedIsWhole asks of a report.
Whole(r) ==
  \/ WellFormed(r)
  \/ r.spoilt /\ config.report \in {"sarif", "html"}

\* What TempfileInUseIsKept asks of a document.
Kept(x) ==
  x.stage \in (IF config.report = "xlsx" THEN {"saved"} ELSE {"open", "taken", "saved"})
    => x.tmp = TRUE \/ (othersUp = TRUE /\ config.report \in {"xlsx", "parquet"})

\* An open document is filled, a saved one and the published one are whole.
DocInv(x) ==
  /\ x \in DocType
  /\ x.stage \in {"open", "taken"} => Filled(x)
  /\ x.stage = "saved" => Whole(x)
  /\ Kept(x)

StreamInv == DocInv(doc) /\ PublishedIsWhole

\* The separator, as a token whose value does not matter here.
Comma == ","

\* What stands between the first and the last element.
LEMMA Middle ==
  ASSUME NEW S, NEW s \in Seq(S), NEW n \in Nat, Len(s) = n + 2
  PROVE  /\ SubSeq(s, 2, n + 1) \in Seq(S)
         /\ Len(SubSeq(s, 2, n + 1)) = n
         /\ \A i \in 1 .. n : SubSeq(s, 2, n + 1)[i] = s[i + 1]
OBVIOUS

\* The comma-separated list of rows, by position.
LEMMA ListedIs ==
  ASSUME NEW rows \in Seq(Finding)
  PROVE  /\ Listed(rows) \in Seq(Token)
         /\ Len(Listed(rows)) = IF rows = <<>> THEN 0 ELSE 2 * Len(rows) - 1
<1> DEFINE n == IF rows = <<>> THEN 0 ELSE 2 * Len(rows) - 1
<1>1. n \in Nat
  OBVIOUS
<1>2. Listed(rows) = [i \in 1 .. n |-> IF i % 2 = 0 THEN "," ELSE rows[(i + 1) \div 2]]
  BY DEF Listed
<1>3. ASSUME NEW i \in 1 .. n PROVE (IF i % 2 = 0 THEN "," ELSE rows[(i + 1) \div 2]) \in Token
  <2>1. i % 2 # 0 => (i + 1) \div 2 \in 1 .. Len(rows)
    OBVIOUS
  <2>2. i % 2 # 0 => rows[(i + 1) \div 2] \in Finding
    BY <2>1
  <2> QED BY <2>2 DEF Token
<1>4. Listed(rows) \in [1 .. n -> Token]
  BY <1>2, <1>3
<1> HIDE DEF n
<1>5. Listed(rows) \in Seq(Token)
  BY <1>1, <1>4, SeqDef
<1>6. Len(Listed(rows)) = n
  BY <1>1, <1>4, <1>5, LenProperties
<1> QED BY <1>5, <1>6 DEF n

\* A row more is a separator and a row more in the list.
LEMMA ListedAppend ==
  ASSUME NEW rows \in Seq(Finding), NEW f \in Finding, NEW n \in Nat, n = Len(rows)
  PROVE  /\ Len(Listed(Append(rows, f))) = 2 * n + 1
         /\ \A i \in 1 .. (2 * n - 1) : Listed(Append(rows, f))[i] = Listed(rows)[i]
         /\ n # 0 => Listed(Append(rows, f))[2 * n] = Comma
         /\ Listed(Append(rows, f))[2 * n + 1] = f
<1> DEFINE more == Append(rows, f)
<1>1. /\ more \in Seq(Finding) /\ more # <<>> /\ Len(more) = n + 1 /\ more[n + 1] = f
      /\ \A k \in 1 .. n : more[k] = rows[k]
  BY AppendProperties
<1>9. n = 0 <=> rows = <<>>
  BY EmptySeq
<1> HIDE DEF more
<1>2. Listed(more) = [i \in 1 .. (2 * n + 1) |-> IF i % 2 = 0 THEN Comma ELSE more[(i + 1) \div 2]]
  BY <1>1 DEF Listed, Comma
<1>3. ASSUME NEW i \in 1 .. (2 * n - 1) PROVE Listed(more)[i] = Listed(rows)[i]
  <2>1. n # 0 /\ rows # <<>> /\ i \in 1 .. (2 * n + 1)
    BY <1>9
  <2>2. Listed(rows)[i] = IF i % 2 = 0 THEN Comma ELSE rows[(i + 1) \div 2]
    BY <2>1 DEF Listed, Comma
  <2>3. i % 2 # 0 => (i + 1) \div 2 \in 1 .. n
    OBVIOUS
  <2> QED BY <1>1, <1>2, <2>1, <2>2, <2>3
<1>4. n # 0 => (2 * n) % 2 = 0 /\ 2 * n \in 1 .. (2 * n + 1)
  OBVIOUS
<1>5. (2 * n + 1) % 2 # 0 /\ (2 * n + 1 + 1) \div 2 = n + 1 /\ 2 * n + 1 \in 1 .. (2 * n + 1)
  OBVIOUS
<1>6. Len(Listed(more)) = 2 * n + 1
  BY <1>1, ListedIs
<1>7. n # 0 => Listed(more)[2 * n] = Comma
  BY <1>2, <1>4
<1>8. Listed(more)[2 * n + 1] = f
  BY <1>1, <1>2, <1>5
<1> QED BY <1>3, <1>6, <1>7, <1>8 DEF more

LEMMA InsideIs ==
  ASSUME NEW rows \in Seq(Finding)
  PROVE  Inside(rows) \in Seq(Token)
<1>1. CASE config.report = "sarif"
  BY <1>1, ListedIs DEF Inside
<1>2. CASE config.report # "sarif"
  BY <1>2, SeqMonotonic DEF Inside, Token
<1> QED BY <1>1, <1>2

\* Closing a document of which everything is there makes it whole.
LEMMA Closing ==
  ASSUME NEW x \in DocType, Begun(x), NEW last \in Token
  PROVE  LET more == Append(x.bytes, last)
         IN  SubSeq(more, 2, Len(more) - 1) = Inside(x.rows) /\ Last(more) = last
<1> DEFINE more == Append(x.bytes, last)
           in == Inside(x.rows)
           n == Len(in)
<1>0. x.bytes \in Seq(Token) /\ x.rows \in Seq(Finding)
  BY DEF DocType
<1>1. in \in Seq(Token) /\ n \in Nat /\ Len(x.bytes) = n + 1
      /\ \A i \in 1 .. n : x.bytes[i + 1] = in[i]
  BY <1>0, InsideIs, LenProperties DEF Begun
<1>2. more \in Seq(Token) /\ Len(more) = n + 2 /\ more[n + 2] = last
      /\ \A i \in 1 .. n + 1 : more[i] = x.bytes[i]
  BY <1>0, <1>1, AppendProperties
<1> HIDE DEF more, in, n
<1>4. /\ SubSeq(more, 2, n + 1) \in Seq(Token)
      /\ Len(SubSeq(more, 2, n + 1)) = n
      /\ \A i \in 1 .. n : SubSeq(more, 2, n + 1)[i] = more[i + 1]
  BY <1>1, <1>2, Middle
<1>5. \A i \in 1 .. n : SubSeq(more, 2, n + 1)[i] = in[i]
  BY <1>1, <1>2, <1>4
<1>6. SubSeq(more, 2, n + 1) = in
  <2>1. Len(in) = n
    BY DEF n
  <2> QED BY <1>1, <1>4, <1>5, <2>1, SeqEqual
<1>7. Len(more) - 1 = n + 1
  BY <1>1, <1>2
<1>8. Last(more) = last
  BY <1>1, <1>2 DEF Last
<1> QED BY <1>6, <1>7, <1>8 DEF more, in

\* A row behind everything there, with its separator if one is due.
LEMMA RowAdded ==
  ASSUME NEW x \in DocType, NEW y \in DocType, NEW f \in Finding,
         config.report # "sarif",
         Begun(x), y.bytes = Append(x.bytes, f), y.rows = Append(x.rows, f)
  PROVE  Begun(y)
<1>0. x.bytes \in Seq(Token) /\ x.rows \in Seq(Finding) /\ f \in Token
  BY DEF DocType, Token
<1>1. Inside(x.rows) = x.rows /\ Inside(y.rows) = Append(x.rows, f)
  BY DEF Inside
<1> QED BY <1>0, <1>1, AppendProperties DEF Begun

LEMMA ResultAdded ==
  ASSUME NEW rows \in Seq(Finding), NEW bytes \in Seq(Token), NEW f \in Finding,
         NEW n \in Nat, n = Len(rows),
         Len(bytes) = Len(Listed(rows)) + 1,
         \A i \in 1 .. Len(Listed(rows)) : bytes[i + 1] = Listed(rows)[i]
  PROVE  /\ Len(Append(IF n = 0 THEN bytes ELSE Append(bytes, Comma), f))
              = Len(Listed(Append(rows, f))) + 1
         /\ \A i \in 1 .. Len(Listed(Append(rows, f))) :
              Append(IF n = 0 THEN bytes ELSE Append(bytes, Comma), f)[i + 1]
                = Listed(Append(rows, f))[i]
<1> DEFINE all == Listed(Append(rows, f))
           more == Append(IF n = 0 THEN bytes ELSE Append(bytes, Comma), f)
           had == Listed(rows)
<1>0. f \in Token /\ Comma \in Token /\ (n = 0 <=> rows = <<>>)
  BY EmptySeq DEF Token, Comma
<1>1. /\ Len(all) = 2 * n + 1
      /\ \A i \in 1 .. (2 * n - 1) : all[i] = had[i]
      /\ n # 0 => all[2 * n] = Comma
      /\ all[2 * n + 1] = f
  BY ListedAppend
<1>2. Len(had) = IF n = 0 THEN 0 ELSE 2 * n - 1
  BY <1>0, ListedIs
<1>3. n = 0 => Len(bytes) = 1
  BY <1>2
<1>4. n # 0 => Len(bytes) = 2 * n
  BY <1>2
<1>5. n # 0 => \A i \in 1 .. 2 * n - 1 : bytes[i + 1] = had[i]
  BY <1>2
<1>6. CASE n = 0
  <2>1. Len(more) = 2 /\ more[2] = f
    BY <1>0, <1>3, <1>6, AppendProperties
  <2> HIDE DEF more, all, had
  <2> QED BY <1>1, <1>6, <2>1 DEF more, all
<1>7. CASE n # 0
  <2> DEFINE z == Append(bytes, Comma)
  <2>1. more = Append(z, f)
    BY <1>7
  <2>2. z \in Seq(Token) /\ Len(z) = 2 * n + 1 /\ z[2 * n + 1] = Comma
        /\ \A i \in 1 .. 2 * n : z[i] = bytes[i]
    BY <1>0, <1>4, <1>7, AppendProperties
  <2> HIDE DEF z, more
  <2>3. Len(more) = 2 * n + 2 /\ more[2 * n + 2] = f
        /\ \A i \in 1 .. 2 * n + 1 : more[i] = z[i]
    BY <1>0, <2>1, <2>2, AppendProperties
  <2> HIDE DEF all, had
  <2>4. ASSUME NEW i \in 1 .. 2 * n + 1 PROVE more[i + 1] = all[i]
    <3>1. CASE i \in 1 .. 2 * n - 1
      BY <1>1, <1>5, <1>7, <2>2, <2>3, <3>1
    <3>2. CASE i = 2 * n
      BY <1>1, <1>7, <2>2, <2>3, <3>2
    <3>3. CASE i = 2 * n + 1
      BY <1>1, <2>3, <3>3
    <3>4. i \in 1 .. 2 * n - 1 \/ i = 2 * n \/ i = 2 * n + 1
      OBVIOUS
    <3> QED BY <3>1, <3>2, <3>3, <3>4
  <2>5. Len(more) = Len(all) + 1
    BY <1>1, <2>3
  <2>6. \A i \in 1 .. Len(all) : more[i + 1] = all[i]
    BY <1>1, <2>4
  <2> QED BY <2>5, <2>6, Zenon DEF all, more
<1> QED BY <1>6, <1>7

\* What the properties say of a document does not change with the rest of the state.
LEMMA SameConfig ==
  ASSUME UNCHANGED <<config, othersUp>>, DocInv(doc')
  PROVE  DocInv(doc)'
BY ZenonT(40) DEF DocInv, Filled, Whole, WellFormed, Kept, Begun, Inside, Listed, DocType, Token

LEMMA ReportAside ==
  ASSUME UNCHANGED <<config, report>>, PublishedIsWhole
  PROVE  PublishedIsWhole'
BY DEF PublishedIsWhole, Streaming, WellFormed, Listed

LEMMA NewDocument ==
  ASSUME NEW prefix \in Seq(Token), NEW x,
         x = [NoDocument EXCEPT !.stage = "open", !.tmp = prefix # <<>>, !.bytes = prefix]
  PROVE  /\ x \in DocType /\ x.stage = "open" /\ x.rows = <<>> /\ x.first = TRUE
         /\ x.bytes = prefix /\ x.total = 0 /\ x.spoilt = FALSE
         /\ (x.tmp = TRUE <=> prefix # <<>>)
<1>1. PICK b \in BOOLEAN : b = (prefix # <<>>)
  OBVIOUS
<1>2. x = [stage |-> "open", tmp |-> b, bytes |-> prefix, rows |-> <<>>,
           first |-> TRUE, total |-> 0, spoilt |-> FALSE]
  BY <1>1 DEF NoDocument
<1>3. /\ x.stage = "open" /\ x.rows = <<>> /\ x.first = TRUE /\ x.tmp = b
      /\ x.bytes = prefix /\ x.total = 0 /\ x.spoilt = FALSE
  BY ONLY <1>2, Zenon
<1>4. x \in DocType
  BY ONLY <1>2, <1>1, EmptySeq, Zenon DEF DocType
<1> QED BY <1>1, <1>3, <1>4, Zenon

LEMMA NoDocumentTyped == NoDocument \in DocType /\ NoDocument.stage = "none"
BY EmptySeq DEF NoDocument, DocType

\* What every write of the format finds: the open document, or one just opened.
LEMMA OpenDocument ==
  ASSUME DocInv(doc), Streaming, NEW prefix \in Seq(Token), NEW x, x = Document(prefix),
         config.report = "xlsx" => prefix = <<>>,
         config.report # "xlsx" => Len(prefix) = 1
  PROVE  /\ x \in DocType /\ x.stage = "open" /\ Filled(x)
         /\ Kept(x)
<1>1. CASE doc.stage = "open"
  BY <1>1 DEF Document, DocInv
<1>2. CASE doc.stage # "open"
  <2>1. x = [NoDocument EXCEPT !.stage = "open", !.tmp = prefix # <<>>, !.bytes = prefix]
    BY <1>2 DEF Document
  <2>2. /\ x \in DocType /\ x.stage = "open" /\ x.rows = <<>> /\ x.first = TRUE
        /\ x.bytes = prefix /\ x.total = 0 /\ x.spoilt = FALSE
        /\ (x.tmp = TRUE <=> prefix # <<>>)
    BY <2>1, NewDocument
  <2>3. Len(x.rows) = 0 /\ x.rows \in Seq(Finding) /\ Len(Inside(x.rows)) = 0
    BY <2>2, EmptySeq, ListedIs DEF Inside
  <2>4. config.report # "xlsx" => Begun(x)
    <3>1. config.report # "xlsx" => Len(x.bytes) = 0 + 1
      BY <2>2
    <3>2. \A i \in 1 .. 0 : x.bytes[i + 1] = Inside(x.rows)[i]
      OBVIOUS
    <3> QED BY <2>3, <3>1, <3>2, Zenon DEF Begun
  <2>5. Filled(x)
    BY <2>2, <2>3, <2>4 DEF Filled
  <2>6. Kept(x)
    BY <2>2, EmptySeq, SMTT(30) DEF Kept
  <2> QED BY <2>2, <2>5, <2>6
<1> QED BY <1>1, <1>2

\* A row is accepted: y is x with the row, however its bytes got there.
LEMMA RowAccepted ==
  ASSUME NEW x \in DocType, Filled(x), Kept(x), x.stage = "open",
         NEW f \in Finding, NEW y \in DocType,
         y.stage = "open", y.tmp = x.tmp, y.rows = Append(x.rows, f), y.spoilt = x.spoilt,
         config.report # "sarif" => y.bytes = Append(x.bytes, f),
         config.report = "xlsx" => y.total = x.total + 1,
         config.report = "sarif" =>
           /\ y.bytes = Append(IF x.first = TRUE THEN x.bytes ELSE Append(x.bytes, ","), f)
           /\ y.first = FALSE
  PROVE  DocInv(y)
<1>1. /\ x.bytes \in Seq(Token) /\ x.rows \in Seq(Finding) /\ x.total \in Nat
      /\ Len(y.rows) = Len(x.rows) + 1 /\ y.rows # <<>> /\ Len(x.rows) \in Nat
  <2>1. x.bytes \in Seq(Token) /\ x.rows \in Seq(Finding) /\ x.total \in Nat
    BY DEF DocType
  <2>2. Len(y.rows) = Len(x.rows) + 1 /\ y.rows # <<>> /\ Len(x.rows) \in Nat
    BY ONLY <2>1, f \in Finding, y.rows = Append(x.rows, f), AppendProperties, LenProperties
  <2> QED BY <2>1, <2>2
<1>2. Kept(y)
  BY DEF Kept
<1>3. config.report # "sarif" => (Begun(x) => Begun(y))
  BY RowAdded
<1>4. config.report = "sarif" => (x.spoilt \/ (Begun(y) /\ (y.first = TRUE <=> y.rows = <<>>)))
  <2>1. SUFFICES ASSUME config.report = "sarif", ~x.spoilt PROVE Begun(y)
    BY <1>1
  <2>2. Begun(x) /\ (x.first = TRUE <=> x.rows = <<>>)
    BY <2>1 DEF Filled
  <2>3. Inside(x.rows) = Listed(x.rows) /\ Inside(y.rows) = Listed(y.rows)
    BY <2>1 DEF Inside
  <2>4. x.first = TRUE <=> Len(x.rows) = 0
    BY <1>1, <2>2, EmptySeq
  <2>5. y.bytes = Append(IF Len(x.rows) = 0 THEN x.bytes ELSE Append(x.bytes, Comma), f)
    BY <2>1, <2>4, Zenon DEF Comma
  <2>6. Begun(y)
    <3>1. PICK n \in Nat : n = Len(x.rows)
      BY <1>1
    <3> DEFINE more == Append(IF n = 0 THEN x.bytes ELSE Append(x.bytes, Comma), f)
               all == Listed(Append(x.rows, f))
    <3>2. Len(more) = Len(all) + 1 /\ \A i \in 1 .. Len(all) : more[i + 1] = all[i]
      <4>1. /\ Len(x.bytes) = Len(Listed(x.rows)) + 1
            /\ \A i \in 1 .. Len(Listed(x.rows)) : x.bytes[i + 1] = Listed(x.rows)[i]
        BY <2>2, <2>3, Zenon DEF Begun
      <4>2. x.bytes \in Seq(Token) /\ x.rows \in Seq(Finding)
        BY <1>1
      <4> QED BY ONLY <3>1, <4>1, <4>2, f \in Finding, ResultAdded, Zenon
    <3>3. more = y.bytes /\ all = Inside(y.rows)
      BY <2>3, <2>5, <3>1
    <3> HIDE DEF more, all
    <3> QED BY <3>2, <3>3, Zenon DEF Begun
  <2> QED BY <2>6
<1>5. config.report = "xlsx" => y.bytes = y.rows /\ y.total = Len(y.rows)
  BY <1>1 DEF Filled
<1> QED BY <1>2, <1>3, <1>4, <1>5 DEF DocInv, Filled

\* A row is refused half way: nothing changed, or the document is marked.
LEMMA RowRejected ==
  ASSUME NEW x \in DocType, Filled(x), Kept(x), x.stage = "open",
         NEW y \in DocType, y.stage = "open", y.tmp = x.tmp,
         \/ y.bytes = x.bytes /\ y.rows = x.rows /\ y.first = x.first /\ y.total = x.total
            /\ y.spoilt = x.spoilt
         \/ y.spoilt = TRUE /\ config.report \in {"sarif", "html"}
  PROVE  DocInv(y)
<1>1. Kept(y)
  BY DEF Kept
<1>2. Filled(y)
  BY DEF Filled, Begun
<1> QED BY <1>1, <1>2 DEF DocInv

LEMMA RowsIs ==
  ASSUME NEW x \in DocType, NEW f \in Finding, NEW bytes \in Seq(Token),
         NEW y, y = Rows(x, f, bytes)
  PROVE  /\ y \in DocType /\ y.bytes = bytes /\ y.rows = Append(x.rows, f)
         /\ y.stage = x.stage /\ y.tmp = x.tmp /\ y.first = x.first /\ y.total = x.total
         /\ y.spoilt = x.spoilt
<1>1. Append(x.rows, f) \in Seq(Finding)
  BY AppendProperties DEF DocType
<1> QED BY <1>1 DEF Rows, DocType

\* The document of a format once one more row is in it.
LEMMA AcceptedIs ==
  ASSUME NEW x \in DocType, NEW f \in Finding, doc' = Rows(x, f, Append(x.bytes, f))
  PROVE  /\ doc' \in DocType /\ doc'.bytes = Append(x.bytes, f) /\ doc'.rows = Append(x.rows, f)
         /\ doc'.stage = x.stage /\ doc'.tmp = x.tmp /\ doc'.first = x.first
         /\ doc'.total = x.total /\ doc'.spoilt = x.spoilt
<1>1. x.bytes \in Seq(Token) /\ f \in Token
  BY DEF DocType, Token
<1>2. PICK bytes \in Seq(Token) : bytes = Append(x.bytes, f)
  BY <1>1, AppendProperties
<1>3. doc' = Rows(x, f, bytes)
  BY <1>2
<1>4. PICK y : y = Rows(x, f, bytes)
  OBVIOUS
<1>5. /\ y \in DocType /\ y.bytes = bytes /\ y.rows = Append(x.rows, f)
      /\ y.stage = x.stage /\ y.tmp = x.tmp /\ y.first = x.first /\ y.total = x.total
      /\ y.spoilt = x.spoilt
  BY ONLY x \in DocType, f \in Finding, bytes \in Seq(Token), <1>4, RowsIs
<1> QED BY <1>2, <1>3, <1>4, <1>5

LEMMA SeparatedIs ==
  ASSUME NEW x \in DocType, NEW y, y = Separated(x)
  PROVE  /\ y \in DocType /\ y.bytes = (IF x.first = TRUE THEN x.bytes ELSE Append(x.bytes, ","))
         /\ y.first = FALSE
         /\ y.stage = x.stage /\ y.tmp = x.tmp /\ y.rows = x.rows /\ y.total = x.total
         /\ y.spoilt = x.spoilt
<1>1. x.bytes \in Seq(Token) /\ "," \in Token /\ x.first \in BOOLEAN
  BY DEF DocType, Token
<1>2. PICK b \in Seq(Token) : b = (IF x.first = TRUE THEN x.bytes ELSE Append(x.bytes, ","))
  BY <1>1, AppendProperties, Zenon
<1>3. PICK c \in BOOLEAN : c = FALSE
  OBVIOUS
<1>4. y = [x EXCEPT !.bytes = b, !.first = c]
  BY <1>1, <1>2, <1>3 DEF Separated
<1>5. /\ y \in DocType /\ y.bytes = b /\ y.first = c
      /\ y.stage = x.stage /\ y.tmp = x.tmp /\ y.rows = x.rows /\ y.total = x.total
      /\ y.spoilt = x.spoilt
  BY ONLY <1>4, x \in DocType DEF DocType
<1> QED BY <1>2, <1>3, <1>5, Zenon

\* Separator and result: accepted, or failed on the way.
LEMMA SarifStep ==
  ASSUME WhereInv, DocInv(doc), NEW w \in Worker, SarifWrite(w) \/ SarifWriteFails(w)
  PROVE  DocInv(doc') /\ UNCHANGED report
<1>1. /\ hand[w].at = "sarif" /\ config.report = "sarif" /\ hand[w].f \in Finding
      /\ UNCHANGED report
  BY DEF SarifWrite, SarifWriteFails, RowDue, Writing, Accept, Reject, sinkSame, WhereInv
<1>2. <<"[">> \in Seq(Token) /\ Len(<<"[">>) = 1
  BY DEF Token
<1>3. PICK x : x = SarifDocument
  OBVIOUS
<1>4. /\ x \in DocType /\ x.stage = "open" /\ Filled(x) /\ Kept(x)
  BY <1>1, <1>2, <1>3, OpenDocument DEF SarifDocument, Streaming
<1>5. PICK y : y = Separated(x)
  OBVIOUS
<1>6. /\ y \in DocType /\ y.bytes = (IF x.first = TRUE THEN x.bytes ELSE Append(x.bytes, ","))
      /\ y.first = FALSE
      /\ y.stage = x.stage /\ y.tmp = x.tmp /\ y.rows = x.rows /\ y.total = x.total
      /\ y.spoilt = x.spoilt
  BY <1>4, <1>5, SeparatedIs
<1>7. CASE SarifWrite(w)
  <2>1. doc' = Rows(y, hand[w].f, Append(y.bytes, hand[w].f))
    BY <1>3, <1>5, <1>7, Zenon DEF SarifWrite, Accept
  <2>2. /\ doc' \in DocType /\ doc'.bytes = Append(y.bytes, hand[w].f)
        /\ doc'.rows = Append(y.rows, hand[w].f)
        /\ doc'.stage = y.stage /\ doc'.tmp = y.tmp /\ doc'.first = y.first
        /\ doc'.spoilt = y.spoilt
    <3>1. y \in DocType /\ hand[w].f \in Finding
      BY <1>1, <1>6
    <3> QED BY ONLY <2>1, <3>1, AcceptedIs
  <2>3. DocInv(doc')
    BY <1>1, <1>4, <1>6, <2>2, RowAccepted
  <2> QED BY <1>1, <2>3
<1>8. CASE SarifWriteFails(w)
  <2>1. PICK left \in {x, [y EXCEPT !.first = x.first], y, [y EXCEPT !.bytes = Append(@, Torn)]} :
          doc' = [left EXCEPT !.spoilt = @ \/ left # x]
    BY <1>3, <1>5, <1>8, ZenonT(40) DEF SarifWriteFails, Reject
  <2>2. left \in DocType /\ left.stage = "open" /\ left.tmp = x.tmp
    <3>1. x.first \in BOOLEAN /\ y.bytes \in Seq(Token) /\ Torn \in Token
      BY <1>4, <1>6 DEF DocType, Token
    <3>2. Append(y.bytes, Torn) \in Seq(Token)
      BY <3>1, AppendProperties
    <3>3. CASE left = x
      BY <1>4, <3>3
    <3>4. CASE left = [y EXCEPT !.first = x.first]
      BY <1>4, <1>6, <3>1, <3>4 DEF DocType
    <3>5. CASE left = y
      BY <1>4, <1>6, <3>5
    <3>6. CASE left = [y EXCEPT !.bytes = Append(@, Torn)]
      BY <1>4, <1>6, <3>2, <3>6 DEF DocType
    <3> QED BY <3>3, <3>4, <3>5, <3>6
  <2>3. PICK b \in BOOLEAN : b = (left.spoilt \/ left # x)
    BY <2>2 DEF DocType
  <2>4. doc' = [left EXCEPT !.spoilt = b]
    BY <2>1, <2>3
  <2>5. /\ doc' \in DocType /\ doc'.stage = "open" /\ doc'.tmp = left.tmp
        /\ doc'.bytes = left.bytes /\ doc'.rows = left.rows /\ doc'.first = left.first
        /\ doc'.total = left.total /\ doc'.spoilt = b
    BY ONLY <2>2, <2>4, b \in BOOLEAN DEF DocType
  <2>6. x.spoilt \in BOOLEAN
    BY <1>4 DEF DocType
  <2>7. left = x => b = x.spoilt
    BY <2>3, <2>6
  <2>8. left # x => b = TRUE
    BY <2>3
  <2>9. DocInv(doc')
    BY <1>1, <1>4, <2>2, <2>5, <2>7, <2>8, RowRejected
  <2> QED BY <1>1, <2>9
<1> QED BY <1>7, <1>8

\* The steps of the HTML sink.
LEMMA HtmlStep ==
  ASSUME WhereInv, DocInv(doc), NEW w \in Worker, HtmlWrite(w) \/ HtmlWriteFails(w)
  PROVE  DocInv(doc') /\ UNCHANGED report
<1>1. /\ hand[w].at = "html" /\ config.report = "html" /\ hand[w].f \in Finding
      /\ UNCHANGED report
  BY DEF HtmlWrite, HtmlWriteFails, RowDue, Writing, Accept, Reject, sinkSame, WhereInv
<1>2. <<"<table>">> \in Seq(Token) /\ Len(<<"<table>">>) = 1
  BY DEF Token
<1>3. PICK x : x = HtmlDocument
  OBVIOUS
<1>4. /\ x \in DocType /\ x.stage = "open" /\ Filled(x) /\ Kept(x)
  BY <1>1, <1>2, <1>3, OpenDocument DEF HtmlDocument, Streaming
<1>5. x.bytes \in Seq(Token) /\ hand[w].f \in Token /\ Torn \in Token /\ x.spoilt \in BOOLEAN
  BY <1>1, <1>4 DEF DocType, Token
<1>6. CASE HtmlWrite(w)
  <2>1. doc' = Rows(x, hand[w].f, Append(x.bytes, hand[w].f))
    BY <1>3, <1>6, Zenon DEF HtmlWrite, Accept
  <2>2. /\ doc' \in DocType /\ doc'.bytes = Append(x.bytes, hand[w].f)
        /\ doc'.rows = Append(x.rows, hand[w].f)
        /\ doc'.stage = x.stage /\ doc'.tmp = x.tmp /\ doc'.spoilt = x.spoilt
    <3>1. x \in DocType /\ hand[w].f \in Finding
      BY <1>1, <1>4
    <3> QED BY ONLY <2>1, <3>1, AcceptedIs
  <2>3. DocInv(doc')
    BY <1>1, <1>4, <2>2, RowAccepted
  <2> QED BY <1>1, <2>3
<1>7. CASE HtmlWriteFails(w)
  <2>1. PICK t \in {<<>>, <<Torn>>} : doc' = [x EXCEPT !.bytes = @ \o t, !.spoilt = @ \/ t # <<>>]
    BY <1>3, <1>7, Zenon DEF HtmlWriteFails, Reject
  <2>2. PICK b \in BOOLEAN : b = (x.spoilt \/ t # <<>>)
    BY <1>5
  <2>3. PICK bytes \in Seq(Token) : bytes = x.bytes \o t
    <3>1. <<>> \in Seq(Token) /\ <<Torn>> \in Seq(Token)
      BY <1>5, EmptySeq
    <3>2. t \in Seq(Token)
      BY <2>1, <3>1
    <3> QED BY <1>5, <3>2, ConcatProperties
  <2>4. doc' = [x EXCEPT !.bytes = bytes, !.spoilt = b]
    BY <2>1, <2>2, <2>3
  <2>5. /\ doc' \in DocType /\ doc'.stage = x.stage /\ doc'.tmp = x.tmp /\ doc'.rows = x.rows
        /\ doc'.first = x.first /\ doc'.total = x.total /\ doc'.bytes = bytes /\ doc'.spoilt = b
    BY ONLY <1>4, <2>4, bytes \in Seq(Token), b \in BOOLEAN DEF DocType
  <2>6. t = <<>> => bytes = x.bytes /\ b = x.spoilt
    BY <1>5, <2>2, <2>3
  <2>7. t # <<>> => b = TRUE
    BY <2>2
  <2>8. DocInv(doc')
    BY <1>1, <1>4, <2>5, <2>6, <2>7, RowRejected
  <2> QED BY <1>1, <2>8
<1> QED BY <1>6, <1>7

\* The steps of the XLSX sink.
LEMMA XlsxStep ==
  ASSUME WhereInv, DocInv(doc), NEW w \in Worker, XlsxWrite(w) \/ XlsxWriteFails(w)
  PROVE  DocInv(doc') /\ UNCHANGED report
<1>1. /\ hand[w].at = "xlsx" /\ config.report = "xlsx" /\ hand[w].f \in Finding
      /\ UNCHANGED report
  BY DEF XlsxWrite, XlsxWriteFails, RowDue, Writing, Accept, Reject, sinkSame, WhereInv
<1>2. <<>> \in Seq(Token)
  BY EmptySeq
<1>3. PICK x : x = XlsxDocument
  OBVIOUS
<1>4. /\ x \in DocType /\ x.stage = "open" /\ Filled(x) /\ Kept(x)
  BY <1>1, <1>2, <1>3, OpenDocument DEF XlsxDocument, Streaming
<1>5. CASE XlsxWrite(w)
  <2>1. PICK y : y = [x EXCEPT !.total = @ + 1]
    OBVIOUS
  <2>2. doc' = Rows(y, hand[w].f, Append(y.bytes, hand[w].f))
    BY <1>3, <1>5, <2>1, Zenon DEF XlsxWrite, Accept
  <2>3. /\ y \in DocType /\ y.bytes = x.bytes /\ y.rows = x.rows /\ y.stage = x.stage
        /\ y.tmp = x.tmp /\ y.total = x.total + 1 /\ y.spoilt = x.spoilt
    BY ONLY <1>4, <2>1 DEF DocType
  <2>4. /\ doc' \in DocType /\ doc'.bytes = Append(y.bytes, hand[w].f)
        /\ doc'.rows = Append(y.rows, hand[w].f)
        /\ doc'.stage = y.stage /\ doc'.tmp = y.tmp /\ doc'.total = y.total
        /\ doc'.spoilt = y.spoilt
    <3>1. y \in DocType /\ hand[w].f \in Finding
      BY <1>1, <2>3
    <3> QED BY ONLY <2>2, <3>1, AcceptedIs
  <2>5. DocInv(doc')
    BY <1>1, <1>4, <2>3, <2>4, RowAccepted
  <2> QED BY <1>1, <2>5
<1>6. CASE XlsxWriteFails(w)
  BY <1>1, <1>3, <1>4, <1>6 DEF XlsxWriteFails, Reject, DocInv
<1> QED BY <1>5, <1>6

\* The steps of the Parquet sink.
LEMMA ParquetStep ==
  ASSUME WhereInv, DocInv(doc), NEW w \in Worker, ParquetWrite(w) \/ ParquetWriteFails(w)
  PROVE  DocInv(doc') /\ UNCHANGED report
<1>1. /\ hand[w].at = "parquet" /\ config.report = "parquet" /\ hand[w].f \in Finding
      /\ UNCHANGED report
  BY DEF ParquetWrite, ParquetWriteFails, RowDue, Writing, Accept, Reject, sinkSame, WhereInv
<1>2. <<"PAR1">> \in Seq(Token) /\ Len(<<"PAR1">>) = 1
  BY DEF Token
<1>3. PICK x : x = ParquetDocument
  OBVIOUS
<1>4. /\ x \in DocType /\ x.stage = "open" /\ Filled(x) /\ Kept(x)
  BY <1>1, <1>2, <1>3, OpenDocument DEF ParquetDocument, Streaming
<1>5. CASE ParquetWrite(w)
  <2>1. doc' = Rows(x, hand[w].f, Append(x.bytes, hand[w].f))
    BY <1>3, <1>5, Zenon DEF ParquetWrite, Accept
  <2>2. /\ doc' \in DocType /\ doc'.bytes = Append(x.bytes, hand[w].f)
        /\ doc'.rows = Append(x.rows, hand[w].f)
        /\ doc'.stage = x.stage /\ doc'.tmp = x.tmp /\ doc'.spoilt = x.spoilt
    <3>1. x \in DocType /\ hand[w].f \in Finding
      BY <1>1, <1>4
    <3> QED BY ONLY <2>1, <3>1, AcceptedIs
  <2>3. DocInv(doc')
    BY <1>1, <1>4, <2>2, RowAccepted
  <2> QED BY <1>1, <2>3
<1>6. CASE ParquetWriteFails(w)
  BY <1>1, <1>3, <1>4, <1>6 DEF ParquetWriteFails, Reject, DocInv
<1> QED BY <1>5, <1>6

LEMMA WholeIs ==
  ASSUME NEW x, NEW r, Whole(x), r.bytes = x.bytes, r.rows = x.rows, r.total = x.total,
         r.spoilt = x.spoilt
  PROVE  Whole(r)
BY Zenon DEF Whole, WellFormed

\* A document moves on in its life.
LEMMA StagedIs ==
  ASSUME NEW x \in DocType, NEW st \in {"none", "open", "taken", "saved", "over"},
         NEW y, y = [x EXCEPT !.stage = st]
  PROVE  /\ y \in DocType /\ y.stage = st /\ y.tmp = x.tmp /\ y.bytes = x.bytes
         /\ y.rows = x.rows /\ y.first = x.first /\ y.total = x.total /\ y.spoilt = x.spoilt
BY DEF DocType

LEMMA TakenIs ==
  ASSUME DocInv(doc), doc.stage = "open", doc' = [doc EXCEPT !.stage = "taken"]
  PROVE  DocInv(doc')
<1>1. PICK x : x = doc
  OBVIOUS
<1>2. PICK y : y = doc'
  OBVIOUS
<1>3. x \in DocType /\ y = [x EXCEPT !.stage = "taken"]
  BY <1>1, <1>2 DEF DocInv
<1>4. /\ y \in DocType /\ y.stage = "taken" /\ y.tmp = x.tmp /\ y.bytes = x.bytes
      /\ y.rows = x.rows /\ y.first = x.first /\ y.total = x.total /\ y.spoilt = x.spoilt
  BY <1>3, StagedIs
<1>5. Filled(x) /\ Kept(x) /\ x.stage = "open"
  BY <1>1 DEF DocInv
<1>6. Filled(y) /\ Kept(y)
  BY <1>4, <1>5 DEF Filled, Begun, Kept
<1> QED BY <1>2, <1>4, <1>6 DEF DocInv

\* Completed as its format asks for, a document is whole.
LEMMA SavedIs ==
  ASSUME DocInv(doc), SarifSave \/ HtmlSave \/ XlsxSave \/ ParquetSave
  PROVE  DocInv(doc') /\ UNCHANGED <<config, report>>
<1>1. doc.stage = "taken" /\ UNCHANGED <<config, report>>
  BY DEF SarifSave, HtmlSave, XlsxSave, ParquetSave, Completed, doneSame
<1>2. doc \in DocType /\ Filled(doc) /\ Kept(doc)
  BY <1>1 DEF DocInv
<1>3. doc.bytes \in Seq(Token) /\ doc.rows \in Seq(Finding)
      /\ "]" \in Token /\ "</table>" \in Token /\ "footer" \in Token
  BY <1>2 DEF DocType, Token
<1>4. ASSUME NEW last \in Token, config.report # "xlsx",
             doc' = [[doc EXCEPT !.bytes = Append(@, last)] EXCEPT !.stage = "saved"]
      PROVE  /\ doc' \in DocType /\ doc'.stage = "saved" /\ doc'.tmp = doc.tmp
             /\ doc'.bytes = Append(doc.bytes, last) /\ doc'.rows = doc.rows
             /\ doc'.spoilt = doc.spoilt
             /\ Kept(doc')
             /\ Begun(doc) => SubSeq(doc'.bytes, 2, Len(doc'.bytes) - 1) = Inside(doc'.rows)
                              /\ Last(doc'.bytes) = last
  <2>1. PICK bytes \in Seq(Token) : bytes = Append(doc.bytes, last)
    BY <1>3, AppendProperties
  <2>2. /\ doc' \in DocType /\ doc'.stage = "saved" /\ doc'.tmp = doc.tmp
        /\ doc'.bytes = bytes /\ doc'.rows = doc.rows /\ doc'.spoilt = doc.spoilt
    BY ONLY <1>2, <1>4, <2>1 DEF DocType
  <2>3. Kept(doc')
    BY <1>1, <1>2, <1>4, <2>2 DEF Kept
  <2>4. Begun(doc) => SubSeq(bytes, 2, Len(bytes) - 1) = Inside(doc.rows) /\ Last(bytes) = last
    BY <1>2, <2>1, Closing
  <2> QED BY <2>1, <2>2, <2>3, <2>4
<1>5. CASE SarifSave
  <2>1. /\ config.report = "sarif"
        /\ doc' = [[doc EXCEPT !.bytes = Append(@, "]")] EXCEPT !.stage = "saved"]
    BY <1>5 DEF SarifSave, Completed
  <2>2. Begun(doc) => WellFormed(doc')
    BY <1>3, <1>4, <2>1 DEF WellFormed, Inside
  <2> QED BY <1>1, <1>2, <1>3, <1>4, <2>1, <2>2 DEF Filled, Whole, DocInv
<1>6. CASE HtmlSave
  <2>1. /\ config.report = "html"
        /\ doc' = [[doc EXCEPT !.bytes = Append(@, "</table>")] EXCEPT !.stage = "saved"]
    BY <1>6 DEF HtmlSave, Completed
  <2>2. Begun(doc) => WellFormed(doc')
    BY <1>3, <1>4, <2>1 DEF WellFormed, Inside
  <2> QED BY <1>1, <1>2, <1>3, <1>4, <2>1, <2>2 DEF Filled, Whole, DocInv
<1>7. CASE ParquetSave
  <2>1. /\ config.report = "parquet"
        /\ doc' = [[doc EXCEPT !.bytes = Append(@, "footer")] EXCEPT !.stage = "saved"]
    BY <1>7 DEF ParquetSave, Completed
  <2>2. Begun(doc) => WellFormed(doc')
    BY <1>3, <1>4, <2>1 DEF WellFormed, Inside
  <2> QED BY <1>1, <1>2, <1>3, <1>4, <2>1, <2>2 DEF Filled, Whole, DocInv
<1>8. CASE XlsxSave
  <2>1. config.report = "xlsx" /\ doc' = [[doc EXCEPT !.tmp = TRUE] EXCEPT !.stage = "saved"]
    BY <1>8 DEF XlsxSave, Completed
  <2>2. PICK b \in BOOLEAN : b = TRUE
    OBVIOUS
  <2>3. doc' = [[doc EXCEPT !.tmp = b] EXCEPT !.stage = "saved"]
    BY <2>1, <2>2
  <2>4. /\ doc' \in DocType /\ doc'.stage = "saved" /\ doc'.tmp = b
        /\ doc'.bytes = doc.bytes /\ doc'.rows = doc.rows /\ doc'.total = doc.total
    BY ONLY <1>2, <2>2, <2>3 DEF DocType
  <2>5. Kept(doc')
    BY <2>2, <2>4 DEF Kept
  <2>6. WellFormed(doc')
    BY <1>2, <2>1, <2>4 DEF WellFormed, Filled
  <2> QED BY <1>1, <2>4, <2>5, <2>6 DEF Whole, DocInv
<1> QED BY <1>5, <1>6, <1>7, <1>8

\* The sinks write, finish and publish documents.
LEMMA StreamNextKeeps ==
  ASSUME WhereInv, StreamInv, StreamNext, UNCHANGED othersUp
  PROVE  StreamInv'
<1>0. DocInv(doc) /\ PublishedIsWhole
  BY DEF StreamInv
<1>1. UNCHANGED config /\ Streaming
  BY StreamMoves DEF Elsewhere
<1>2. ASSUME DocInv(doc'), UNCHANGED report PROVE StreamInv'
  BY <1>0, <1>1, <1>2, SameConfig, ReportAside DEF StreamInv
<1>3. ASSUME NEW w \in Worker,
             \/ \E fmt \in {"sarif", "html", "xlsx", "parquet"} :
                  StreamRefuses(w, fmt) \/ StreamDrops(w, fmt)
             \/ SarifWrite(w) \/ SarifWriteFails(w)
             \/ HtmlWrite(w) \/ HtmlWriteFails(w)
             \/ XlsxWrite(w) \/ XlsxWriteFails(w)
             \/ ParquetWrite(w) \/ ParquetWriteFails(w)
      PROVE  StreamInv'
  <2>1. CASE \E fmt \in {"sarif", "html", "xlsx", "parquet"} :
               StreamRefuses(w, fmt) \/ StreamDrops(w, fmt)
    BY <1>0, <1>2, <2>1 DEF StreamRefuses, StreamDrops, streamVars, sinkSame
  <2> QED BY <1>0, <1>2, <1>3, <2>1, SarifStep, HtmlStep, XlsxStep, ParquetStep
<1>4. ASSUME NEW fmt, TakeDocument(fmt) \/ CloseSinks(fmt) PROVE StreamInv'
  <2>1. UNCHANGED report
    BY <1>4 DEF TakeDocument, CloseSinks
  <2>2. \/ doc.stage = "open" /\ doc' = [doc EXCEPT !.stage = "taken"]
        \/ UNCHANGED doc
    BY <1>4 DEF TakeDocument, CloseSinks
  <2>3. DocInv(doc')
    BY <1>0, <2>2, TakenIs
  <2> QED BY <1>2, <2>1, <2>3
<1>5. ASSUME SarifSave \/ HtmlSave \/ XlsxSave \/ ParquetSave PROVE StreamInv'
  BY <1>0, <1>2, <1>5, SavedIs
<1>6. ASSUME StreamSaveFails \/ StreamRename PROVE StreamInv'
  <2>1. PICK b \in BOOLEAN : b = FALSE
    OBVIOUS
  <2>2. doc' = [doc EXCEPT !.stage = "over", !.tmp = b] /\ doc \in DocType
    BY <1>0, <1>6, <2>1 DEF StreamSaveFails, StreamRename, Over, DocInv
  <2>3. doc' \in DocType /\ doc'.stage = "over"
    BY ONLY <2>1, <2>2 DEF DocType
  <2>4. DocInv(doc')
    BY <2>3 DEF DocInv, Kept
  <2>5. CASE StreamSaveFails
    BY <1>2, <2>4, <2>5 DEF StreamSaveFails
  <2>6. CASE StreamRename
    <3>1. /\ doc.stage = "saved"
          /\ report' = [bytes |-> doc.bytes, rows |-> doc.rows, total |-> doc.total,
                        spoilt |-> doc.spoilt]
      BY <2>6 DEF StreamRename
    <3>2. Whole(doc)
      BY <1>0, <3>1 DEF DocInv
    <3>3. Whole(report')
      BY <3>1, <3>2, WholeIs
    <3>4. PublishedIsWhole'
      BY <1>1, <3>3, Zenon DEF PublishedIsWhole, Whole, WellFormed, Listed
    <3> QED BY <1>1, <2>4, <3>4, SameConfig DEF StreamInv
  <2> QED BY <1>6, <2>5, <2>6
<1> QED
  BY <1>3, <1>4, <1>5, <1>6
     DEF StreamNext, SarifFinalize, HtmlFinalize, XlsxFinalize, ParquetFinalize,
         SarifSweep, HtmlSweep, XlsxSweep, ParquetSweep,
         SarifClose, HtmlClose, XlsxClose, ParquetClose

\* A crash leaves no document; another replica's sweep may take its tempfile.
LEMMA StreamOtherKeeps ==
  ASSUME StreamInv, Crash \/ OtherStarts
  PROVE  StreamInv'
<1>0. DocInv(doc) /\ PublishedIsWhole
  BY DEF StreamInv
<1>1. UNCHANGED <<config, report>>
  BY DEF Crash, OtherStarts, procVars
<1>2. PublishedIsWhole'
  BY <1>0, <1>1, ReportAside
<1>3. CASE Crash
  <2>1. doc' = NoDocument /\ UNCHANGED othersUp
    BY <1>3 DEF Crash, StreamForget, fileVars
  <2>2. DocInv(NoDocument)
    BY NoDocumentTyped DEF DocInv, Kept
  <2> QED BY <1>1, <1>2, <2>1, <2>2, SameConfig DEF StreamInv
<1>4. CASE OtherStarts
  <2>1. /\ doc' = [doc EXCEPT !.tmp = @ /\ config.report \notin Swept]
        /\ othersUp' = TRUE
    BY <1>4 DEF OtherStarts
  <2>2. doc \in DocType /\ doc.tmp \in BOOLEAN
    BY <1>0 DEF DocInv, DocType
  <2>3. PICK b \in BOOLEAN : b = (doc.tmp /\ config.report \notin Swept)
    BY <2>2
  <2>4. doc' = [doc EXCEPT !.tmp = b]
    BY <2>1, <2>3
  <2>5. /\ doc' \in DocType /\ doc'.stage = doc.stage /\ doc'.tmp = b
        /\ doc'.bytes = doc.bytes /\ doc'.rows = doc.rows /\ doc'.first = doc.first
        /\ doc'.total = doc.total /\ doc'.spoilt = doc.spoilt
    BY ONLY <2>2, <2>4, b \in BOOLEAN DEF DocType
  <2>6. /\ doc.stage \in {"open", "taken"} => Filled(doc)
        /\ doc.stage = "saved" => Whole(doc)
        /\ Kept(doc)
    BY <1>0 DEF DocInv
  <2>7. Filled(doc) => Filled(doc')
    BY <2>5 DEF Filled, Begun
  <2>8. Whole(doc) => Whole(doc')
    BY <2>5, WholeIs
  <2>9. Kept(doc)'
    <3>1. config.report \in {"sarif", "html", "xlsx", "parquet"}
      BY <1>4 DEF OtherStarts
    <3>2. config.report \in {"sarif", "html"} => b = doc.tmp
      BY <2>2, <2>3 DEF Swept
    <3> QED BY <1>1, <2>1, <2>5, <2>6, <3>1, <3>2 DEF Kept
  <2>10. Filled(doc') => Filled(doc)'
    BY <1>1, Zenon DEF Filled, Begun, Inside, Listed
  <2>11. Whole(doc') => Whole(doc)'
    BY <1>1, Zenon DEF Whole, WellFormed, Listed
  <2>12. (doc \in DocType)'
    BY <2>5 DEF DocType, Token
  <2>13. DocInv(doc)'
    BY <2>5, <2>6, <2>7, <2>8, <2>9, <2>10, <2>11, <2>12 DEF DocInv
  <2> QED BY <1>2, <2>13 DEF StreamInv
<1> QED BY <1>3, <1>4

\* Every step of the directory keeps the documents as StreamInv says.
LEMMA StreamStepInv == DirInv /\ StreamInv /\ [Next]_vars => StreamInv'
<1> SUFFICES ASSUME DirInv, StreamInv, [Next]_vars PROVE StreamInv'
  OBVIOUS
<1>0. WhereInv /\ PdfInv /\ DocInv(doc) /\ PublishedIsWhole
  BY DEF DirInv, StreamInv
<1>1. ASSUME UNCHANGED <<config, doc, othersUp>>,
             UNCHANGED report \/ config.report = "pdf"
      PROVE  StreamInv'
  <2>1. DocInv(doc)'
    BY <1>0, <1>1, SameConfig
  <2>2. PublishedIsWhole'
    <3>1. CASE UNCHANGED report
      BY <1>0, <1>1, <3>1, ReportAside
    <3>2. CASE config.report = "pdf"
      BY <1>1, <3>2 DEF PublishedIsWhole, Streaming
    <3> QED BY <1>1, <3>1, <3>2
  <2> QED BY <2>1, <2>2 DEF StreamInv
<1>2. CASE LineNext
  BY <1>1, <1>2 DEF LineNext, AppendLine, AppendFails, AckFinding, Evict, procVars, streamVars,
                    fileVars
<1>3. CASE StreamNext /\ UNCHANGED <<accVars, retVars, fileVars>>
  BY <1>0, <1>3, StreamNextKeeps DEF fileVars
<1>4. CASE AccNext /\ UNCHANGED <<streamVars, retVars, fileVars>>
  BY <1>0, <1>1, <1>4, AccMoves DEF Elsewhere, streamVars, fileVars
<1>5. CASE RetentionNext /\ UNCHANGED <<streamVars, accVars, fileVars>>
  BY <1>1, <1>5 DEF RetentionNext, RetentionList, AgePass, AgeDone, SizePass, SizeDone,
                    SweepLogged, retSame, procVars, streamVars, fileVars
<1>6. CASE \E w \in Worker : SqliteWrite(w) \/ SqliteFails(w)
  BY <1>1, <1>6 DEF SqliteWrite, SqliteFails, sinkSame, procVars, streamVars
<1>7. CASE CloseOthers \/ (\E kept : Rebuild(kept)) \/ UNCHANGED vars
  BY <1>1, <1>7 DEF CloseOthers, Rebuild, vars, dirVars, procVars, streamVars, fileVars
<1>8. CASE Crash \/ OtherStarts
  BY <1>8, StreamOtherKeeps
<1>9. CASE Start
  BY <1>1, <1>9 DEF Start, streamVars, fileVars
<1> QED BY <1>2, <1>3, <1>4, <1>5, <1>6, <1>7, <1>8, <1>9 DEF Next

\* There is no document at the start.
LEMMA InitStreamInv == Init => StreamInv
<1> SUFFICES ASSUME Init PROVE StreamInv
  OBVIOUS
<1>1. doc = NoDocument /\ report = NoFile
  BY DEF Init, DirInit, StreamInit
<1>2. DocInv(doc)
  BY <1>1, NoDocumentTyped DEF DocInv, Kept
<1> QED BY <1>1, <1>2 DEF StreamInv, PublishedIsWhole

\* An open document is filled token by token, a saved and the published one are whole.
THEOREM StreamInvariant == Spec => []StreamInv
BY DirInvariant, InitStreamInv, StreamStepInv, PTL DEF Spec

\* A report that appears under its name is a whole document of the findings Write
\* accepted.
THEOREM DirPublished == Spec => []PublishedIsWhole
<1>1. StreamInv => PublishedIsWhole
  BY DEF StreamInv
<1> QED BY StreamInvariant, <1>1, PTL

\* A document keeps its tempfile until the rename.
THEOREM DirTempfile == Spec => []TempfileInUseIsKept
<1>1. StreamInv => TempfileInUseIsKept
  BY DEF StreamInv, DocInv, Kept, TempfileInUseIsKept, DocType
<1> QED BY StreamInvariant, <1>1, PTL

-----------------------------------------------------------------------------
(* The report of the accumulator.                                          *)

\* What ReportIsCurrent asks of the rows of a report, or of a snapshot.
Matches(rows, findings) ==
  /\ IsPrefix(rows, findings)
  /\ Len(rows) = Len(findings) \/ Len(rows) >= MaxPerScan

\* With nothing pending, the latest snapshot is the buffer, in flight or in the report.
CurrentInv ==
  /\ known = TRUE => config.report = "pdf"
  /\ known = TRUE /\ pending = 0 =>
       /\ fresh = TRUE => report # NoFile /\ Matches(report.rows, buf)
       /\ newest \in Flusher /\ flush[newest].stage # "none" => Matches(flush[newest].snap, buf)

\* A snapshot of the buffer matches it.
LEMMA MatchesItself ==
  ASSUME NEW s \in Seq(Finding)
  PROVE  Matches(s, s)
<1>1. Len(s) \in Nat
  OBVIOUS
<1> QED BY <1>1 DEF Matches, IsPrefix

\* It still does when a finding over the cap is left behind in the buffer.
LEMMA MatchesOverCap ==
  ASSUME NEW s \in Seq(Finding), NEW t \in Seq(Finding), Matches(s, t), NEW f \in Finding,
         Len(t) >= MaxPerScan
  PROVE  Matches(s, Append(t, f))
<1>1. /\ Len(s) \in Nat /\ Len(t) \in Nat /\ Len(s) <= Len(t)
      /\ SubSeq(s, 1, Len(s)) = SubSeq(t, 1, Len(s))
  BY DEF Matches, IsPrefix
<1>2. Len(Append(t, f)) = Len(t) + 1 /\ \A i \in 1 .. Len(t) : Append(t, f)[i] = t[i]
  BY AppendProperties
<1>3. SubSeq(Append(t, f), 1, Len(s)) = SubSeq(t, 1, Len(s))
  BY <1>1, <1>2
<1>4. IsPrefix(s, Append(t, f))
  BY <1>1, <1>2, <1>3 DEF IsPrefix
<1>5. Len(s) >= MaxPerScan
  BY <1>1, DirAssumption DEF Matches
<1> QED BY <1>4, <1>5 DEF Matches

\* The accumulator keeps the latest snapshot in step with its buffer.
LEMMA AccKeepsCurrent ==
  ASSUME WhereInv, PdfInv, CurrentInv, AccNext
  PROVE  CurrentInv'
<1>0. /\ config.report = "pdf" /\ UNCHANGED config /\ AccTypes
      /\ \A w \in Worker : hand[w].at # "idle" => hand[w].f \in Finding
      /\ \A w \in Worker : w \in Flusher
      /\ NoFlush.stage = "none" /\ "queued" # "none"
  BY AccMoves DEF PdfInv, WhereInv, Elsewhere, Flusher, NoFlush
<1>1. /\ flush \in [Flusher -> [stage : {"none", "queued", "saved"}, snap : Seq(Finding)]]
      /\ buf \in Seq(Finding) /\ pending \in Nat /\ (~known => buf = <<>>) /\ known \in BOOLEAN
  BY <1>0 DEF AccTypes
<1>2. ASSUME NEW w \in Worker, AddRefused(w) PROVE CurrentInv'
  BY <1>2 DEF AddRefused, accVars, bufVars, accSame, CurrentInv, Matches, IsPrefix
<1>3. ASSUME NEW w \in Worker, AddOverCap(w) PROVE CurrentInv'
  <2>1. /\ buf' = Added(w) /\ pending' = Count - 1 /\ Len(Added(w)) > MaxPerScan
        /\ hand[w].at = "pdf" /\ UNCHANGED <<report, flush, newest, fresh>>
    BY <1>3 DEF AddOverCap, Adding
  <2>2. hand[w].f \in Finding
    BY <1>0, <2>1
  <2>3. Added(w) = Append(buf, hand[w].f) /\ Len(Added(w)) = Len(buf) + 1 /\ Count = pending + 1
    BY <1>0, <2>2, AddedIs
  <2>4. Len(buf) >= MaxPerScan /\ pending' = pending /\ Len(buf) \in Nat
    BY <1>1, <2>1, <2>3, DirAssumption
  <2>5. known = TRUE
    <3>1. buf # <<>>
      BY <1>1, <2>4, DirAssumption
    <3> QED BY <1>1, <3>1
  <2>6. \A s \in Seq(Finding) : Matches(s, buf) => Matches(s, buf')
    BY <1>1, <2>1, <2>2, <2>3, <2>4, MatchesOverCap
  <2>7. report # NoFile => report.rows \in Seq(Finding)
    BY <1>0 DEF AccTypes
  <2>8. newest \in Flusher => flush[newest].snap \in Seq(Finding)
    BY <1>1
  <2>9. pending' = 0 =>
          /\ fresh = TRUE => report # NoFile /\ Matches(report.rows, buf')
          /\ newest \in Flusher /\ flush[newest].stage # "none" => Matches(flush[newest].snap, buf')
    BY <2>4, <2>5, <2>6, <2>7, <2>8 DEF CurrentInv
  <2> QED BY <1>0, <2>1, <2>9 DEF CurrentInv, Matches, IsPrefix
<1>4. ASSUME NEW w \in Worker, AddBuffered(w) PROVE CurrentInv'
  <2>1. pending' = Count /\ hand[w].at = "pdf"
    BY <1>4 DEF AddBuffered, Adding
  <2>2. pending' # 0
    BY <1>0, <1>1, <2>1, AddedIs
  <2> QED BY <1>0, <2>2 DEF CurrentInv
<1>5. ASSUME NEW x \in Flusher, NEW s \in Seq(Finding), Snapshot(x, s), buf' = s
      PROVE  CurrentInv'
  <2>1. newest' = x /\ fresh' = FALSE /\ flush'[x].snap = s
    BY <1>0, <1>5, SnapshotTaken DEF Snapshot
  <2>2. Matches(flush'[newest'].snap, buf')
    BY <1>5, <2>1, MatchesItself
  <2> QED BY <1>0, <2>1, <2>2 DEF CurrentInv, Matches, IsPrefix
<1>6. ASSUME NEW w \in Worker, AddFlushes(w) PROVE CurrentInv'
  <2>1. hand[w].at = "pdf" /\ buf' = Added(w) /\ Snapshot(w, Added(w))
    BY <1>6 DEF AddFlushes, Adding
  <2>2. Added(w) \in Seq(Finding)
    BY <1>0, <2>1, AddedIs
  <2> QED BY <1>0, <1>5, <2>1, <2>2
<1>7. ASSUME TickFlush PROVE CurrentInv'
  <2>1. Snapshot("ticker", buf) /\ buf' = buf /\ "ticker" \in Flusher
    BY <1>7 DEF TickFlush, Flusher
  <2> QED BY <1>1, <1>5, <2>1
<1>8. ASSUME Finalize PROVE CurrentInv'
  BY <1>0, <1>8 DEF Finalize, CurrentInv
<1>9. ASSUME Close PROVE CurrentInv'
  <2>1. UNCHANGED <<bufVars, report>>
    BY <1>9 DEF Close
  <2>2. CASE known /\ pending > 0
    BY <1>0, <2>1, <2>2 DEF CurrentInv, bufVars
  <2>3. CASE ~(known /\ pending > 0)
    BY <1>0, <1>9, <2>1, <2>3 DEF Close, CurrentInv, bufVars, Matches, IsPrefix
  <2> QED BY <2>2, <2>3
<1>10. ASSUME NEW x \in Flusher, Render(x) PROVE CurrentInv'
  <2>1. /\ UNCHANGED <<report, bufVars, newest, fresh>>
        /\ flush[x].stage = "queued" /\ flush' = [flush EXCEPT ![x].stage = "saved"]
    BY <1>10 DEF Render
  <2>2. \A y \in Flusher : flush'[y].snap = flush[y].snap
                           /\ (flush'[y].stage # "none" => flush[y].stage # "none")
    BY <1>1, <2>1
  <2> QED BY <1>0, <2>1, <2>2 DEF CurrentInv, bufVars, Matches, IsPrefix
<1>11. ASSUME NEW x \in Flusher, FlushFails(x) PROVE CurrentInv'
  <2>1. UNCHANGED <<report, bufVars, newest, fresh>> /\ Flushed(x)
    BY <1>11 DEF FlushFails
  <2>2. flush'[x].stage = "none" /\ \A y \in Flusher : y # x => flush'[y] = flush[y]
    BY <1>0, <2>1, FlushEnds
  <2> QED BY <1>0, <2>1, <2>2 DEF CurrentInv, bufVars, Matches, IsPrefix
<1>12. ASSUME NEW x \in Flusher, Rename(x) PROVE CurrentInv'
  <2>1. /\ UNCHANGED <<bufVars, newest>> /\ Flushed(x) /\ flush[x].stage = "saved"
        /\ report' = [rows |-> flush[x].snap] /\ fresh' = (x = newest)
    BY <1>12 DEF Rename
  <2>2. flush'[x].stage = "none" /\ \A y \in Flusher : y # x => flush'[y] = flush[y]
    BY <1>0, <2>1, FlushEnds
  <2>3. report' # NoFile /\ report'.rows = flush[x].snap
    <3>1. report' \in [rows : Seq(Finding)]
      BY <1>1, <2>1
    <3> QED BY <2>1, <3>1, DirAssumption
  <2>4. fresh' = TRUE => x = newest
    BY <2>1
  <2>5. known = TRUE /\ pending = 0 /\ x = newest => Matches(flush[x].snap, buf)
    BY <2>1 DEF CurrentInv
  <2> QED BY <1>0, <2>1, <2>2, <2>3, <2>4, <2>5 DEF CurrentInv, bufVars, Matches, IsPrefix
<1> QED
  BY <1>2, <1>3, <1>4, <1>6, <1>7, <1>8, <1>9, <1>10, <1>11, <1>12 DEF AccNext

\* So does every other step.
LEMMA CurrentStep == DirInv /\ CurrentInv /\ [Next]_vars => CurrentInv'
<1> SUFFICES ASSUME DirInv, CurrentInv, [Next]_vars PROVE CurrentInv'
  OBVIOUS
<1>0. WhereInv /\ PdfInv
  BY DEF DirInv
<1>1. ASSUME UNCHANGED accVars, UNCHANGED <<config, report>> PROVE CurrentInv'
  BY <1>1 DEF CurrentInv, accVars, bufVars, Matches, IsPrefix
<1>2. CASE LineNext
  BY <1>1, <1>2 DEF LineNext, AppendLine, AppendFails, AckFinding, Evict, procVars
<1>3. CASE StreamNext /\ UNCHANGED <<accVars, retVars, fileVars>>
  <2>1. Streaming /\ UNCHANGED config
    BY <1>0, <1>3, StreamMoves DEF Elsewhere
  <2>2. known # TRUE
    BY <2>1 DEF CurrentInv, Streaming
  <2> QED BY <1>3, <2>2 DEF accVars, bufVars, CurrentInv
<1>4. CASE AccNext
  BY <1>0, <1>4, AccKeepsCurrent
<1>5. CASE RetentionNext /\ UNCHANGED <<streamVars, accVars, fileVars>>
  BY <1>1, <1>5 DEF RetentionNext, RetentionList, AgePass, AgeDone, SizePass, SizeDone,
                    SweepLogged, retSame, procVars
<1>6. CASE \E w \in Worker : SqliteWrite(w) \/ SqliteFails(w)
  BY <1>1, <1>6 DEF SqliteWrite, SqliteFails, sinkSame, procVars
<1>7. CASE CloseOthers \/ (\E kept : Rebuild(kept)) \/ UNCHANGED vars
  BY <1>1, <1>7 DEF CloseOthers, Rebuild, vars, dirVars, procVars
<1>8. CASE Start \/ OtherStarts
  BY <1>1, <1>8 DEF Start, OtherStarts, procVars
<1>9. CASE Crash
  BY <1>9 DEF Crash, AccForget, CurrentInv
<1> QED BY <1>2, <1>3, <1>4, <1>5, <1>6, <1>7, <1>8, <1>9 DEF Next

LEMMA InitCurrent == Init => CurrentInv
BY DEF Init, AccInit, CurrentInv

\* The PDF on disk is the buffer once nothing is pending and the latest snapshot is in
\* place, for any batch size, any cap and however the renames overtake each other: a
\* finding is missing from it only when the cap refused it.
THEOREM DirCurrent == Spec => []ReportIsCurrent
<1>1. WhereInv /\ PdfInv /\ CurrentInv => ReportIsCurrent
  <2> SUFFICES ASSUME WhereInv, PdfInv, CurrentInv, known, pending = 0, fresh
               PROVE  Matches(report.rows, buf)
    BY DEF ReportIsCurrent, Matches
  <2> QED BY DEF CurrentInv
<1>2. DirInv => WhereInv /\ PdfInv
  BY DEF DirInv
<1> QED BY DirInvariant, InitCurrent, CurrentStep, <1>1, <1>2, PTL DEF Spec

-----------------------------------------------------------------------------
(* The retention sweep.                                                    *)

\* The pairs Sum counts.
Bytes(size, files) == UNION {{x} \X (1 .. size[x]) : x \in files}

\* A file has as many bytes as its size says.
LEMMA FileBytes ==
  ASSUME NEW x, NEW n \in Nat
  PROVE  IsFiniteSet({x} \X (1 .. n)) /\ Cardinality({x} \X (1 .. n)) = n
<1>1. IsFiniteSet({x}) /\ Cardinality({x}) = 1
  BY FS_Singleton
<1>2. IsFiniteSet(1 .. n) /\ Cardinality(1 .. n) = n
  BY FS_Interval
<1>3. /\ IsFiniteSet({x} \X (1 .. n))
      /\ Cardinality({x} \X (1 .. n)) = Cardinality({x}) * Cardinality(1 .. n)
  BY ONLY <1>1, <1>2, FS_Product, Zenon
<1>4. Cardinality({x} \X (1 .. n)) = 1 * n
  BY <1>1, <1>2, <1>3
<1> QED BY <1>3, <1>4

LEMMA BytesFinite ==
  ASSUME NEW size, NEW files, IsFiniteSet(files), \A x \in files : size[x] \in Nat
  PROVE  IsFiniteSet(Bytes(size, files))
<1> DEFINE Parts == {{x} \X (1 .. size[x]) : x \in files}
           part == [x \in files |-> {x} \X (1 .. size[x])]
<1>1. part \in Surjection(files, Parts)
  BY DEF Surjection
<1>2. IsFiniteSet(Parts)
  BY <1>1, FS_Surjection
<1>3. ASSUME NEW T \in Parts PROVE IsFiniteSet(T)
  <2>1. PICK x \in files : T = {x} \X (1 .. size[x])
    OBVIOUS
  <2>2. size[x] \in Nat
    OBVIOUS
  <2> QED BY ONLY <2>1, <2>2, FileBytes, Zenon
<1> HIDE DEF Parts
<1>4. IsFiniteSet(UNION Parts)
  BY <1>2, <1>3, FS_UNION
<1> QED BY <1>4 DEF Bytes, Parts

\* A file less, its bytes less.
LEMMA SumWithout ==
  ASSUME NEW size, NEW files, IsFiniteSet(files), \A y \in files : size[y] \in Nat,
         NEW x \in files
  PROVE  Sum(size, files) \in Nat /\ Sum(size, files \ {x}) = Sum(size, files) - size[x]
<1> DEFINE all == Bytes(size, files)
           its == {x} \X (1 .. size[x])
<1>1. IsFiniteSet(all)
  BY BytesFinite
<1>2. IsFiniteSet(its) /\ Cardinality(its) = size[x]
  BY FileBytes
<1>3. its \subseteq all
  BY DEF Bytes
<1>4. Bytes(size, files \ {x}) = all \ its
  <2>1. \A p : p \in all <=> \E y \in files : p \in {y} \X (1 .. size[y])
    BY DEF Bytes
  <2>2. \A p : p \in Bytes(size, files \ {x})
               <=> \E y \in files \ {x} : p \in {y} \X (1 .. size[y])
    BY DEF Bytes
  <2>3. \A y, p : p \in {y} \X (1 .. size[y]) => p[1] = y
    OBVIOUS
  <2> QED BY <2>1, <2>2, <2>3, SMTT(30)
<1> HIDE DEF all, its
<1>5. Cardinality(all \ its) = Cardinality(all) - Cardinality(all \cap its)
  BY <1>1, FS_Difference
<1>6. all \cap its = its
  BY <1>3
<1>7. Cardinality(all) \in Nat
  BY <1>1, FS_CardinalityType
<1>8. Sum(size, files) = Cardinality(all) /\ Sum(size, files \ {x}) = Cardinality(all \ its)
  BY <1>4, Zenon DEF Sum, Bytes, all
<1> QED BY <1>2, <1>5, <1>6, <1>7, <1>8

\* What is taken off an injective list is not in the rest.
LEMMA InjectiveTail ==
  ASSUME NEW S, NEW s \in Seq(S), s # <<>>, IsInjective(s)
  PROVE  /\ Head(s) \in S /\ Tail(s) \in Seq(S) /\ IsInjective(Tail(s))
         /\ ToSet(Tail(s)) = ToSet(s) \ {Head(s)} /\ Head(s) \in ToSet(s)
<1>1. /\ Head(s) \in S /\ Tail(s) \in Seq(S) /\ Len(Tail(s)) = Len(s) - 1
      /\ \A i \in 1 .. Len(Tail(s)) : Tail(s)[i] = s[i + 1]
  BY HeadTailProperties
<1>2. PICK n \in Nat : Len(s) = n + 1
  <2>1. Len(s) \in Nat \ {0}
    BY EmptySeq
  <2> QED BY <2>1
<1> DEFINE t == Tail(s)
<1>3. /\ t \in Seq(S) /\ Len(t) = n /\ DOMAIN t = 1 .. n /\ DOMAIN s = 1 .. (n + 1)
      /\ Head(s) = s[1] /\ \A i \in 1 .. n : t[i] = s[i + 1]
  BY <1>1, <1>2
<1> HIDE DEF t
<1>4. \A i, j \in 1 .. (n + 1) : s[i] = s[j] => i = j
  BY <1>3 DEF IsInjective
<1>5. IsInjective(t)
  BY <1>3, <1>4 DEF IsInjective
<1>6. ToSet(t) = ToSet(s) \ {Head(s)}
  <2>1. \A e : e \in ToSet(t) <=> \E i \in 1 .. n : e = s[i + 1]
    BY <1>3 DEF ToSet
  <2>2. \A e : e \in ToSet(s) <=> \E i \in 1 .. (n + 1) : e = s[i]
    BY <1>3 DEF ToSet
  <2>3. ASSUME NEW e \in ToSet(t) PROVE e \in ToSet(s) \ {Head(s)}
    <3>1. PICK i \in 1 .. n : e = s[i + 1]
      BY <2>1
    <3>2. i + 1 \in 1 .. (n + 1) /\ i + 1 # 1 /\ 1 \in 1 .. (n + 1)
      OBVIOUS
    <3> QED BY <1>3, <1>4, <2>2, <3>1, <3>2
  <2>4. ASSUME NEW e \in ToSet(s) \ {Head(s)} PROVE e \in ToSet(t)
    <3>1. PICK i \in 1 .. (n + 1) : e = s[i]
      BY <2>2
    <3>2. i # 1
      BY <1>3, <3>1
    <3>3. i - 1 \in 1 .. n /\ i - 1 + 1 = i
      BY <3>2
    <3> QED BY <2>1, <3>1, <3>3
  <2> QED BY <2>3, <2>4
<1>7. Head(s) \in ToSet(s)
  BY <1>3 DEF ToSet
<1> QED BY <1>1, <1>5, <1>6, <1>7 DEF t

\* A new element keeps a list injective.
LEMMA InjectiveAppend ==
  ASSUME NEW S, NEW s \in Seq(S), NEW e \in S, IsInjective(s), e \notin ToSet(s)
  PROVE  /\ Append(s, e) \in Seq(S) /\ IsInjective(Append(s, e))
         /\ ToSet(Append(s, e)) = ToSet(s) \cup {e}
<1> DEFINE t == Append(s, e)
           n == Len(s)
<1>1. /\ n \in Nat /\ DOMAIN s = 1 .. n /\ t \in Seq(S) /\ DOMAIN t = 1 .. (n + 1)
      /\ t[n + 1] = e /\ \A i \in 1 .. n : t[i] = s[i]
  OBVIOUS
<1> HIDE DEF t, n
<1>2. \A i \in 1 .. n : s[i] # e
  BY <1>1 DEF ToSet
<1>3. IsInjective(t)
  <2> SUFFICES ASSUME NEW a \in 1 .. (n + 1), NEW b \in 1 .. (n + 1), t[a] = t[b] PROVE a = b
    BY <1>1 DEF IsInjective
  <2>1. CASE a \in 1 .. n /\ b \in 1 .. n
    BY <1>1, <2>1 DEF IsInjective
  <2>2. CASE a \notin 1 .. n \/ b \notin 1 .. n
    BY <1>1, <1>2, <2>2
  <2> QED BY <2>1, <2>2
<1>4. ToSet(t) = ToSet(s) \cup {e}
  BY <1>1 DEF ToSet
<1> QED BY <1>1, <1>3, <1>4 DEF t

\* An injective sequence is as long as its set is large.
LEMMA InjectiveLength ==
  ASSUME NEW S, NEW s \in Seq(S), IsInjective(s)
  PROVE  Cardinality(ToSet(s)) = Len(s)
<1>1. Len(s) \in Nat /\ DOMAIN s = 1 .. Len(s)
  OBVIOUS
<1>2. s \in Bijection(1 .. Len(s), ToSet(s))
  <2>1. s \in [1 .. Len(s) -> ToSet(s)]
    BY <1>1 DEF ToSet
  <2> QED BY <1>1, <2>1 DEF Bijection, Injection, Surjection, IsInjective, ToSet
<1>3. ExistsBijection(1 .. Len(s), ToSet(s))
  BY <1>2 DEF ExistsBijection
<1> QED BY <1>1, <1>3, FS_CountingElements

\* Every order of a finite set lists it all.
LEMMA OrderIs ==
  ASSUME NEW S, IsFiniteSet(S), NEW s \in SetToSeqs(S)
  PROVE  s \in Seq(S) /\ IsInjective(s) /\ ToSet(s) = S
<1>1. Cardinality(S) \in Nat
  BY FS_CardinalityType
<1> DEFINE n == Cardinality(S)
<1>2. s \in [1 .. n -> S] /\ \A i, j \in 1 .. n : i # j => s[i] # s[j]
  BY DEF SetToSeqs
<1> HIDE DEF n
<1>3. s \in Seq(S) /\ DOMAIN s = 1 .. n
  BY <1>1, <1>2, SeqDef DEF n
<1>4. IsInjective(s)
  BY <1>2, <1>3 DEF IsInjective
<1>5. ToSet(s) \subseteq S
  BY <1>2, <1>3 DEF ToSet
<1>6. Len(s) = n
  BY <1>1, <1>3 DEF n
<1>7. Cardinality(ToSet(s)) = Cardinality(S)
  BY <1>3, <1>4, <1>6, InjectiveLength DEF n
<1>8. ToSet(s) = S
  BY <1>5, <1>7, FS_Subset
<1> QED BY <1>3, <1>4, <1>8

File == OtherFile \cup {"ndjson"}

SweepType == [stage : {"none", "age", "size", "done"}, todo : Seq(File), cut : Nat,
              kept : Seq(File), size : UNION {[D -> Nat] : D \in SUBSET File}, total : Int,
              gone : SUBSET File]

\* What the pass has still to look at and what it kept are, each once, the files it
\* listed and did not remove.
Accounted(s) ==
  /\ IsInjective(s.todo) /\ IsInjective(s.kept)
  /\ ToSet(s.todo) \cap ToSet(s.kept) = {}
  /\ ToSet(s.todo) \cup ToSet(s.kept) = DOMAIN s.size \ s.gone

\* The size pass has counted them, and stops within its budget or with nothing to do.
Counted(s) ==
  /\ s.stage \in {"size", "done"} => s.total = Sum(s.size, DOMAIN s.size \ s.gone)
  /\ s.stage = "done" => ~(MaxBytes > 0 /\ s.total > MaxBytes /\ s.todo # <<>>)

PassInv(s) == s \in SweepType /\ Accounted(s) /\ Counted(s)

SweepInv == others \subseteq OtherFile /\ PassInv(sweep)

LEMMA FilesFinite ==
  ASSUME NEW s \in SweepType
  PROVE  /\ DOMAIN s.size \subseteq File /\ IsFiniteSet(DOMAIN s.size \ s.gone)
         /\ \A x \in DOMAIN s.size : s.size[x] \in Nat
<1>1. IsFiniteSet(File)
  BY FS_AddElement, RetentionAssumption DEF File
<1>2. PICK D \in SUBSET File : s.size \in [D -> Nat]
  BY DEF SweepType
<1>3. DOMAIN s.size = D
  BY <1>2
<1>4. DOMAIN s.size \ s.gone \in SUBSET File
  BY <1>3
<1>5. IsFiniteSet(DOMAIN s.size \ s.gone)
  BY <1>1, <1>4, FS_Subset
<1> QED BY <1>2, <1>3, <1>5

\* Before the first pass there is nothing to account for.
LEMMA NoSweepIs == PassInv(NoSweep)
<1>1. NoSweep \in SweepType
  <2>1. [x \in {} |-> 0] \in UNION {[D -> Nat] : D \in SUBSET File}
    OBVIOUS
  <2> QED BY <2>1, EmptySeq DEF NoSweep, SweepType
<1>2. NoSweep.todo = <<>> /\ NoSweep.kept = <<>> /\ NoSweep.stage = "none"
      /\ NoSweep.size = [x \in {} |-> 0]
  BY DEF NoSweep
<1>3. DOMAIN <<>> = {}
  OBVIOUS
<1>4. Accounted(NoSweep)
  BY <1>2, <1>3 DEF Accounted, IsInjective, ToSet
<1> QED BY <1>1, <1>2, <1>4 DEF PassInv, Counted

\* A pass begins with all it listed to look at.
LEMMA ListingKeeps ==
  ASSUME SweepInv, ndjson = NoFile \/ ndjson \in Seq(Finding \cup {Torn}), RetentionList
  PROVE  PassInv(sweep')
<1>1. PICK order \in SetToSeqs(Listing), cut \in 0 .. Cardinality(Listing) :
        sweep' = [NoSweep EXCEPT !.stage = "age", !.todo = order, !.cut = cut, !.size = SizeOf]
  BY DEF RetentionList
<1>2. Listing \subseteq File /\ IsFiniteSet(Listing) /\ Cardinality(Listing) \in Nat
  <2>1. IsFiniteSet(File)
    BY FS_AddElement, RetentionAssumption DEF File
  <2>2. Listing \in SUBSET File
    BY DEF SweepInv, Listing, File
  <2>3. IsFiniteSet(Listing)
    BY <2>1, <2>2, FS_Subset
  <2> QED BY <2>2, <2>3, FS_CardinalityType
<1>3. order \in Seq(Listing) /\ IsInjective(order) /\ ToSet(order) = Listing
  BY <1>2, OrderIs
<1>4. cut \in Nat /\ order \in Seq(File)
  BY <1>2, <1>3, SeqMonotonic
<1>5. SizeOf \in [Listing -> Nat] /\ SizeOf \in UNION {[D -> Nat] : D \in SUBSET File}
  <2>1. \A x \in Listing : (IF x = "ndjson" THEN Len(ndjson) ELSE 1) \in Nat
    BY LenProperties, RetentionAssumption DEF Listing, SweepInv
  <2>2. SizeOf \in [Listing -> Nat]
    BY <2>1 DEF SizeOf
  <2> QED BY <1>2, <2>2
<1>6. PICK size \in UNION {[D -> Nat] : D \in SUBSET File} : size = SizeOf
  BY <1>5
<1>7. sweep' = [stage |-> "age", todo |-> order, cut |-> cut, kept |-> <<>>, size |-> size,
                total |-> 0, gone |-> {}]
  BY <1>1, <1>6 DEF NoSweep
<1>8. sweep' \in SweepType
  BY <1>4, <1>7, EmptySeq DEF SweepType
<1>9. sweep'.stage = "age" /\ sweep'.todo = order /\ sweep'.kept = <<>> /\ sweep'.size = size
      /\ sweep'.gone = {}
  BY <1>7
<1>10. DOMAIN sweep'.size = Listing
  BY <1>5, <1>6, <1>9
<1>11. ToSet(<<>>) = {} /\ IsInjective(<<>>)
  BY DEF ToSet, IsInjective
<1>12. Accounted(sweep')
  BY <1>3, <1>9, <1>10, <1>11 DEF Accounted
<1> QED BY <1>8, <1>9, <1>12 DEF PassInv, Counted

\* One file further: removed, or kept.
LEMMA FileKeeps ==
  ASSUME PassInv(sweep), sweep.todo # <<>>, NEW x, x = Head(sweep.todo),
         NEW s \in SweepType, s.stage = sweep.stage, s.todo = Tail(sweep.todo),
         s.size = sweep.size,
         \/ s.kept = Append(sweep.kept, x) /\ s.gone = sweep.gone
         \/ s.kept = sweep.kept /\ s.gone = sweep.gone \cup {x}
  PROVE  Accounted(s) /\ x \in DOMAIN sweep.size \ sweep.gone
<1>1. sweep.todo \in Seq(File) /\ sweep.kept \in Seq(File) /\ Accounted(sweep)
  BY DEF PassInv, SweepType
<1>2. /\ x \in File /\ IsInjective(s.todo) /\ x \in ToSet(sweep.todo)
      /\ ToSet(s.todo) = ToSet(sweep.todo) \ {x}
  BY <1>1, InjectiveTail DEF Accounted
<1>3. x \notin ToSet(sweep.kept) /\ IsInjective(sweep.kept)
  BY <1>1, <1>2 DEF Accounted
<1>4. CASE s.kept = Append(sweep.kept, x) /\ s.gone = sweep.gone
  <2>1. IsInjective(s.kept) /\ ToSet(s.kept) = ToSet(sweep.kept) \cup {x}
    BY <1>1, <1>2, <1>3, <1>4, InjectiveAppend
  <2> QED BY <1>1, <1>2, <1>3, <1>4, <2>1 DEF Accounted
<1>5. CASE s.kept = sweep.kept /\ s.gone = sweep.gone \cup {x}
  BY <1>1, <1>2, <1>3, <1>5 DEF Accounted
<1> QED BY <1>4, <1>5

\* The age pass removes a file, keeps it, or fails to remove it and keeps it.
LEMMA AgeKeeps ==
  ASSUME PassInv(sweep), AgePass
  PROVE  PassInv(sweep')
<1>1. sweep.stage = "age" /\ sweep.todo # <<>> /\ sweep \in SweepType
  BY DEF AgePass, PassInv
<1>2. PICK x : x = Head(sweep.todo)
  OBVIOUS
<1>3. PICK cut \in Nat : cut = IF sweep.cut = 0 THEN 0 ELSE sweep.cut - 1
  BY <1>1 DEF SweepType
<1>4. PICK next : next = [sweep EXCEPT !.todo = Tail(@), !.cut = cut]
  OBVIOUS
<1>5. \/ sweep' = [next EXCEPT !.gone = @ \cup {x}]
      \/ sweep' = [next EXCEPT !.kept = Append(@, x)]
  <2>1. next = [sweep EXCEPT !.todo = Tail(@), !.cut = IF @ = 0 THEN 0 ELSE @ - 1]
    BY <1>1, <1>3, <1>4 DEF SweepType
  <2> QED BY <1>2, <2>1, Zenon DEF AgePass
<1>6. x \in File /\ Tail(sweep.todo) \in Seq(File) /\ Append(sweep.kept, x) \in Seq(File)
  BY <1>1, <1>2, HeadTailProperties, AppendProperties DEF SweepType
<1>7. /\ next \in SweepType /\ next.stage = "age" /\ next.todo = Tail(sweep.todo)
      /\ next.kept = sweep.kept /\ next.size = sweep.size /\ next.gone = sweep.gone
  BY <1>1, <1>4, <1>6 DEF SweepType
<1>8. CASE sweep' = [next EXCEPT !.gone = @ \cup {x}]
  <2>1. sweep.todo \in Seq(File) /\ x \in ToSet(sweep.todo)
    BY <1>1, <1>2, InjectiveTail DEF SweepType, PassInv, Accounted
  <2>2. /\ sweep' \in SweepType /\ sweep'.stage = "age" /\ sweep'.todo = Tail(sweep.todo)
        /\ sweep'.kept = sweep.kept /\ sweep'.size = sweep.size
        /\ sweep'.gone = sweep.gone \cup {x}
    BY <1>6, <1>7, <1>8 DEF SweepType
  <2>3. Accounted(sweep')
    BY <1>1, <1>2, <2>2, FileKeeps
  <2> QED BY <2>2, <2>3 DEF PassInv, Counted
<1>9. CASE sweep' = [next EXCEPT !.kept = Append(@, x)]
  <2>1. /\ sweep' \in SweepType /\ sweep'.stage = "age" /\ sweep'.todo = Tail(sweep.todo)
        /\ sweep'.kept = Append(sweep.kept, x) /\ sweep'.size = sweep.size
        /\ sweep'.gone = sweep.gone
    BY <1>6, <1>7, <1>9 DEF SweepType
  <2>2. Accounted(sweep')
    BY <1>1, <1>2, <2>1, FileKeeps
  <2> QED BY <2>1, <2>2 DEF PassInv, Counted
<1> QED BY <1>5, <1>8, <1>9

\* The size pass begins with the bytes of what the age pass kept.
LEMMA AgeDoneKeeps ==
  ASSUME PassInv(sweep), AgeDone
  PROVE  PassInv(sweep')
<1>1. sweep.todo = <<>> /\ sweep \in SweepType /\ Accounted(sweep)
  BY DEF AgeDone, PassInv
<1>2. ToSet(<<>>) = {} /\ IsInjective(<<>>) /\ <<>> \in Seq(File)
  BY EmptySeq DEF ToSet, IsInjective
<1>3. ToSet(sweep.kept) = DOMAIN sweep.size \ sweep.gone
  BY <1>1, <1>2 DEF Accounted
<1>4. PICK total \in Int : total = Sum(sweep.size, ToSet(sweep.kept))
  <2>1. IsFiniteSet(DOMAIN sweep.size \ sweep.gone)
        /\ \A x \in DOMAIN sweep.size \ sweep.gone : sweep.size[x] \in Nat
    BY <1>1, FilesFinite
  <2>2. IsFiniteSet(Bytes(sweep.size, ToSet(sweep.kept)))
    BY <1>3, <2>1, BytesFinite
  <2>3. Cardinality(Bytes(sweep.size, ToSet(sweep.kept))) \in Nat
    BY <2>2, FS_CardinalityType
  <2> QED BY <2>3, SMTT(30) DEF Sum, Bytes
<1>5. sweep' = [sweep EXCEPT !.stage = "size", !.todo = sweep.kept, !.kept = <<>>, !.total = total]
  BY <1>4 DEF AgeDone
<1>6. /\ sweep' \in SweepType /\ sweep'.stage = "size" /\ sweep'.todo = sweep.kept
      /\ sweep'.kept = <<>> /\ sweep'.total = total /\ sweep'.size = sweep.size
      /\ sweep'.gone = sweep.gone
  BY <1>1, <1>2, <1>5 DEF SweepType
<1>7. Accounted(sweep')
  BY <1>1, <1>2, <1>3, <1>6 DEF Accounted
<1> QED BY <1>3, <1>4, <1>6, <1>7 DEF PassInv, Counted

\* The size pass takes what it removes off its total.
LEMMA SizeKeeps ==
  ASSUME PassInv(sweep), SizePass
  PROVE  PassInv(sweep')
<1>1. /\ sweep.stage = "size" /\ sweep.todo # <<>> /\ sweep \in SweepType
      /\ sweep.total = Sum(sweep.size, DOMAIN sweep.size \ sweep.gone)
  BY DEF SizePass, OverBudget, PassInv, Counted
<1>2. PICK x : x = Head(sweep.todo)
  OBVIOUS
<1>3. PICK next : next = [sweep EXCEPT !.todo = Tail(@)]
  OBVIOUS
<1>4. \/ sweep' = [next EXCEPT !.total = @ - sweep.size[x], !.gone = @ \cup {x}]
      \/ sweep' = [next EXCEPT !.kept = Append(@, x)]
  BY <1>2, <1>3, Zenon DEF SizePass
<1>5. x \in File /\ Tail(sweep.todo) \in Seq(File) /\ Append(sweep.kept, x) \in Seq(File)
  BY <1>1, <1>2, HeadTailProperties, AppendProperties DEF SweepType
<1>6. /\ next \in SweepType /\ next.stage = "size" /\ next.todo = Tail(sweep.todo)
      /\ next.kept = sweep.kept /\ next.size = sweep.size /\ next.gone = sweep.gone
      /\ next.total = sweep.total
  BY <1>1, <1>3, <1>5 DEF SweepType
<1>7. CASE sweep' = [next EXCEPT !.total = @ - sweep.size[x], !.gone = @ \cup {x}]
  <2>1. x \in ToSet(sweep.todo)
    <3>1. sweep.todo \in Seq(File) /\ IsInjective(sweep.todo)
      BY <1>1 DEF SweepType, PassInv, Accounted
    <3> QED BY <1>1, <1>2, <3>1, InjectiveTail
  <2>2. x \in DOMAIN sweep.size \ sweep.gone
    BY <2>1 DEF PassInv, Accounted
  <2>3. /\ Sum(sweep.size, DOMAIN sweep.size \ sweep.gone) \in Nat
        /\ Sum(sweep.size, (DOMAIN sweep.size \ sweep.gone) \ {x})
             = Sum(sweep.size, DOMAIN sweep.size \ sweep.gone) - sweep.size[x]
    BY <1>1, <2>2, FilesFinite, SumWithout
  <2>4. sweep.size[x] \in Nat
    BY <1>1, <2>2, FilesFinite
  <2>5. PICK total \in Int : total = sweep.total - sweep.size[x]
    BY <1>1, <2>3, <2>4
  <2>6. sweep' = [next EXCEPT !.total = total, !.gone = @ \cup {x}]
    BY <1>6, <1>7, <2>5
  <2>7. /\ sweep' \in SweepType /\ sweep'.stage = "size" /\ sweep'.todo = Tail(sweep.todo)
        /\ sweep'.kept = sweep.kept /\ sweep'.size = sweep.size
        /\ sweep'.gone = sweep.gone \cup {x} /\ sweep'.total = total
    BY <1>5, <1>6, <2>6 DEF SweepType
  <2>8. Accounted(sweep')
    BY <1>1, <1>2, <2>7, FileKeeps
  <2>9. DOMAIN sweep'.size \ sweep'.gone = (DOMAIN sweep.size \ sweep.gone) \ {x}
    BY <2>7
  <2>10. sweep'.total = Sum(sweep'.size, DOMAIN sweep'.size \ sweep'.gone)
    BY <1>1, <2>3, <2>5, <2>7, <2>9
  <2> QED BY <2>7, <2>8, <2>10 DEF PassInv, Counted
<1>8. CASE sweep' = [next EXCEPT !.kept = Append(@, x)]
  <2>1. /\ sweep' \in SweepType /\ sweep'.stage = "size" /\ sweep'.todo = Tail(sweep.todo)
        /\ sweep'.kept = Append(sweep.kept, x) /\ sweep'.size = sweep.size
        /\ sweep'.gone = sweep.gone /\ sweep'.total = sweep.total
    BY <1>5, <1>6, <1>8 DEF SweepType
  <2>2. Accounted(sweep')
    BY <1>1, <1>2, <2>1, FileKeeps
  <2> QED BY <1>1, <2>1, <2>2 DEF PassInv, Counted
<1> QED BY <1>4, <1>7, <1>8

\* It stops within the budget or when it has tried every file.
LEMMA SizeDoneKeeps ==
  ASSUME PassInv(sweep), SizeDone
  PROVE  PassInv(sweep')
<1>1. /\ sweep \in SweepType /\ Accounted(sweep) /\ sweep.stage = "size"
      /\ sweep.total = Sum(sweep.size, DOMAIN sweep.size \ sweep.gone)
      /\ ~(MaxBytes > 0 /\ sweep.total > MaxBytes /\ sweep.todo # <<>>)
      /\ sweep' = [sweep EXCEPT !.stage = "done"]
  BY DEF SizeDone, PassInv, Counted, OverBudget
<1>2. /\ sweep' \in SweepType /\ sweep'.stage = "done" /\ sweep'.todo = sweep.todo
      /\ sweep'.kept = sweep.kept /\ sweep'.size = sweep.size /\ sweep'.gone = sweep.gone
      /\ sweep'.total = sweep.total
  BY <1>1 DEF SweepType
<1> QED BY <1>1, <1>2 DEF PassInv, Accounted, Counted

\* Every step of the directory keeps the account.
LEMMA SweepStep == DirInv /\ SweepInv /\ [Next]_vars => SweepInv'
<1> SUFFICES ASSUME DirInv, SweepInv, [Next]_vars PROVE SweepInv'
  OBVIOUS
<1>0. PassInv(sweep) /\ others \subseteq OtherFile
      /\ (ndjson = NoFile \/ ndjson \in Seq(Finding \cup {Torn}))
  BY DEF SweepInv, DirInv, LineInv
<1>1. ASSUME PassInv(sweep'), others' \subseteq others PROVE SweepInv'
  BY <1>0, <1>1 DEF SweepInv, PassInv, Accounted, Counted, SweepType
<1>2. CASE RetentionNext
  <2>1. others' \subseteq others
    BY <1>2 DEF RetentionNext, RetentionList, AgePass, AgeDone, SizePass, SizeDone, SweepLogged,
                Unlink
  <2>2. CASE RetentionList
    BY <1>0, <1>1, <2>1, <2>2, ListingKeeps
  <2>3. CASE AgePass
    BY <1>0, <1>1, <2>1, <2>3, AgeKeeps
  <2>4. CASE AgeDone
    BY <1>0, <1>1, <2>1, <2>4, AgeDoneKeeps
  <2>5. CASE SizePass
    BY <1>0, <1>1, <2>1, <2>5, SizeKeeps
  <2>6. CASE SizeDone
    BY <1>0, <1>1, <2>1, <2>6, SizeDoneKeeps
  <2>7. CASE SweepLogged
    <3>1. sweep' = NoSweep
      BY <2>7 DEF SweepLogged
    <3> QED BY <1>1, <2>1, <3>1, NoSweepIs
  <2> QED BY <1>2, <2>2, <2>3, <2>4, <2>5, <2>6, <2>7 DEF RetentionNext
<1>3. CASE Crash
  <2>1. sweep' = NoSweep /\ others' = others
    BY <1>3 DEF Crash, RetForget
  <2> QED BY <1>1, <2>1, NoSweepIs
<1>4. CASE UNCHANGED <<sweep, others>>
  BY <1>0, <1>1, <1>4
<1>5. \/ RetentionNext \/ Crash
      \/ UNCHANGED retVars
  BY DEF Next, LineNext, SqliteWrite, SqliteFails, CloseOthers, Start, OtherStarts, Rebuild, vars
<1> QED BY <1>2, <1>3, <1>4, <1>5 DEF retVars

LEMMA InitSweep == Init => SweepInv
BY NoSweepIs DEF Init, RetInit, SweepInv

\* The statistics of a finished retention pass are true of the files it listed, and it
\* stops over its budget only when it could remove nothing of what is left: for any files
\* of any size, any budget, and whatever is written meanwhile.
THEOREM DirSweep == Spec => []SweepTellsTheTruth
<1>1. SweepInv => SweepTellsTheTruth
  <2> SUFFICES ASSUME SweepInv, sweep.stage = "done"
               PROVE  /\ sweep.total = Sum(sweep.size, DOMAIN sweep.size \ sweep.gone)
                      /\ sweep.kept = <<>> =>
                           Len(sweep.todo) = Cardinality(DOMAIN sweep.size \ sweep.gone)
                      /\ MaxBytes > 0 /\ sweep.total > MaxBytes =>
                           DOMAIN sweep.size \ sweep.gone = ToSet(sweep.kept)
    BY DEF SweepTellsTheTruth, RemainingBytes, RemainingFiles
  <2>1. sweep \in SweepType /\ Accounted(sweep) /\ Counted(sweep)
    BY DEF SweepInv, PassInv
  <2>2. ToSet(<<>>) = {}
    BY DEF ToSet
  <2>3. sweep.todo \in Seq(File) /\ IsInjective(sweep.todo)
    BY <2>1 DEF SweepType, Accounted
  <2>4. Cardinality(ToSet(sweep.todo)) = Len(sweep.todo)
    BY <2>3, InjectiveLength
  <2> QED BY <2>1, <2>2, <2>4 DEF Accounted, Counted
<1> QED BY DirInvariant, InitSweep, SweepStep, <1>1, PTL DEF Spec

-----------------------------------------------------------------------------
(* writer-rebuild.                                                         *)

\* A rebuild finds the rows of whole lines, and nothing else touches its report.
LEMMA RebuildStep == DirInv /\ RebuildIsComplete /\ [Next]_vars => RebuildIsComplete'
<1> SUFFICES ASSUME DirInv, RebuildIsComplete, [Next]_vars PROVE RebuildIsComplete'
  OBVIOUS
<1>1. expired \subseteq expired' /\ adrift \subseteq adrift'
  <2>1. CASE RetentionNext
    BY <2>1 DEF RetentionNext, RetentionList, AgePass, AgeDone, SizePass, SizeDone, SweepLogged,
                Unlink, lineVars
  <2>2. CASE LineNext
    BY <2>2 DEF LineNext, AppendLine, AppendFails, AckFinding, Evict, AppendToken, lineVars, retVars
  <2>3. CASE StreamNext /\ UNCHANGED retVars
    BY <2>3, StreamMoves DEF DirInv, Elsewhere, retVars
  <2>4. CASE AccNext /\ UNCHANGED retVars
    BY <2>4, AccMoves DEF DirInv, Elsewhere, retVars
  <2>5. CASE UNCHANGED <<expired, adrift>>
    BY <2>5
  <2>6. \/ RetentionNext \/ LineNext \/ (StreamNext /\ UNCHANGED retVars)
        \/ (AccNext /\ UNCHANGED retVars) \/ UNCHANGED <<expired, adrift>>
    BY DEF Next, SqliteWrite, SqliteFails, sinkSame, CloseOthers, CloseLines, Start, OtherStarts,
           Crash, RetForget, Rebuild, vars, dirVars, lineVars, retVars
  <2> QED BY <2>1, <2>2, <2>3, <2>4, <2>5, <2>6
<1>2. CASE UNCHANGED rebuilt
  BY <1>1, <1>2 DEF RebuildIsComplete
<1>3. ASSUME NEW kept, Rebuild(kept) PROVE RebuildIsComplete'
  <2>1. /\ rebuilt'.acked = acked \cap kept /\ rebuilt'.rows = ToSet(ndjson) \cap kept
        /\ ndjson # NoFile
    BY <1>3 DEF Rebuild, Replay
  <2>2. ASSUME NEW f \in acked PROVE f \in ToSet(ndjson) \cup expired \cup adrift
    <3>1. OnDisk(f)
      BY DEF DirInv, LineInv
    <3> QED BY <3>1 DEF OnDisk, Legible, ToSet
  <2> QED BY <1>1, <2>1, <2>2 DEF RebuildIsComplete
<1>4. UNCHANGED rebuilt \/ \E kept : Rebuild(kept)
  BY DEF Next, LineNext, SqliteWrite, SqliteFails, CloseOthers, Start, OtherStarts, Crash, fileVars,
         vars
<1> QED BY <1>2, <1>3, <1>4

\* A report rebuilt from the NDJSON file has every acknowledged finding of the kept
\* severities, but for those whose lines retention took away.
THEOREM DirRebuild == Spec => []RebuildIsComplete
<1>1. Init => RebuildIsComplete
  BY DEF Init, NotRebuilt, RebuildIsComplete
<1> QED BY DirInvariant, RebuildStep, <1>1, PTL DEF Spec

=============================================================================
