------------------------------- MODULE OutputDir -------------------------------
(***************************************************************************)
(* The findings directory of the writer, as one scan sees it: the NDJSON   *)
(* file every finding is appended to before it is handed to the report     *)
(* sink, the tempfile of the report being made, and the published report.  *)
(* StreamedReports, Accumulator and Retention add the sinks and the        *)
(* sweeper that share this state; FindingsDir composes them.               *)
(*                                                                         *)
(* A file is a sequence of what was written to it: a finding stands for    *)
(* its whole line or row, Torn for one cut short by a failing write.       *)
(***************************************************************************)
EXTENDS Naturals, Sequences, FiniteSets, SequencesExt

CONSTANTS
  Finding,      \* the findings of the scan
  Worker,       \* goroutines that take findings through the sinks
  Config,       \* the configurations tried: the report sink, retention on or off,
                \* and three bounds: whether NDJSON appends fail and fds are
                \* evicted, the workers that run, the times the writer starts
  NoFinding, NoFile, Torn,
  MaxPerScan,   \* BatchConfig.MaxPerScan
  MaxTries      \* bound: deliveries of one finding

Format == {"none", "sarif", "html", "xlsx", "parquet", "pdf", "sqlite"}

ASSUME DirAssumption ==
  /\ Config \subseteq [report : Format, retention : BOOLEAN,
                      shaky : BOOLEAN, crew : SUBSET Worker, lives : Nat]
  /\ NoFinding \notin Finding /\ Torn \notin Finding
  /\ NoFile \notin Seq(Finding \cup {Torn}) \cup [rows : Seq(Finding)]
  /\ MaxPerScan \in Nat \ {0}
  /\ MaxTries \in Nat

VARIABLES
  config,    \* writer.yaml, fixed at the start
  up,        \* the process runs
  starts,    \* times it was started
  closed,    \* the sinks were closed
  hand,      \* the finding each worker carries, and where it stands
  tries,     \* deliveries of each finding so far
  acked,     \* findings whose message was acknowledged
  ndjson,    \* <scan_id>.ndjson
  handle,    \* NDJSONFile.files: no fd, an fd on the file, or on an unlinked one
  adrift,    \* history: findings appended to a file that has no name any more
  report,    \* <scan_id>.<ext>
  orphan     \* a dead process's tempfile is left in the directory

procVars == <<config, up, starts, closed>>
lineVars == <<ndjson, handle, adrift>>
dirVars  == <<procVars, hand, tries, acked, lineVars, report, orphan>>

Idle == [f |-> NoFinding, at |-> "idle"]

DirInit ==
  /\ config \in Config
  /\ up = TRUE /\ starts = 1 /\ closed = FALSE
  /\ hand = [w \in Worker |-> Idle]
  /\ tries = [f \in Finding |-> 0]
  /\ acked = {}
  /\ ndjson = NoFile /\ handle = "none" /\ adrift = {}
  /\ report = NoFile
  /\ orphan = FALSE

-----------------------------------------------------------------------------
(* A delivery: NDJSON first, then the report sink, then the ack.           *)

Deliver(w, f) ==
  /\ up /\ w \in config.crew
  /\ hand[w] = Idle
  /\ f \notin acked
  /\ tries[f] < MaxTries
  /\ tries' = [tries EXCEPT ![f] = @ + 1]

\* What the file holds once this process has an fd on it (O_CREATE).
Opened == IF ndjson = NoFile THEN <<>> ELSE ndjson

\* One write(2) adds token t, to the file or to the unlinked file behind the fd.
AppendToken(t) ==
  IF handle = "unlinked"
  THEN /\ adrift' = adrift \cup ({t} \cap Finding)
       /\ UNCHANGED <<ndjson, handle>>
  ELSE /\ ndjson' = Append(Opened, t)
       /\ handle' = "linked"
       /\ UNCHANGED adrift

NextSink == IF config.report = "none" THEN "ack" ELSE config.report

\* NDJSONFile.Write: the line is in.
AppendLine(w, f) ==
  /\ Deliver(w, f)
  /\ ~closed
  /\ AppendToken(f)
  /\ hand' = [hand EXCEPT ![w] = [f |-> f, at |-> NextSink]]
  /\ UNCHANGED <<procVars, acked, report, orphan>>

\* Mutant: the error of a write is not returned.
AppendErrorIgnored(w, f) ==
  /\ config.shaky
  /\ Deliver(w, f)
  /\ \/ UNCHANGED lineVars
     \/ ~closed /\ AppendToken(Torn)
  /\ hand' = [hand EXCEPT ![w] = [f |-> f, at |-> NextSink]]
  /\ UNCHANGED <<procVars, acked, report, orphan>>

\* Closed, not opened, or not written: the worker naks.  A write cut short leaves its
\* bytes, without a newline, in front of whatever is appended next.
AppendFails(w, f) ==
  /\ config.shaky
  /\ Deliver(w, f)
  /\ \/ UNCHANGED lineVars
     \/ ~closed /\ AppendToken(Torn)
  /\ UNCHANGED <<procVars, hand, acked, report, orphan>>

\* acquire, for another scan, closes the least recently used fd.
Evict ==
  /\ config.shaky
  /\ up /\ ~closed
  /\ handle # "none"
  /\ handle' = "none"
  /\ UNCHANGED <<procVars, hand, tries, acked, ndjson, adrift, report, orphan>>

\* NDJSONFile.Close gives its fds up.
CloseLines == handle' = "none" /\ UNCHANGED <<ndjson, adrift>>

\* The last sink has the finding: the message is acknowledged.
AckFinding(w) ==
  /\ hand[w].at = "ack"
  /\ acked' = acked \cup {hand[w].f}
  /\ hand' = [hand EXCEPT ![w] = Idle]
  /\ UNCHANGED <<procVars, tries, lineVars, report, orphan>>

\* A sink's Write returned nil, or an error and the worker naks.
Pass(w) == hand' = [hand EXCEPT ![w].at = "ack"]
Drop(w) == hand' = [hand EXCEPT ![w] = Idle]

\* The part of the state a report sink's Write leaves alone.
sinkSame == <<procVars, tries, acked, lineVars, report, orphan>>

-----------------------------------------------------------------------------
(* SweepOrphanTempfiles and writer-rebuild read the directory.             *)

\* Mutant: the pattern is extended to the tempfiles SARIF and HTML make.
SweptAll == {"sarif", "html", "xlsx", "pdf", "parquet"}

\* looksLikeOrphanTempfile knows .<scan_id>.<hex> names with these extensions, not
\* the .sarif and .html ones the sinks make today.
Swept == {"xlsx", "pdf", "parquet"}

\* The i-th line can be decoded: it is whole, and not glued to a torn one.
Decodable(lines, i) == lines[i] # Torn /\ (i = 1 \/ lines[i - 1] # Torn)

\* Mutant: a line that cannot be decoded is skipped.
ReplaySkipping(lines, kept) ==
  [ok |-> TRUE,
   rows |-> {lines[i] : i \in {j \in DOMAIN lines : Decodable(lines, j)}} \cap kept]

\* replay: every line, but for the findings --severity leaves out; it stops with an error
\* at the first line it cannot decode.  Which rows the report gets is what matters here,
\* their order is the one of the lines.
Replay(lines, kept) ==
  [ok |-> \A i \in DOMAIN lines : Decodable(lines, i),
   rows |-> ToSet(lines) \cap kept]

===============================================================================
