------------------------------ MODULE ScanStatus ------------------------------
(***************************************************************************)
(* The status stream as the CLI reads it: which state a scan is in after   *)
(* the events of a getter and of several scanners                          *)
(* (contracts/scanstate, internal/scanmetrics, internal/natscli).          *)
(*                                                                         *)
(* An event is [scan, state, ts, source, metrics]: ts is in seconds, and   *)
(* the text fields are members of TextOrder.  A row of a table is an event *)
(* whose metrics were merged with those of earlier ones.                   *)
(***************************************************************************)
EXTENDS Integers, FiniteSets, SequencesExt

CONSTANTS
  TextOrder,   \* every text of the model, in the order of strings.Compare
  Within,      \* pairs <<word, text>>: the text contains the word
  NoMetrics    \* an event without metrics

Text == ToSet(TextOrder)
Metrics == [chunks : Nat, secrets : Nat]
Event == [scan : Text, state : Text, ts : Int, source : Text, metrics : Metrics \cup {NoMetrics}]

ASSUME TextAssumption ==
  /\ TextOrder \in Seq(Text)
  /\ \A i, j \in DOMAIN TextOrder : i # j => TextOrder[i] # TextOrder[j]
  /\ Within \subseteq Text \X Text
  /\ NoMetrics \notin Metrics

VARIABLE stream   \* HARPORIS_STATUS: the events published so far, in order

Rank(text) == CHOOSE i \in DOMAIN TextOrder : TextOrder[i] = text
TextHas(text, word) == <<word, text>> \in Within

\* scanstate.IsTerminal.
IsTerminal(state) == state \in {"COMPLETED", "FAILED", "PARTIAL", "CANCELLED"}

Larger(a, b) == IF a > b THEN a ELSE b

\* scanmetrics.Merge: the larger of each counter.
Merge(a, b) ==
  IF a = NoMetrics THEN b
  ELSE IF b = NoMetrics THEN a
  ELSE [chunks |-> Larger(a.chunks, b.chunks), secrets |-> Larger(a.secrets, b.secrets)]

\* The counters of a row that never had metrics read as 0.
Counters(row) ==
  IF row.metrics = NoMetrics THEN [chunks |-> 0, secrets |-> 0] ELSE row.metrics

EventsOf(events, scan) == SelectSeq(events, LAMBDA e : e.scan = scan)

\* ListHistory's rule: a later or equal second wins, an end is never undone.
Supersedes(ev, prev) ==
  ~(IsTerminal(prev.state) /\ ~IsTerminal(ev.state)) /\ ev.ts >= prev.ts

\* ListHistory's table when it has read ev: the latest event of each scan, with the metrics
\* of all of them.
Tabled(rows, ev) ==
  [s \in DOMAIN rows \cup {ev.scan} |->
     IF s # ev.scan THEN rows[s]
     ELSE IF s \notin DOMAIN rows THEN ev
     ELSE [(IF Supersedes(ev, rows[s]) THEN ev ELSE rows[s]) EXCEPT
             !.metrics = Merge(rows[s].metrics, ev.metrics)]]

\* ListHistory's loop: its table at the end of the stream.
HistoryTable(events) ==
  LET rows[n \in 0..Len(events)] == IF n = 0 THEN <<>> ELSE Tabled(rows[n - 1], events[n])
  IN  rows[Len(events)]

HistoryRows(events) == {HistoryTable(events)[s] : s \in DOMAIN HistoryTable(events)}

\* What ListHistory may return: newest first, in any order within a second; max = 0 is no
\* limit.
ListHistory(events, max) ==
  LET ordered == {rows \in SetToSeqs(HistoryRows(events)) :
                    \A i, j \in DOMAIN rows : i < j => rows[i].ts >= rows[j].ts}
      capped(rows) == IF max > 0 /\ Len(rows) > max THEN SubSeq(rows, 1, max) ELSE rows
  IN  {capped(rows) : rows \in ordered}

\* What ShowHistory may return: every event of one scan, oldest first, in any order within
\* a second.
ShowHistory(events, scan) ==
  LET own     == {i \in DOMAIN events : events[i].scan = scan}
      ordered == {order \in SetToSeqs(own) :
                    \A i, j \in DOMAIN order : i < j => events[order[i]].ts <= events[order[j]].ts}
  IN  {[k \in DOMAIN order |-> events[order[k]]] : order \in ordered}

===============================================================================
