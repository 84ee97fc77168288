------------------------------ MODULE FleetModel ------------------------------
(***************************************************************************)
(* The model of the `harporis watch` dashboard                             *)
(* (internal/tui/fleet_model.go, detail_model.go, filter.go, sort.go): a   *)
(* record m, and what Update makes of it for each message.  Loads that a   *)
(* message starts are the actions' part, in CliSession.                    *)
(***************************************************************************)
EXTENDS FindingsTab

CONSTANT MaxFleetScans   \* rows the dashboard keeps

ASSUME FleetAssumption == MaxFleetScans \in Nat \ {0}

NoScan == ""

\* The zero detailState.
NoDetail ==
  [scan |-> NoScan, latest |-> <<>>, history |-> <<>>, err |-> FALSE, loading |-> FALSE,
   offset |-> 0, tab |-> "status", findings |-> NewFindings]

\* ParseFilter: an unknown key is an error; of several bare words the last one counts.
ParseFilter(query) ==
  IF \E i \in DOMAIN query : query[i].key \notin {"", "state", "source", "id"}
    THEN NoFilter
    ELSE [state |-> Clause(query, "state"), source |-> Clause(query, "source"),
          id |-> Clause(query, "id"), text |-> Clause(query, ""), raw |-> query]

EveryScan == ParseFilter(<<>>)

\* matchState: three words name kinds of states, any other one a part of the name.
MatchState(want, state) ==
  CASE want = "active" -> ~IsTerminal(state)
    [] want \in {"terminal", "done"} -> IsTerminal(state)
    [] OTHER -> TextHas(state, want)

\* Filter.Match.
MatchesScan(filter, row) ==
  /\ filter.state # NoWord => MatchState(filter.state, row.state)
  /\ filter.source # NoWord => TextHas(row.source, filter.source)
  /\ filter.id # NoWord => TextHas(row.scan, filter.id)
  /\ filter.text # NoWord =>
       \E text \in {row.scan, row.source, row.state} : TextHas(text, filter.text)

Columns == <<"scan", "state", "source", "chunks", "secrets", "ts">>

\* compareColumn.
CompareColumn(a, b, col) ==
  CASE col \in {"scan", "state", "source"} -> Rank(a[col]) - Rank(b[col])
    [] col \in {"chunks", "secrets"} -> Counters(a)[col] - Counters(b)[col]
    [] col = "ts" -> a.ts - b.ts

\* The two orders of sorted: active and newest first, or by a column.
RowBefore(m, a, b) ==
  IF m.sortExplicit
    THEN LET c == CompareColumn(a, b, m.sortCol)
         IN  IF c = 0 THEN Rank(a.scan) < Rank(b.scan) ELSE IF m.sortRev THEN c > 0 ELSE c < 0
    ELSE IF IsTerminal(a.state) # IsTerminal(b.state) THEN IsTerminal(b.state)
    ELSE IF a.ts # b.ts THEN a.ts > b.ts ELSE Rank(a.scan) < Rank(b.scan)

\* The elements of S, sorted.
Ordered(S, before(_, _)) ==
  CHOOSE seq \in SetToSeqs(S) : \A i, j \in DOMAIN seq : i < j => before(seq[i], seq[j])

\* FleetModel.sorted.
Sorted(m) ==
  Ordered({row \in {m.scans[s] : s \in DOMAIN m.scans} :
             ~(m.activeOnly /\ IsTerminal(row.state)) /\ MatchesScan(m.filter, row)},
          LAMBDA a, b : RowBefore(m, a, b))

\* NewFleetModel.
NewFleet ==
  [scans |-> <<>>, activeOnly |-> FALSE, quit |-> FALSE, cursor |-> 0, sortCol |-> "scan",
   sortRev |-> FALSE, sortExplicit |-> FALSE, filter |-> EveryScan, filtering |-> FALSE,
   input |-> <<>>, filterErr |-> FALSE, view |-> "list", detail |-> NoDetail, height |-> 0]

\* clampCursor.
ClampCursor(m) ==
  LET n == Len(Sorted(m))
  IN  IF n > 0 /\ m.cursor >= n THEN [m EXCEPT !.cursor = n - 1] ELSE m

-----------------------------------------------------------------------------
(* A status event.                                                         *)

\* Update's rule of which event a row shows.
Displays(ev, prev) ==
  ~(IsTerminal(prev.state) /\ ~IsTerminal(ev.state)) /\ ev.ts >= prev.ts

\* Mutant: an event that is not shown is dropped with its metrics.
DropLosers(scans, ev) ==
  IF ev.scan \in DOMAIN scans /\ ~Displays(ev, scans[ev.scan]) THEN scans[ev.scan]
  ELSE IF ev.scan \in DOMAIN scans
         THEN [ev EXCEPT !.metrics = Merge(scans[ev.scan].metrics, ev.metrics)] ELSE ev

\* The row of the event's scan after it, always with its metrics.
Snapshot(scans, ev) ==
  IF ev.scan \notin DOMAIN scans THEN ev
  ELSE LET prev == scans[ev.scan]
       IN  [(IF Displays(ev, prev) THEN ev ELSE prev) EXCEPT
              !.metrics = Merge(prev.metrics, ev.metrics)]

\* evictIfOver's victims: the oldest of the finished scans, or of all when none is; two of
\* a second in the order of a map's keys.
Victims(scans) ==
  LET finished == {s \in DOMAIN scans : IsTerminal(scans[s].state)}
      from == IF finished # {} THEN finished ELSE DOMAIN scans
  IN  {s \in from : \A o \in from : scans[s].ts <= scans[o].ts}

\* evictIfOver: the maps it may leave.
EvictIfOver(scans) ==
  IF Cardinality(DOMAIN scans) <= MaxFleetScans THEN {scans}
  ELSE {[s \in DOMAIN scans \ {v} |-> scans[s]] : v \in Victims(scans)}

\* Mutant: events of one second are taken for the same one.
AppendPerSecond(history, ev) ==
  IF \E i \in DOMAIN history : history[i].ts = ev.ts THEN history ELSE Append(history, ev)

\* detailState.appendEvent.
AppendEvent(history, ev) ==
  IF \E i \in DOMAIN history : history[i].ts = ev.ts /\ history[i].state = ev.state
    THEN history ELSE Append(history, ev)

\* The panel after an event.
DetailAfter(m, ev) ==
  LET accepted == ev.scan \in DOMAIN m.scans => Displays(ev, m.scans[ev.scan])
  IN  IF m.view # "detail" \/ ev.scan # m.detail.scan THEN m.detail
      ELSE [m.detail EXCEPT !.latest = <<Snapshot(m.scans, ev)>>,
                            !.history = IF accepted THEN AppendEvent(@, ev) ELSE @]

\* The models Update may return for StatusEventMsg.
FoldEvent(m, ev) ==
  LET grown == [s \in DOMAIN m.scans \cup {ev.scan} |->
                  IF s = ev.scan THEN Snapshot(m.scans, ev) ELSE m.scans[s]]
      maps  == IF ev.scan \in DOMAIN m.scans THEN {grown} ELSE EvictIfOver(grown)
  IN  {[m EXCEPT !.scans = scans, !.detail = DetailAfter(m, ev)] : scans \in maps}

-----------------------------------------------------------------------------
(* The results of loads.                                                   *)

\* Whether a result is for the panel that is open.
IsOpen(m, scan) == m.view = "detail" /\ m.detail.scan = scan

\* Update for HistoryLoadedMsg.
ShowLoadedHistory(m, scan, result) ==
  IF ~IsOpen(m, scan) THEN m
  ELSE IF result.err THEN [m EXCEPT !.detail.loading = FALSE, !.detail.err = TRUE]
  ELSE [m EXCEPT !.detail.loading = FALSE, !.detail.history = result.rows]

\* Update for FindingsLoadedMsg.
ShowLoadedFindings(m, scan, result) ==
  IF ~IsOpen(m, scan) THEN m
  ELSE IF result.err
         THEN [m EXCEPT !.detail.findings.loading = FALSE, !.detail.findings.err = TRUE]
  ELSE [m EXCEPT !.detail.findings.loading = FALSE, !.detail.findings.loaded = result.rows,
                 !.detail.findings.loadedOnce = TRUE]

-----------------------------------------------------------------------------
(* Keys.                                                                   *)

\* updateFilterInput.
FleetFilterKey(m, k) ==
  LET parsed == ParseFilter(m.input)
  IN  CASE k.key = "esc" -> [m EXCEPT !.filtering = FALSE, !.filterErr = FALSE]
        [] k.key = "enter" /\ parsed = NoFilter -> [m EXCEPT !.filterErr = TRUE]
        [] k.key = "enter" /\ parsed # NoFilter ->
             ClampCursor([m EXCEPT !.filter = parsed, !.filtering = FALSE, !.filterErr = FALSE])
        [] k.key = "type" -> [m EXCEPT !.input = k.query]
        [] OTHER -> m

\* updateListKey, enter: the panel of the row under the cursor.
OpenPanel(m) ==
  LET rows == Sorted(m)
      at   == IF m.cursor >= Len(rows) THEN Len(rows) - 1 ELSE m.cursor
      row  == rows[at + 1]
  IN  IF rows = <<>> THEN m
      ELSE [m EXCEPT !.cursor = at, !.view = "detail",
              !.detail = [NoDetail EXCEPT !.scan = row.scan, !.latest = <<row>>, !.loading = TRUE]]

\* updateListKey.
ListKey(m, k) ==
  CASE k.key = "q" -> [m EXCEPT !.quit = TRUE]
    [] k.key = "up" /\ m.cursor > 0 -> [m EXCEPT !.cursor = @ - 1]
    [] k.key = "down" /\ m.cursor < Len(Sorted(m)) - 1 -> [m EXCEPT !.cursor = @ + 1]
    [] k.key = "f" -> ClampCursor([m EXCEPT !.activeOnly = ~@])
    [] k.key = "s" -> ClampCursor([m EXCEPT !.sortExplicit = TRUE,
                        !.sortCol = IF m.sortExplicit THEN NextColumn(Columns, @) ELSE "scan"])
    [] k.key = "S" -> [m EXCEPT !.sortExplicit = TRUE, !.sortRev = ~@,
                                !.sortCol = IF m.sortExplicit THEN @ ELSE "scan"]
    [] k.key = "/" -> [m EXCEPT !.filtering = TRUE, !.input = m.filter.raw, !.filterErr = FALSE]
    [] k.key = "enter" -> OpenPanel(m)
    [] OTHER -> m

ClosePanel(m) == [m EXCEPT !.view = "list", !.detail = NoDetail]

TypesFindingFilter(m) == m.detail.tab = "findings" /\ m.detail.findings.filtering

\* tab: the other tab; findings that were never asked for are loaded.
WantsFindings(m) ==
  /\ m.detail.tab = "status"
  /\ ~m.detail.findings.loading /\ ~m.detail.findings.loadedOnce /\ ~m.detail.findings.err

SwitchTab(m) ==
  [m EXCEPT !.detail.tab = IF @ = "status" THEN "findings" ELSE "status",
            !.detail.findings.loading = @ \/ WantsFindings(m)]

\* r, after an error: the tab starts again.
Retries(m, k) ==
  m.detail.tab = "findings" /\ ~m.detail.findings.filtering /\ k.key = "r" /\ m.detail.findings.err

\* updateDetailKey on the Findings tab.
FindingsTabKey(m, k) ==
  IF Retries(m, k) THEN [m EXCEPT !.detail.findings = [NewFindings EXCEPT !.loading = TRUE]]
  ELSE IF LeavesTab(m.detail.findings, k) THEN ClosePanel(m)
  ELSE [m EXCEPT !.detail.findings = FindingsKey(@, k, m.height)]

\* updateDetailKey on the Status tab.
StatusTabKey(m, k) ==
  CASE k.key = "esc" -> ClosePanel(m)
    [] k.key = "up" /\ m.detail.offset > 0 -> [m EXCEPT !.detail.offset = @ - 1]
    [] k.key = "down" /\ m.detail.offset < Len(m.detail.history) - 1 ->
         [m EXCEPT !.detail.offset = @ + 1]
    [] OTHER -> m

\* updateDetailKey.
DetailKey(m, k) ==
  IF TypesFindingFilter(m) THEN FindingsTabKey(m, k)
  ELSE CASE k.key = "q" -> [m EXCEPT !.quit = TRUE]
         [] k.key = "tab" -> SwitchTab(m)
         [] OTHER -> IF m.detail.tab = "findings" THEN FindingsTabKey(m, k) ELSE StatusTabKey(m, k)

\* Update for a key.
UpdateKey(m, k) ==
  IF m.filtering THEN FleetFilterKey(m, k)
  ELSE IF m.view = "detail" THEN DetailKey(m, k) ELSE ListKey(m, k)

===============================================================================
