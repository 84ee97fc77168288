------------------------------ MODULE FindingsTab ------------------------------
(***************************************************************************)
(* The Findings tab of the dashboard's panel                               *)
(* (internal/tui/finding_list.go, finding_filter.go, finding_sort.go) and  *)
(* the report it reads (internal/findings).                                *)
(*                                                                         *)
(* A query, as typed, is a sequence of tokens [key, word]; key is  *)
(* "" for a bare word.  A keystroke is [key, query]: key "type" stands for *)
(* the runes and backspaces that make the input line into query.           *)
(***************************************************************************)
EXTENDS ScanStatus

CONSTANTS NoFilter,   \* what a filter parser returns with an error
          NoWord      \* a clause that was not given

\* findings.SeverityRank.
SeverityRank(s) ==
  CASE s = "CRITICAL" -> 4 [] s = "HIGH" -> 3 [] s = "MEDIUM" -> 2 [] s = "LOW" -> 1
    [] OTHER -> 0

\* A report has findings of its scan only; the directory lists the reports in some order.
Finding == [scan : Text, severity : Text, rule : Text, location : Text, secret : Text]
Report ==
  {r \in [scan : Text, replica : Text, rows : Seq(Finding)] :
     \A i \in DOMAIN r.rows : r.rows[i].scan = r.scan}

\* resolveFindingsName: the name without a replica, or else the first of the scan.
Resolved(listing, scan) ==
  LET own  == {i \in DOMAIN listing : listing[i].scan = scan}
      bare == {i \in own : listing[i].replica = ""}
  IN  IF bare # {} THEN <<listing[Min(bare)]>>
      ELSE IF own # {} THEN <<listing[Min(own)]>> ELSE <<>>

\* The last word given for a key.
Clause(query, key) ==
  LET own == SelectSeq(query, LAMBDA t : t.key = key)
  IN  IF own = <<>> THEN NoWord ELSE Last(own).word

\* ParseFindingFilter: an unknown key is an error.
ParseFindingFilter(query) ==
  IF \E i \in DOMAIN query : query[i].key \notin {"", "severity", "rule", "path"}
    THEN NoFilter
    ELSE [severity |-> Clause(query, "severity"), rule |-> Clause(query, "rule"),
          path |-> Clause(query, "path"), raw |-> query,
          text |-> {query[i].word : i \in {j \in DOMAIN query : query[j].key = ""}}]

EveryFinding == ParseFindingFilter(<<>>)

\* FindingFilter.Match.
MatchesFinding(filter, f) ==
  /\ filter.severity # NoWord => TextHas(f.severity, filter.severity)
  /\ filter.rule # NoWord => TextHas(f.rule, filter.rule)
  /\ filter.path # NoWord => TextHas(f.location, filter.path)
  /\ \A w \in filter.text : \E text \in {f.severity, f.rule, f.location} : TextHas(text, w)

FindingColumns == <<"severity", "rule", "location", "secret">>
NextColumn(columns, c) ==
  columns[(SelectInSeq(columns, LAMBDA x : x = c) % Len(columns)) + 1]

\* compareFinding.
CompareFinding(a, b, col) ==
  IF col = "severity" THEN SeverityRank(a.severity) - SeverityRank(b.severity)
  ELSE Rank(a[col]) - Rank(b[col])

\* The order of visible.
FindingBefore(s, a, b) ==
  LET c == IF s.sortExplicit THEN CompareFinding(a, b, s.sortCol)
           ELSE SeverityRank(b.severity) - SeverityRank(a.severity)
  IN  IF c = 0 THEN Rank(a.location) < Rank(b.location)
      ELSE IF s.sortExplicit /\ s.sortRev THEN c > 0 ELSE c < 0

\* findingsState.visible: a stable sort of what the filter leaves.
Visible(s) ==
  LET kept == SelectSeq(s.loaded, LAMBDA f : MatchesFinding(s.filter, f))
      order == SetToSortSeq(DOMAIN kept, LAMBDA i, j :
                 \/ FindingBefore(s, kept[i], kept[j])
                 \/ ~FindingBefore(s, kept[j], kept[i]) /\ i < j)
  IN  [i \in DOMAIN kept |-> kept[order[i]]]

\* The zero findingsState.
NewFindings ==
  [loaded |-> <<>>, loading |-> FALSE, loadedOnce |-> FALSE, err |-> FALSE,
   cursor |-> 0, offset |-> 0, sortCol |-> "severity", sortRev |-> FALSE,
   sortExplicit |-> FALSE, filter |-> EveryFinding, filtering |-> FALSE,
   input |-> <<>>, filterErr |-> FALSE]

\* findingsState.clampCursor.
ClampRow(s) ==
  LET n == Len(Visible(s))
  IN  IF n = 0 THEN [s EXCEPT !.cursor = 0, !.offset = 0]
      ELSE IF s.cursor >= n THEN [s EXCEPT !.cursor = n - 1] ELSE s

\* findingsState.pageSize.
FindingsPage(height) == IF height > 12 THEN height - 10 ELSE 10

\* The end of updateKey: the page follows the cursor.
Scrolled(s, height) ==
  LET up   == IF s.cursor < s.offset THEN s.cursor ELSE s.offset
      last == up + FindingsPage(height)
  IN  [s EXCEPT !.offset = IF s.cursor >= last THEN s.cursor - FindingsPage(height) + 1 ELSE up]

\* updateKey while a filter is typed.
FilterKey(s, k) ==
  LET parsed == ParseFindingFilter(s.input)
  IN  CASE k.key = "esc" -> [s EXCEPT !.filtering = FALSE, !.filterErr = FALSE]
        [] k.key = "enter" /\ parsed = NoFilter -> [s EXCEPT !.filterErr = TRUE]
        [] k.key = "enter" /\ parsed # NoFilter ->
             ClampRow([s EXCEPT !.filter = parsed, !.filtering = FALSE, !.filterErr = FALSE])
        [] k.key = "type" -> [s EXCEPT !.input = k.query]
        [] OTHER -> s

\* updateKey otherwise, before the scrolling.
RowKey(s, k) ==
  CASE k.key = "up" /\ s.cursor > 0 -> [s EXCEPT !.cursor = @ - 1]
    [] k.key = "down" /\ s.cursor < Len(Visible(s)) - 1 -> [s EXCEPT !.cursor = @ + 1]
    [] k.key = "s" -> ClampRow([s EXCEPT !.sortExplicit = TRUE,
                                  !.sortCol = IF s.sortExplicit THEN NextColumn(FindingColumns, @)
                                              ELSE "severity"])
    [] k.key = "S" -> [s EXCEPT !.sortExplicit = TRUE, !.sortRev = ~@,
                                !.sortCol = IF s.sortExplicit THEN @ ELSE "severity"]
    [] k.key = "/" -> [s EXCEPT !.filtering = TRUE, !.input = s.filter.raw, !.filterErr = FALSE]
    [] OTHER -> s

\* Esc and q outside the filter line leave the tab and the panel.
LeavesTab(s, k) == ~s.filtering /\ k.key \in {"esc", "q"}

\* findingsState.updateKey.
FindingsKey(s, k, height) ==
  IF s.filtering THEN FilterKey(s, k) ELSE Scrolled(RowKey(s, k), height)

===============================================================================
