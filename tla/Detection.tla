------------------------------ MODULE Detection -------------------------------
(***************************************************************************)
(* The scanner's detector (services/scanner/internal/detect, rules) and    *)
(* the line numbers the writer's reports print for a finding               *)
(* (services/writer/internal/sink).                                        *)
(*                                                                         *)
(* A rule is a pattern of fixed length: for each place the bytes allowed   *)
(* there.  from..to is the capture group for the secret and the entropy.   *)
(* The entropy of a text passes the threshold when it has two symbols.     *)
(***************************************************************************)
EXTENDS Chunks, Integers

CONSTANT ContextLines     \* GitRowChunk.OutputContextLines

ASSUME DetectionAssumption == ContextLines \in Nat

\* A rule's pattern matches something, and its group is a part of the match.
RuleType(rule) ==
  /\ rule.pattern \in Seq(SUBSET Byte) \ {<<>>}
  /\ rule.from \in DOMAIN rule.pattern /\ rule.to \in DOMAIN rule.pattern

-----------------------------------------------------------------------------
(* Regexp matching.                                                        *)

MatchesAt(text, pattern, i) ==
  /\ i + Len(pattern) <= Len(text) + 1
  /\ \A k \in DOMAIN pattern : text[i + k - 1] \in pattern[k]

\* FindAllSubmatchIndex: the places of the leftmost matches that do not overlap.
FindAll(text, pattern) ==
  LET from[i \in 1..(Len(text) + 1)] ==
        IF i + Len(pattern) > Len(text) + 1 THEN {}
        ELSE IF MatchesAt(text, pattern, i)
               THEN {i} \cup from[i + Len(pattern)]
               ELSE from[i + 1]
  IN  from[1]

-----------------------------------------------------------------------------
(* Rule packs: the loader.                                                 *)

\* Validate: ids are unique, and the examples match or do not.
Validate(pack) ==
  /\ \A i, j \in DOMAIN pack : pack[i].id = pack[j].id => i = j
  /\ \A i \in DOMAIN pack :
       /\ \A ex \in pack[i].positive : FindAll(ex, pack[i].pattern) # {}
       /\ \A ex \in pack[i].negative : FindAll(ex, pack[i].pattern) = {}

\* LoadFile and parse: a pack that cannot be read, is not YAML, or names an unknown
\* severity or a bad regexp is an error.
Loadable(file) == file.readable /\ file.wellFormed

\* ShannonEntropy against EntropyMin, for a rule that has a threshold.
EntropyPasses(rule, secret) == rule.entropy => Cardinality(ToSet(secret)) > 1

-----------------------------------------------------------------------------
(* LineIndex.                                                              *)

\* NewLineIndex: the offset each row starts at in the joined text.
LineStarts(rows) ==
  LET start[i \in DOMAIN rows] ==
        IF i = 1 THEN 0 ELSE start[i - 1] + Len(rows[i - 1].text) + 1
  IN  start

\* LineAt: the row that holds an offset, by bisection; past the end, the last row.
LineAt(starts, off) ==
  LET search[w \in (DOMAIN starts) \X (DOMAIN starts)] ==
        LET lo == w[1]  hi == w[2]  mid == (lo + hi + 1) \div 2
        IN  IF lo >= hi THEN lo
            ELSE IF starts[mid] <= off THEN search[<<mid, hi>>] ELSE search[<<lo, mid - 1>>]
  IN  search[<<1, Len(starts)>>]

-----------------------------------------------------------------------------
(* Detector.                                                               *)

\* The rows joined by newlines.
Joined(rows) ==
  LET text[i \in DOMAIN rows] ==
        IF i = 1 THEN rows[1].text ELSE text[i - 1] \o <<Newline>> \o rows[i].text
  IN  text[Len(rows)]

Texts(rows) == [i \in DOMAIN rows |-> rows[i].text]

\* The context harvested around rows first..last, cut off at the chunk's edges.
ContextBefore(rows, first) ==
  Texts(SubSeq(rows, IF first > ContextLines THEN first - ContextLines ELSE 1, first - 1))
ContextAfter(rows, last) ==
  Texts(SubSeq(rows, last + 1,
               IF last + ContextLines > Len(rows) THEN Len(rows) ELSE last + ContextLines))

\* The finding of rule for the match at place i of the joined text.
FindingAt(chunk, rule, i) ==
  LET rows   == chunk.rows
      starts == LineStarts(rows)
      first  == LineAt(starts, i - 1)
      last   == LineAt(starts, i + Len(rule.pattern) - 2)
  IN  [chunk |-> chunk.id, path |-> chunk.path, rule |-> rule.id,
       line |-> rows[first].n, lineEnd |-> rows[last].n,
       offset |-> i - 1 - starts[first],
       secret |-> SubSeq(Joined(rows), i + rule.from - 1, i + rule.to - 1),
       matched |-> rows[first].text,
       before |-> ContextBefore(rows, first), after |-> ContextAfter(rows, last)]

\* ScanChunk: the hits of a pack in a chunk, a hit being a rule's place in the pack and a
\* place in the text, in the order of the code: rule by rule, match by match.
Hits(chunk, pack) ==
  IF chunk.rows = <<>> THEN {}
  ELSE {h \in (DOMAIN pack) \X (1..Len(Joined(chunk.rows))) :
          /\ h[2] \in FindAll(Joined(chunk.rows), pack[h[1]].pattern)
          /\ EntropyPasses(pack[h[1]], FindingAt(chunk, pack[h[1]], h[2]).secret)}
Earlier(g, h) == g[1] < h[1] \/ (g[1] = h[1] /\ g[2] < h[2])

\* FindingMsgID: what the stream tells two findings of a scan apart by.
MsgID(f) == <<f.chunk, f.rule, f.line, f.offset>>

-----------------------------------------------------------------------------
(* The lines the reports print around a finding, each under its number.    *)

\* The number of the first context line, in all three reports.
FirstPrinted(f) ==
  IF f.line - Len(f.before) < 1 THEN 1 ELSE f.line - Len(f.before)

NumberedBefore(f) ==
  [i \in DOMAIN f.before |-> [n |-> FirstPrinted(f) + i - 1, text |-> f.before[i]]]
\* Mutant: the lines after the match are counted from its first line.
AfterFirstLine(f) ==
  [i \in DOMAIN f.after |-> [n |-> f.line + i, text |-> f.after[i]]]

NumberedAfter(f) ==
  [i \in DOMAIN f.after |-> [n |-> f.lineEnd + i, text |-> f.after[i]]]

\* buildRow: the context lines with the matched one between them.
HtmlLines(f) ==
  IF f.before = <<>> /\ f.after = <<>> THEN <<>>
  ELSE NumberedBefore(f) \o <<[n |-> f.line, text |-> f.matched]>> \o NumberedAfter(f)

\* renderPDFContext: the context lines; the matched one is not among them.
PdfLines(f) == NumberedBefore(f) \o NumberedAfter(f)

\* buildRegion: the lines of the match.
SarifRegion(f) == f.line..(IF f.lineEnd > f.line THEN f.lineEnd ELSE f.line)

\* buildContextRegion: a start line, and a snippet whose lines count on from it.
SarifLines(f) ==
  LET snippet == f.before \o <<f.matched>> \o f.after
  IN  IF f.before = <<>> /\ f.after = <<>> THEN <<>>
      ELSE [i \in DOMAIN snippet |-> [n |-> FirstPrinted(f) + i - 1, text |-> snippet[i]]]

===============================================================================
