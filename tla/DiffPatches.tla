----------------------------- MODULE DiffPatches ------------------------------
(***************************************************************************)
(* ParseUnifiedDiff (services/getter/internal/git/diff.go): the output of  *)
(* git diff, read line by line into patches and hunks.                     *)
(*                                                                         *)
(* A line of the output is a record: what git means it to be (tag), its    *)
(* bytes, and for headers the paths or the first new line number.  The     *)
(* code sees the bytes only: MatchesHeader and LooksLikeFileLine are its   *)
(* tests.  The fields job and src go along for the properties: whose patch *)
(* and whose hunk git means.                                               *)
(***************************************************************************)
EXTENDS Chunks

CONSTANTS
  NoPatch,   \* cur = nil, curHunk = nil
  Quoted,    \* names git quotes (core.quotePath): a byte outside ASCII, a quote, a tab
  AndB       \* the name made of a name and " b", for each name of a path

Name == DOMAIN AndB
Path == Seq(Name \cup {AndB[name] : name \in Name})
ParsedHunk  == [src : Nat \X Nat, rows : Seq(Row)]
ParsedPatch == [job : Nat, path : Path, deleted : BOOLEAN, hunks : Seq(ParsedHunk)]

ASSUME DiffAssumption ==
  /\ NoPatch \notin ParsedPatch \cup ParsedHunk
  /\ Return \notin {" ", "+"}

\* Parser state: cur, curHunk and newLine are the locals of ParseUnifiedDiff.
Unparsed == [patches |-> <<>>, cur |-> NoPatch, hunk |-> NoPatch, newLine |-> 0]

\* The hunk at hand goes to its patch, at a hunk header, a file header or the end.
CloseHunk(st) ==
  IF st.hunk = NoPatch THEN st
  ELSE [st EXCEPT !.cur.hunks = Append(@, st.hunk), !.hunk = NoPatch]

\* The patch at hand goes to the result.
ClosePatch(st) ==
  IF st.cur = NoPatch THEN st
  ELSE LET closed == CloseHunk(st)
       IN  [closed EXCEPT !.patches = Append(@, closed.cur), !.cur = NoPatch]

\* git quotes a path as a whole.
InQuotes(path) == ToSet(path) \cap Quoted # {}

\* "diff --git a/OLD b/PATH", which fileHeaderRE wants without quotes.
MatchesHeader(line) ==
  line.tag = "diff" /\ ~InQuotes(line.old) /\ ~InQuotes(line.path)

\* The path it reads there: all that follows the first " b/".
HeaderPath(old, path) ==
  LET names == Front(old) \o <<AndB[Last(old)]>> \o path
      first == SelectInSeq(names, LAMBDA name : \E n \in Name : name = AndB[n])
  IN  SubSeq(names, first + 1, Len(names))

FileHeader(st, line) ==
  [ClosePatch(st) EXCEPT !.cur = [job |-> line.job, path |-> HeaderPath(line.old, line.path),
                                  deleted |-> FALSE, hunks |-> <<>>]]

\* "@@ -a,b +c,d @@"
HunkHeader(st, line) ==
  [CloseHunk(st) EXCEPT !.hunk = [src |-> line.src, rows |-> <<>>],
                         !.newLine = line.start]

\* "---", "+++" and "index ": tested on every line, those of a hunk included.
LooksLikeFileLine(text) ==
  IsPrefix(<<"-", "-", "-">>, text) \/ IsPrefix(<<"+", "+", "+">>, text)

\* A context or added line joins the hunk under the next number; a removed line,
\* "\ No newline at end of file" and a header that did not match leave no trace.
HunkLine(st, text) ==
  IF text # <<>> /\ Head(text) \in {" ", "+"}
    THEN [st EXCEPT !.hunk.rows = Append(@, [n |-> st.newLine, text |-> Tail(text)]),
                    !.newLine = @ + 1]
    ELSE st

\* Whatever is not a header is taken for a line of the patch at hand.  bufio.ScanLines
\* drops a return at the end of a line.
ParseLine(st, line) ==
  IF MatchesHeader(line) THEN FileHeader(st, line)
  ELSE IF st.cur = NoPatch THEN st
  ELSE CASE line.tag \in {"diff", "index"} -> st
         [] line.tag = "deleted"           -> [st EXCEPT !.cur.deleted = TRUE]
         [] line.tag = "hunk"              -> HunkHeader(st, line)
         [] line.tag = "text"              ->
              IF LooksLikeFileLine(line.text) \/ st.hunk = NoPatch THEN st
              ELSE HunkLine(st, WithoutReturn(line.text))

ParseUnifiedDiff(output) ==
  LET after[i \in 0..Len(output)] ==
        IF i = 0 THEN Unparsed ELSE ParseLine(after[i - 1], output[i])
  IN  ClosePatch(after[Len(output)]).patches

===============================================================================
