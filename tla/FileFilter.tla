------------------------------ MODULE FileFilter -------------------------------
(***************************************************************************)
(* The five layers that decide whether a blob is scanned                   *)
(* (services/getter/internal/filter).  A path is a sequence of names, and  *)
(* a glob a sequence of sets of names: those its parts match.              *)
(***************************************************************************)
EXTENDS Naturals, Sequences, SequencesExt

CONSTANTS
  PathExclusions,     \* set of [dir : BOOLEAN, glob : glob]; dir: it ends in "/"
  BinaryExtensions,   \* the names that end in one of them
  MaxFileSize,
  SniffBytes          \* the prefix processBlob reads, 8 KiB

ASSUME FilterAssumption == {MaxFileSize, SniffBytes} \subseteq Nat \ {0}

\* filepath.Match: a part for each name, "*" never for a "/".
Match(glob, path) ==
  Len(glob) = Len(path) /\ \A k \in DOMAIN glob : path[k] \in glob[k]

MatchesPathOrBase(glob, path) == Match(glob, path) \/ Match(glob, <<Last(path)>>)

\* MatchAnyGlob: a directory pattern is found anywhere in the path, its last name
\* included.
MatchAnyGlob(path, patterns) ==
  \E p \in patterns :
    \/ ~p.dir /\ MatchesPathOrBase(p.glob, path)
    \/ p.dir /\ \E i, j \in DOMAIN path : i <= j /\ Match(p.glob, SubSeq(path, i, j))

\* ParseGitAttributes: a line counts if it sets or unsets text; its last word on the
\* matter wins.  A line is [glob, attrs].
ParseGitAttributes(lines) ==
  LET words(line) == SelectSeq(line.attrs, LAMBDA a : a \in {"binary", "-text", "text"})
      telling     == SelectSeq(lines, LAMBDA line : words(line) # <<>>)
  IN  [i \in DOMAIN telling |->
         [glob |-> telling[i].glob, binary |-> Last(words(telling[i])) # "text"]]

\* IsBinary: the last rule that matches decides.
IsBinary(rules, path) ==
  LET matching == SelectSeq(rules, LAMBDA r : MatchesPathOrBase(r.glob, path))
  IN  matching # <<>> /\ Last(matching).binary

\* ShouldScan without the sample.
PassesByName(path, size, attributes) ==
  /\ ~MatchAnyGlob(path, PathExclusions)
  /\ Last(path) \notin BinaryExtensions
  /\ size <= MaxFileSize
  /\ ~IsBinary(ParseGitAttributes(attributes), path)

\* HasNULByte, of the sample.
PassesSniff(sample, nul) == nul \notin ToSet(sample)

===============================================================================
