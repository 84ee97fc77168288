-------------------------------- MODULE Chunks --------------------------------
(***************************************************************************)
(* The getter's chunk package (services/getter/internal/chunk): the split  *)
(* of a blob into lines, and the Builder that gathers numbered lines into  *)
(* chunks of about RowSizeTarget bytes, each opening with the last         *)
(* OverlapLines lines of the one before.                                   *)
(*                                                                         *)
(* A text is a sequence of bytes; Newline, Return and Nul are the three    *)
(* the code looks for.                                                     *)
(***************************************************************************)
EXTENDS Naturals, Sequences, FiniteSets, SequencesExt

CONSTANTS
  Byte,            \* every byte of the model
  Newline, Return, Nul,
  RowSizeTarget,   \* BuilderConfig.RowSizeTargetBytes
  OverlapLines,    \* BuilderConfig.OverlapLines
  MaxLine          \* the buffer of the line scanner, 1<<24 in processBlob

Row == [n : Nat, text : Seq(Byte)]    \* a numbered line

ASSUME ChunksAssumption ==
  /\ RowSizeTarget \in Nat \ {0} /\ OverlapLines \in Nat /\ MaxLine \in Nat \ {0}
  /\ Cardinality({Newline, Return, Nul}) = 3 /\ {Newline, Return, Nul} \subseteq Byte

-----------------------------------------------------------------------------
(* scanner.go                                                              *)

\* Position of the first newline; 0 if there is none.
NewlineAt(data) == SelectInSeq(data, LAMBDA b : b = Newline)

WithoutReturn(line) ==
  IF line # <<>> /\ Last(line) = Return THEN Front(line) ELSE line

\* splitLinesStripCR: the first line of data, and what follows it.  The last line
\* of a text without a final newline is returned as it is.
NextLine(data) ==
  LET nl == NewlineAt(data)
  IN  IF nl > 0
        THEN [text |-> WithoutReturn(SubSeq(data, 1, nl - 1)),
              rest |-> SubSeq(data, nl + 1, Len(data))]
        ELSE [text |-> data, rest |-> <<>>]

\* bufio.ErrTooLong: the buffer is full and holds no newline.
TooLong(data) ==
  LET nl == NewlineAt(data)
  IN  IF nl > 0 THEN nl > MaxLine ELSE Len(data) >= MaxLine

-----------------------------------------------------------------------------
(* builder.go                                                              *)

\* NewBuilder and Begin: rows waiting, their bytes, the chunks so far.
Begin == [pending |-> <<>>, bytes |-> 0, chunks |-> <<>>, total |-> 0]

Bytes(rows) == FoldSeq(LAMBDA row, n : n + Len(row.text), 0, rows)

\* emit: the pending rows become a chunk; unless it is the last, its tail stays
\* pending, and counts towards the size of the next one.
Emit(b, final) ==
  LET overlap == IF OverlapLines > Len(b.pending) THEN Len(b.pending) ELSE OverlapLines
      tail    == IF final THEN <<>> ELSE SubSeq(b.pending, Len(b.pending) - overlap + 1, Len(b.pending))
  IN  [b EXCEPT !.chunks = Append(@, b.pending), !.pending = tail, !.bytes = Bytes(tail)]

AddLine(b, row) ==
  LET added == [b EXCEPT !.pending = Append(@, row), !.bytes = @ + Len(row.text),
                         !.total = row.n]
  IN  IF added.bytes >= RowSizeTarget THEN Emit(added, FALSE) ELSE added

\* AddLine for each of the rows.
AddLines(rows) ==
  LET after[i \in 0..Len(rows)] == IF i = 0 THEN Begin ELSE AddLine(after[i - 1], rows[i])
  IN  after[Len(rows)]

\* Finish: the remaining rows, and the numbering of the chunks.
Finish(b) ==
  LET all == (IF b.pending # <<>> THEN Emit(b, TRUE) ELSE b).chunks
  IN  [i \in 1..Len(all) |->
         [rows |-> all[i], index |-> i - 1, count |-> Len(all), total |-> b.total]]

===============================================================================
