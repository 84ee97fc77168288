------------------------------- MODULE Retention -------------------------------
(***************************************************************************)
(* The retention sweep of the findings directory.  SweepRetention lists    *)
(* the reports once and then removes files one at a time, first those      *)
(* older than the TTL, then the oldest until the rest fits MaxBytes; the   *)
(* sinks go on writing meanwhile, through fds the sweep knows nothing of.  *)
(***************************************************************************)
EXTENDS OutputDir

CONSTANTS
  OtherFile,   \* files of other scans, of size 1
  MaxBytes,    \* RetentionPolicy.MaxBytes; 0: no limit
  MaxSweeps    \* bound: ticks of the retention loop

ASSUME RetentionAssumption ==
  /\ "ndjson" \notin OtherFile /\ IsFiniteSet(OtherFile)
  /\ MaxBytes \in Nat /\ MaxSweeps \in Nat

VARIABLES
  others,    \* the files of other scans that are there
  sweep,     \* the pass under way
  sweeps,    \* passes so far
  expired    \* history: findings whose lines a pass removed

retVars == <<others, sweep, sweeps, expired>>

\* stage: none, age, size, done.  todo: listed files not looked at yet (of this stage),
\* oldest first; cut: how many of them are past the TTL; kept: survivors of the age
\* pass, then files the size pass could not remove; size: as listed; total: as the
\* size pass counts; gone (history): what was removed.
NoSweep == [stage |-> "none", todo |-> <<>>, cut |-> 0, kept |-> <<>>,
            size |-> [x \in {} |-> 0], total |-> 0, gone |-> {}]

RetInit == others = OtherFile /\ sweep = NoSweep /\ sweeps = 0 /\ expired = {}

retSame == <<procVars, hand, tries, acked, report, orphan>>

\* The files looksLikeSinkOutput lets through: no dot-files, no directories, no
\* extension it does not know.
Listing == others \cup (IF ndjson = NoFile THEN {} ELSE {"ndjson"})

SizeOf == [x \in Listing |-> IF x = "ndjson" THEN Len(ndjson) ELSE 1]

\* ReadDir, Info and the sort by mtime.  Other scans write at any time: any order is
\* possible, and any number of the oldest may be past the TTL.
RetentionList ==
  /\ up /\ config.retention
  /\ sweep.stage = "none" /\ sweeps < MaxSweeps
  /\ sweeps' = sweeps + 1
  /\ \E order \in SetToSeqs(Listing), cut \in 0..Cardinality(Listing) :
       sweep' = [NoSweep EXCEPT !.stage = "age", !.todo = order, !.cut = cut,
                                !.size = SizeOf]
  /\ UNCHANGED <<retSame, lineVars, others, expired>>

\* os.Remove: an fd on the file stays open on what has no name any more.
Unlink(x) ==
  IF x = "ndjson"
  THEN /\ ndjson' = NoFile
       /\ handle' = IF handle = "linked" THEN "unlinked" ELSE handle
       /\ expired' = expired \cup (ToSet(ndjson) \cap Finding)
       /\ UNCHANGED <<others, adrift>>
  ELSE /\ others' = others \ {x}
       /\ UNCHANGED <<lineVars, expired>>

\* The bytes of these files together: as many as there are pairs of a file and a byte.
Sum(size, files) == Cardinality(UNION {{x} \X (1 .. size[x]) : x \in files})

\* The age pass, one file: past the TTL and removed, or kept.
AgePass ==
  /\ up /\ sweep.stage = "age" /\ sweep.todo # <<>>
  /\ LET x    == Head(sweep.todo)
         next == [sweep EXCEPT !.todo = Tail(@), !.cut = IF @ = 0 THEN 0 ELSE @ - 1]
     IN \/ /\ sweep.cut > 0 /\ x \in Listing
           /\ sweep' = [next EXCEPT !.gone = @ \cup {x}]
           /\ Unlink(x)
        \/ /\ sweep' = [next EXCEPT !.kept = Append(@, x)]
           /\ UNCHANGED <<lineVars, others, expired>>
  /\ UNCHANGED <<retSame, sweeps>>

\* The survivors go to the size pass, and their sizes are added up.
AgeDone ==
  /\ up /\ sweep.stage = "age" /\ sweep.todo = <<>>
  /\ sweep' = [sweep EXCEPT !.stage = "size", !.todo = sweep.kept, !.kept = <<>>,
                            !.total = Sum(sweep.size, ToSet(sweep.kept))]
  /\ UNCHANGED <<retSame, lineVars, others, sweeps, expired>>

OverBudget == MaxBytes > 0 /\ sweep.total > MaxBytes /\ sweep.todo # <<>>

\* Mutant: a file that cannot be removed is subtracted all the same.
SizePassSubtracts ==
  /\ up /\ sweep.stage = "size" /\ OverBudget
  /\ LET x    == Head(sweep.todo)
         next == [sweep EXCEPT !.todo = Tail(@), !.total = @ - sweep.size[x]]
     IN \/ /\ x \in Listing
           /\ sweep' = [next EXCEPT !.gone = @ \cup {x}]
           /\ Unlink(x)
        \/ /\ sweep' = [next EXCEPT !.kept = Append(@, x)]
           /\ UNCHANGED <<lineVars, others, expired>>
  /\ UNCHANGED <<retSame, sweeps>>

\* The size pass, one file: removed, or not and passed over.
SizePass ==
  /\ up /\ sweep.stage = "size" /\ OverBudget
  /\ LET x    == Head(sweep.todo)
         next == [sweep EXCEPT !.todo = Tail(@)]
     IN \/ /\ x \in Listing
           /\ sweep' = [next EXCEPT !.total = @ - sweep.size[x], !.gone = @ \cup {x}]
           /\ Unlink(x)
        \/ /\ sweep' = [next EXCEPT !.kept = Append(@, x)]
           /\ UNCHANGED <<lineVars, others, expired>>
  /\ UNCHANGED <<retSame, sweeps>>

\* SweepStats: RemainingFiles counts what the size pass did not come to.
SizeDone ==
  /\ up /\ sweep.stage = "size" /\ ~OverBudget
  /\ sweep' = [sweep EXCEPT !.stage = "done"]
  /\ UNCHANGED <<retSame, lineVars, others, sweeps, expired>>

RemainingFiles == Len(sweep.todo)
RemainingBytes == sweep.total

\* The loop logs the statistics and waits for its next tick.
SweepLogged ==
  /\ up /\ sweep.stage = "done"
  /\ sweep' = NoSweep
  /\ UNCHANGED <<retSame, lineVars, others, sweeps, expired>>

RetentionNext ==
  \/ RetentionList \/ AgePass \/ AgeDone \/ SizePass \/ SizeDone \/ SweepLogged

RetForget == sweep' = NoSweep /\ UNCHANGED <<others, sweeps, expired>>

\* What a finished pass says of the files it listed is true: the bytes that remain,
\* always; the number of files, unless the size pass failed to remove one.  And it
\* stops over its budget only when every file left is one it could not remove.
SweepTellsTheTruth ==
  sweep.stage = "done" =>
    LET left == DOMAIN sweep.size \ sweep.gone IN
    /\ RemainingBytes = Sum(sweep.size, left)
    /\ sweep.kept = <<>> => RemainingFiles = Cardinality(left)
    /\ MaxBytes > 0 /\ RemainingBytes > MaxBytes => left = ToSet(sweep.kept)

===============================================================================
