---------------------------- MODULE MCWriterService ---------------------------
(* Instances of WriterService for TLC.                                     *)
EXTENDS WriterService, TLC

CONSTANTS s1, f1, f2

\* The workers are interchangeable.
Workers == Permutations(Worker)

\* Two findings of one scan, the second asking for the report only.
MCScanOf  == f1 :> s1 @@ f2 :> s1
MCFormats == f1 :> {} @@ f2 :> {"report"}

===============================================================================
