---------------------------- MODULE MCScannerPool -----------------------------
(* Instances of ScannerPool for TLC.                                       *)
EXTENDS ScannerPool, TLC

CONSTANTS c1, c2, s1

\* Two chunks of one scan: a chunk with two findings, the last one with none.
MCScanOf == c1 :> s1 @@ c2 :> s1
MCFound  == c1 :> 2 @@ c2 :> 0

===============================================================================
