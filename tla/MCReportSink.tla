----------------------------- MODULE MCReportSink -----------------------------
(* Instances of ReportSink for TLC.                                        *)
EXTENDS ReportSink, TLC

CONSTANTS s1, s2, f1, f2, f3

\* Two findings of one scan and one of another.
MCScanOf == f1 :> s1 @@ f2 :> s1 @@ f3 :> s2

===============================================================================
