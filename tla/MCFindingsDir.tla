----------------------------- MODULE MCFindingsDir -----------------------------
(* Instances of FindingsDir for TLC: each report sink on its own, and the NDJSON
   file alone under the retention sweep. *)
EXTENDS FindingsDir, TLC

CONSTANTS w1, w2

Run(formats, retention, crew, lives) ==
  [report : formats, retention : {retention}, shaky : {retention}, crew : {crew},
   lives : {lives}]

MCConfig ==
  Run({"none"}, TRUE, {w1}, 1)
    \cup Run({"sarif", "html", "xlsx", "parquet"}, FALSE, {w1}, 2)
    \cup Run({"pdf"}, FALSE, {w1, w2}, 1)
    \cup Run({"sqlite"}, FALSE, {w1, w2}, 2)

===============================================================================
