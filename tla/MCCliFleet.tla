------------------------------ MODULE MCCliFleet ------------------------------
(* Instances of CliSession for TLC: a dashboard over status streams with seconds that are
   equal, clocks that differ and more scans than it keeps; its panels and their loads; its
   keys; and commands that wait for a scan. *)
EXTENDS CliSession, TLC

MCText == <<"", "CANCELLED", "COMPLETED", "CRITICAL", "FAILED", "LOW", "PARTIAL", "PENDING",
            "RUNNING", "a:1", "a:2", "aa", "active", "b:1", "bb", "done", "getter", "k1", "k2", "r1",
            "r2", "s1", "s2", "s3", "s4", "scanner", "led", "one">>

MCWithin == {<<"aa", "aa">>, <<"a:1", "a:1">>, <<"led", "CANCELLED">>, <<"one", "s1">>,
             <<"one", "r1">>, <<"getter", "getter">>, <<"r1", "r1">>}

Ev(scan, state, ts, source, metrics) ==
  [scan |-> scan, state |-> state, ts |-> ts, source |-> source, metrics |-> metrics]
Counts(chunks, secrets) == [chunks |-> chunks, secrets |-> secrets]

Found(scan, severity, rule, location, secret) ==
  [scan |-> scan, severity |-> severity, rule |-> rule, location |-> location, secret |-> secret]

\* A scan from its start to its end, with a scanner's count behind the end.
Pending(s, t)  == Ev(s, "PENDING", t, "getter", NoMetrics)
Running(s, t)  == Ev(s, "RUNNING", t, "getter", NoMetrics)
Secrets(s, t, n) == Ev(s, "RUNNING", t, "scanner", Counts(0, n))
Ended(s, state, t) == Ev(s, state, t, "getter", Counts(2, 0))

Rows == <<Found("s1", "LOW", "r1", "a:2", "k1"), Found("s1", "CRITICAL", "r2", "b:1", "k2"),
          Found("s1", "LOW", "r2", "a:1", "k1"), Found("s1", "LOW", "r1", "a:1", "k2")>>

NoJob == [scan |-> "", panel |-> FALSE, submits |-> FALSE, waits |-> FALSE, copies |-> FALSE,
          hasty |-> FALSE, fails |-> FALSE, interrupts |-> FALSE]
NoJobs == [w \in Waiter |-> NoJob]

Base == [script |-> <<>>, already |-> 0, reports |-> <<>>, keys |-> {}, heights |-> {},
         dashboard |-> TRUE, seedFails |-> FALSE, tailFails |-> FALSE, loadFails |-> FALSE,
         redelivers |-> FALSE, jobs |-> NoJobs, names |-> {}]

K(name) == [key |-> name, query |-> <<>>]
Type(query) == [key |-> "type", query |-> query]
Token(key, word) == [key |-> key, word |-> word]

\* Streams for the table: a retry after a failure; a slow clock; a full table.
Retried == <<Pending("s1", 1), Running("s1", 1), Secrets("s1", 2, 1), Ended("s1", "FAILED", 2),
             Secrets("s1", 3, 2), Ended("s1", "COMPLETED", 2)>>
Skewed  == <<Running("s1", 1), Secrets("s1", 3, 1), Ended("s1", "COMPLETED", 2), Pending("s2", 2),
             Secrets("s1", 1, 2), Running("s2", 2)>>
Crowded == <<Ended("s1", "COMPLETED", 1), Ended("s2", "PARTIAL", 1), Running("s3", 2),
             Secrets("s1", 3, 1), Running("s4", 3), Ended("s3", "CANCELLED", 3)>>
Active  == <<Running("s1", 1), Running("s2", 2), Running("s3", 3), Running("s4", 3)>>

Tables == {[Base EXCEPT !.script = s, !.already = n, !.seedFails = TRUE, !.redelivers = TRUE,
                        !.tailFails = TRUE] :
             s \in {Retried, Skewed, Crowded, Active}, n \in {0, 3}}

\* Panels that are opened and closed while events and loads arrive.
Panels ==
  {[Base EXCEPT !.script = <<Running("s1", 1), Running("s2", 1), Secrets("s1", 1, 1),
                             Ended("s1", "COMPLETED", 1), Ended("s2", "FAILED", 2)>>,
                !.already = 2, !.loadFails = fails, !.keys = {K("enter"), K("esc"), K("down")} \cup tab,
                !.reports = <<[scan |-> "s1", replica |-> "aa", rows |-> <<Rows[1]>>],
                              [scan |-> "s1", replica |-> "", rows |-> <<Rows[2]>>]>>] :
     fails \in {FALSE}, tab \in {{}, {K("tab")}}}
  \cup
  {[Base EXCEPT !.script = <<Running("s1", 1), Ended("s1", "FAILED", 2)>>, !.already = 2,
                !.loadFails = TRUE, !.keys = {K("enter"), K("tab"), K("r"), K("esc"), K("q")},
                !.reports = <<[scan |-> "s1", replica |-> "aa", rows |-> <<Rows[1]>>],
                              [scan |-> "s1", replica |-> "bb", rows |-> <<Rows[2]>>]>>]}

\* The keys of the table, and of the Findings tab: those that sort, those that filter.
Keys(names) == {K(name) : name \in names}

Keyboards ==
  {[Base EXCEPT !.script = <<Running("s1", 1), Ended("s2", "FAILED", 2)>>, !.already = 2,
                !.keys = keys] :
     keys \in {Keys({"up", "down", "f", "s", "S"}),
               Keys({"/", "f", "down", "enter", "esc"})
                 \cup {Type(<<Token("state", "active"), Token("source", "getter")>>),
                       Type(<<Token("", "aa"), Token("", "one")>>),
                       Type(<<Token("id", "one"), Token("state", "done")>>),
                       Type(<<Token("path", "one")>>)}}}
  \cup
  {[Base EXCEPT !.script = <<Running("s1", 1)>>, !.already = 1, !.heights = {13}, !.keys = keys,
                !.reports = <<[scan |-> "s1", replica |-> "", rows |-> Rows]>>] :
     keys \in {Keys({"enter", "tab", "up", "down", "s", "S"}),
               Keys({"enter", "tab", "down", "/"})
                 \cup {Type(<<Token("rule", "r1"), Token("", "a:1")>>),
                       Type(<<Token("severity", "led")>>), Type(<<Token("state", "one")>>)}}}

\* Commands that wait: alone, with each end of the scan; two for one scan; before the scan
\* and behind it.
Job(panel, submits) ==
  [NoJob EXCEPT !.scan = "s1", !.panel = panel, !.submits = submits, !.waits = TRUE]
File(scan, ext, temp, retained) ==
  [scan |-> scan, ext |-> ext, temp |-> temp, retained |-> retained]
Files == {File("s1", "ndjson", FALSE, FALSE), File("s1", "sarif", TRUE, TRUE),
          File("s2", "ndjson", FALSE, FALSE)}

Scanned == [Job(FALSE, TRUE) EXCEPT !.copies = TRUE]
Ends(state) == <<Pending("s1", 1), Ended("s1", state, 2), Secrets("s1", 3, 1), Ended("s1", "COMPLETED", 4)>>
Fails   == <<Running("s1", 1), Ended("s1", "PARTIAL", 2), Ended("s1", "CANCELLED", 4)>>
Both(a, b) == [w \in Waiter |-> IF w = "w1" THEN a ELSE b]

WaitingFor(jobs, script, names, n) ==
  [Base EXCEPT !.dashboard = FALSE, !.jobs = jobs, !.script = script, !.names = names,
               !.already = n]

Waits ==
  {WaitingFor(Both(Scanned, NoJob), Ends(state), Files, n) :
     state \in {"COMPLETED", "CANCELLED"}, n \in {0, 4}}
  \cup {WaitingFor(Both(j, NoJob), script, {}, 0) :
           j \in {Job(TRUE, FALSE), [Job(FALSE, TRUE) EXCEPT !.fails = TRUE],
                  [Job(TRUE, FALSE) EXCEPT !.interrupts = TRUE],
                  [Scanned EXCEPT !.interrupts = TRUE], [Scanned EXCEPT !.waits = FALSE],
                  [Job(TRUE, TRUE) EXCEPT !.hasty = TRUE],
                  [Job(FALSE, FALSE) EXCEPT !.hasty = TRUE]},
           script \in {Ends("FAILED"), Fails}}
  \cup {WaitingFor(Both(Job(FALSE, FALSE), j), Fails, {}, 0) :
           j \in {Job(TRUE, FALSE), Job(FALSE, FALSE)}}

MCConfig == Tables \cup Panels \cup Keyboards \cup Waits

===============================================================================
