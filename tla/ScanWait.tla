------------------------------- MODULE ScanWait -------------------------------
(***************************************************************************)
(* `harporis scan`, which submits a scan, waits for its end and copies its *)
(* reports to the host (cmd/scan.go), and `harporis watch <scan-id>`,      *)
(* which only waits: as lines (StreamStatusLines) or as a panel            *)
(* (RunWatchTUI, internal/tui/watch_model.go).  All that wait for a scan   *)
(* have one consumer of the stream, named after the scan                   *)
(* (natscli.SubscribeStatus).                                              *)
(***************************************************************************)
EXTENDS ScanStatus

CONSTANTS
  Waiter,       \* the CLI processes
  FetchBatch    \* statusFetchBatch

ASSUME WaitAssumption == FetchBatch \in Nat \ {0}

VARIABLES
  job,        \* what each waiter is asked, see JobType
  wait,       \* what each waiter does, see Idle
  consumer,   \* per scan, the number of events delivered; Absent: no consumer
  requested,  \* scans that were submitted
  dir         \* the writer's findings directory: records [scan, ext, temp]

\* The command: whether it has a panel, submits the scan, waits for it, and copies the
\* reports; hasty: its --timeout is zero, or so small that it is over at once; and two
\* bounds: whether it may fail to start, and be interrupted.
JobType == [scan : ToSet(TextOrder), panel : BOOLEAN, submits : BOOLEAN, waits : BOOLEAN,
            copies : BOOLEAN, hasty : BOOLEAN, fails : BOOLEAN, interrupts : BOOLEAN]

waitVars == <<job, wait, consumer, requested, dir>>

Absent == -1

\* at: "off", "subscribe", "wait", "quit" (tea.Quit was returned), "leave", "copy", "done";
\* queue: events the panel's pump has to send; seen: the events taken; code: the exit code;
\* listed: the last listing of the reports, stable: it was the same twice; copied: what was
\* copied; quiet: the last fetch was empty.  History: why it ended, asOf: the stream's length
\* at that fetch, shared: another waiter had the same consumer.
Idle == [at |-> "off", queue |-> <<>>, seen |-> <<>>, code |-> 0, listed |-> {}, copied |-> {},
         stable |-> FALSE, quiet |-> FALSE, why |-> "", asOf |-> 0, shared |-> FALSE]

WaitInit(jobs, names) ==
  /\ job = jobs
  /\ wait = [w \in Waiter |-> Idle]
  /\ consumer = [s \in {jobs[w].scan : w \in Waiter} |-> Absent]
  /\ requested = {} /\ dir = names

Scan(w) == job[w].scan
At(w, where) == wait[w].at = where
Become(w, state) == wait' = [wait EXCEPT ![w] = state]

\* terminalExitCode.
TerminalExitCode(state) == IF state \in {"FAILED", "CANCELLED"} THEN 3 ELSE 0

-----------------------------------------------------------------------------
(* newScanCmd and SubscribeStatus.                                         *)

\* The request is published; without --no-wait the command goes on to wait.
Submit(w) ==
  /\ At(w, "off") /\ job[w].submits
  /\ requested' = requested \cup {Scan(w)}
  /\ Become(w, [wait[w] EXCEPT !.at = IF job[w].waits THEN "subscribe" ELSE "done",
                               !.why = IF job[w].waits THEN "" ELSE "submitted"])
  /\ UNCHANGED <<job, consumer, dir, stream>>

\* Dial, EnsureStreams, the publish or the subscription fails.
CommandFails(w) ==
  /\ At(w, "off") \/ At(w, "subscribe")
  /\ job[w].fails
  /\ Become(w, [wait[w] EXCEPT !.at = "done", !.code = 1, !.why = "error"])
  /\ UNCHANGED <<job, consumer, requested, dir, stream>>

\* Waiters of the same scan that hold its consumer.
Sharing(w) == {v \in Waiter : Scan(v) = Scan(w) /\ wait[v].at \in {"wait", "quit", "leave"}}

\* Mutant: the consumer starts behind the last event.
SubscribeNew(w) ==
  /\ At(w, IF job[w].submits THEN "subscribe" ELSE "off") /\ job[w].waits
  /\ consumer' = [consumer EXCEPT ![Scan(w)] =
                    IF @ = Absent THEN Len(EventsOf(stream, Scan(w))) ELSE @]
  /\ wait' = [v \in Waiter |->
                IF v = w THEN [wait[v] EXCEPT !.at = "wait", !.shared = Sharing(w) # {}]
                ELSE IF v \in Sharing(w) THEN [wait[v] EXCEPT !.shared = TRUE] ELSE wait[v]]
  /\ UNCHANGED <<job, requested, dir, stream>>

\* SubscribeStatus: a new consumer delivers the scan's events from the first on; one that
\* is there is shared as it is.
SubscribeStatus(w) ==
  /\ At(w, IF job[w].submits THEN "subscribe" ELSE "off") /\ job[w].waits
  /\ consumer' = [consumer EXCEPT ![Scan(w)] = Larger(@, 0)]
  /\ wait' = [v \in Waiter |->
                IF v = w THEN [wait[v] EXCEPT !.at = "wait", !.shared = Sharing(w) # {}]
                ELSE IF v \in Sharing(w) THEN [wait[v] EXCEPT !.shared = TRUE] ELSE wait[v]]
  /\ UNCHANGED <<job, requested, dir, stream>>

\* The events the consumer has not delivered.
Undelivered(w) ==
  LET own == EventsOf(stream, Scan(w)) IN SubSeq(own, consumer[Scan(w)] + 1, Len(own))

\* The pump of a panel fetches until the program ends or it has sent an error.
Fetches(w) ==
  /\ At(w, "wait") \/ (job[w].panel /\ At(w, "quit") /\ wait[w].why \in {"end", "interrupt"})
  /\ wait[w].queue = <<>>

\* The first event of a batch that ends the scan, 0 if none does.
FirstEnd(events) == SelectInSeq(events, LAMBDA e : IsTerminal(e.state))

\* FetchStatusEvents returns a batch: as lines the events are printed up to the first
\* that ends the scan; a pump starts to send them.
Fetch(w) ==
  /\ Fetches(w) /\ consumer[Scan(w)] # Absent
  /\ \E n \in 1..FetchBatch :
       /\ n <= Len(Undelivered(w))
       /\ consumer' = [consumer EXCEPT ![Scan(w)] = @ + n]
       /\ LET batch == SubSeq(Undelivered(w), 1, n)
              end   == FirstEnd(batch)
              next  == [wait[w] EXCEPT !.quiet = FALSE]
          IN  Become(w, IF job[w].panel THEN [next EXCEPT !.queue = batch]
                        ELSE IF end = 0 THEN [next EXCEPT !.seen = @ \o batch]
                        ELSE [next EXCEPT !.seen = @ \o SubSeq(batch, 1, end), !.at = "leave",
                                          !.why = "end",
                                          !.code = TerminalExitCode(batch[end].state)])
  /\ UNCHANGED <<job, requested, dir, stream>>

\* The fetch's deadline passes without an event.
FetchNothing(w) ==
  /\ At(w, "wait") /\ Fetches(w) /\ consumer[Scan(w)] # Absent
  /\ Undelivered(w) = <<>>
  /\ Become(w, [wait[w] EXCEPT !.quiet = TRUE, !.asOf = Len(stream)])
  /\ UNCHANGED <<job, consumer, requested, dir, stream>>

\* A wait that ends with an error: the panel is told and quits with code 2.
GiveUp(w, why, code) ==
  Become(w, [wait[w] EXCEPT !.at = IF job[w].panel THEN "quit" ELSE "leave",
                            !.why = why, !.code = IF job[w].panel THEN 2 ELSE code])

\* The consumer is gone: another waiter deleted it when it left.
FetchFails(w) ==
  /\ Fetches(w) /\ consumer[Scan(w)] = Absent
  /\ GiveUp(w, "error", 1)
  /\ UNCHANGED <<job, consumer, requested, dir, stream>>

\* The idle timeout passed since the last event, at the head of the loop: a fetch found
\* nothing, or the timeout is too small to wait for one.
IdleTimeout(w) ==
  /\ Fetches(w)
  /\ wait[w].quiet \/ job[w].hasty
  /\ GiveUp(w, "idle", 124)
  /\ UNCHANGED <<job, consumer, requested, dir, stream>>

\* Ctrl-C: as lines the wait ends with success; the panel with the code it has.
Interrupt(w) ==
  /\ At(w, "wait") /\ job[w].interrupts
  /\ Become(w, [wait[w] EXCEPT !.at = IF job[w].panel THEN "quit" ELSE "leave",
                               !.why = "interrupt"])
  /\ UNCHANGED <<job, consumer, requested, dir, stream>>

\* WatchModel.Update for a StatusEventMsg; after tea.Quit it may still be called.
WatchUpdate(w) ==
  /\ At(w, "wait") \/ At(w, "quit")
  /\ wait[w].queue # <<>>
  /\ LET ev == Head(wait[w].queue)
         next == [wait[w] EXCEPT !.queue = Tail(@), !.seen = Append(@, ev)]
     IN  Become(w, IF ~IsTerminal(ev.state) THEN next
                   ELSE [next EXCEPT !.at = "quit",
                                     !.why = IF At(w, "wait") THEN "end" ELSE @,
                                     !.code = IF TerminalExitCode(ev.state) = 3 THEN 3 ELSE @])
  /\ UNCHANGED <<job, consumer, requested, dir, stream>>

\* The program handles the QuitMsg and Run returns.
Quit(w) ==
  /\ At(w, "quit")
  /\ Become(w, [wait[w] EXCEPT !.at = "leave", !.queue = <<>>])
  /\ UNCHANGED <<job, consumer, requested, dir, stream>>

\* The deferred cleanup deletes the consumer; `scan -o` goes on if the wait succeeded.
Cleanup(w) ==
  /\ At(w, "leave")
  /\ consumer' = [consumer EXCEPT ![Scan(w)] = Absent]
  /\ Become(w, [wait[w] EXCEPT !.at = IF job[w].copies /\ wait[w].code = 0 THEN "copy" ELSE "done"])
  /\ UNCHANGED <<job, requested, dir, stream>>

-----------------------------------------------------------------------------
(* copyFindingsToHost.                                                     *)

\* filterFindingsForScan.
FilterFindings(names, scan) == {f \in names : f.scan = scan /\ ~f.temp}

\* waitForFindingsStable, a probe: two equal listings that are not empty are stable.
Probe(w) ==
  /\ At(w, "copy") /\ ~wait[w].stable
  /\ LET names == FilterFindings(dir, Scan(w))
     IN  Become(w, [wait[w] EXCEPT !.listed = names,
                                   !.stable = (names # {} /\ names = wait[w].listed)])
  /\ UNCHANGED <<job, consumer, requested, dir, stream>>

\* The next file is copied; after the last one the command returns.
CopyFile(w) ==
  /\ At(w, "copy") /\ wait[w].stable
  /\ \E f \in (wait[w].listed \ wait[w].copied) \cap dir :
       LET copied == wait[w].copied \cup {f}
       IN  Become(w, [wait[w] EXCEPT !.copied = copied,
                                     !.at = IF copied = wait[w].listed THEN "done" ELSE "copy"])
  /\ UNCHANGED <<job, consumer, requested, dir, stream>>

\* The deadline passes, the writer cannot be asked, or a listed file is gone.
CopyFails(w) ==
  /\ At(w, "copy")
  /\ wait[w].stable => \E f \in wait[w].listed \ wait[w].copied : f \notin dir
  /\ Become(w, [wait[w] EXCEPT !.at = "done", !.code = 1])
  /\ UNCHANGED <<job, consumer, requested, dir, stream>>

\* The writer renames a tempfile to the report it is for.
PublishReport ==
  /\ \E f \in dir : f.temp /\ dir' = (dir \ {f}) \cup {[f EXCEPT !.temp = FALSE]}
  /\ UNCHANGED <<job, wait, consumer, requested, stream>>

\* Retention removes a report.
RemoveReport ==
  /\ \E f \in dir : f.retained /\ ~f.temp /\ dir' = dir \ {f}
  /\ UNCHANGED <<job, wait, consumer, requested, stream>>

WaiterStep(w) ==
  \/ Submit(w) \/ CommandFails(w) \/ SubscribeStatus(w) \/ Fetch(w) \/ FetchNothing(w)
  \/ FetchFails(w) \/ IdleTimeout(w) \/ Interrupt(w) \/ WatchUpdate(w) \/ Quit(w)
  \/ Cleanup(w) \/ Probe(w) \/ CopyFile(w) \/ CopyFails(w)

===============================================================================
