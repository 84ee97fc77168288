------------------------------ MODULE CliSession ------------------------------
(***************************************************************************)
(* CLI processes beside a status stream that getters and scanners publish  *)
(* to: the dashboard of RunFleetTUI (cmd/watch.go), with its pump of       *)
(* events, its program, which handles one message at a time, and the loads *)
(* its panel starts, each in a goroutine of its own; and the waiters of    *)
(* ScanWait.                                                               *)
(***************************************************************************)
EXTENDS FleetModel, ScanWait

CONSTANTS
  Config,     \* the inputs tried, see ConfigType
  MaxLoads    \* bound: loads of one session

\* A configuration: the events to publish, with how many of them are there at the start;
\* the reports in the writer's directory; the keys pressed, and the terminal's heights;
\* whether the dashboard runs, and three bounds: whether its seed, its tail and the loads
\* may fail, and whether an event may be delivered twice; the jobs of the waiters and the
\* files they may find.
ConfigType ==
  \A c \in Config :
    /\ c.script \in Seq(Event) /\ c.already \in 0..Len(c.script)
    /\ c.reports \in Seq(Report)
    /\ {c.dashboard, c.seedFails, c.tailFails, c.loadFails, c.redelivers} \subseteq BOOLEAN
    /\ c.jobs \in [Waiter -> JobType]

ASSUME SessionAssumption == MaxLoads \in Nat /\ ConfigType

VARIABLES
  config,
  pump,      \* RunFleetTUI's goroutine: "off", "seed", "tail", "gone"
  next,      \* events its consumer delivered
  sending,   \* events it has to send to the program
  model,     \* the dashboard's FleetModel
  loads,     \* loads that were started: [kind, scan, at, result]
  from,      \* history: the consumer's position when it was created
  seeded,    \* history: the seed was read
  again,     \* history: events delivered twice
  evicted,   \* history: scans that were evicted
  kept       \* history: events the open panel took with no load of its history on its way

fleetVars == <<pump, next, sending, model, loads, from, seeded, again, evicted, kept>>
vars == <<config, stream, fleetVars, waitVars>>

Init ==
  /\ config \in Config
  /\ stream = SubSeq(config.script, 1, config.already)
  /\ pump = "off" /\ next = 0 /\ sending = <<>>
  /\ model = NewFleet /\ loads = <<>>
  /\ from = 0 /\ seeded = FALSE /\ again = {} /\ evicted = {} /\ kept = {}
  /\ WaitInit(config.jobs, config.names)

\* A getter or a scanner publishes; nothing is said of a scan before it was submitted.
Publish ==
  /\ Len(stream) < Len(config.script)
  /\ LET ev == config.script[Len(stream) + 1]
     IN  /\ \A w \in Waiter : job[w].submits /\ Scan(w) = ev.scan => ev.scan \in requested
         /\ stream' = Append(stream, ev)
  /\ UNCHANGED <<config, fleetVars, waitVars>>

-----------------------------------------------------------------------------
(* The pump.                                                               *)

pumpSame == <<config, stream, loads, waitVars>>

\* SubscribeStatusAll: the consumer delivers what is published from here on.
SubscribeStatusAll ==
  /\ pump = "off" /\ config.dashboard
  /\ pump' = "seed" /\ next' = Len(stream) /\ from' = Len(stream)
  /\ UNCHANGED <<pumpSame, sending, model, seeded, again, evicted, kept>>

\* The seed: ListHistory without a limit.
Seed ==
  /\ pump = "seed"
  /\ sending' \in ListHistory(stream, 0)
  /\ pump' = "tail" /\ seeded' = TRUE
  /\ UNCHANGED <<pumpSame, next, model, from, again, evicted, kept>>

\* A seed that fails is passed over.
SeedFails ==
  /\ pump = "seed" /\ config.seedFails
  /\ pump' = "tail"
  /\ UNCHANGED <<pumpSame, next, sending, model, from, seeded, again, evicted, kept>>

\* FetchStatusEvents: a batch, each event acknowledged.
TailBatch ==
  /\ pump = "tail" /\ sending = <<>>
  /\ \E n \in 1..FetchBatch :
       /\ next + n <= Len(stream)
       /\ sending' = SubSeq(stream, next + 1, next + n)
       /\ next' = next + n
  /\ UNCHANGED <<pumpSame, pump, model, from, seeded, again, evicted, kept>>

\* The acknowledgement of an event is lost: it comes again.
Redeliver ==
  /\ pump = "tail" /\ sending = <<>>
  /\ config.redelivers /\ again = {}
  /\ \E i \in (from + 1)..next :
       /\ sending' = <<stream[i]>>
       /\ again' = {stream[i].scan}
  /\ UNCHANGED <<pumpSame, pump, next, model, from, seeded, evicted, kept>>

\* A fetch that fails ends the dashboard.
TailFails ==
  /\ pump = "tail" /\ sending = <<>> /\ config.tailFails
  /\ pump' = "gone" /\ model' = [model EXCEPT !.quit = TRUE]
  /\ UNCHANGED <<pumpSame, next, sending, from, seeded, again, evicted, kept>>

\* A load that is not over and whose result the open panel would take.
Loading(kind) ==
  \E i \in DOMAIN loads : loads[i].kind = kind /\ loads[i].at # "over" /\ IsOpen(model, loads[i].scan)

\* The event of the open panel that Update hands to appendEvent.
Accepted(ev) ==
  /\ IsOpen(model, ev.scan)
  /\ ev.scan \in DOMAIN model.scans => Displays(ev, model.scans[ev.scan])

\* The program takes the next event.
Receive ==
  /\ sending # <<>> /\ ~model.quit
  /\ LET ev == Head(sending)
     IN  /\ model' \in FoldEvent(model, ev)
         /\ evicted' = evicted \cup ((DOMAIN model.scans \cup {ev.scan}) \ DOMAIN model'.scans)
         /\ kept' = IF Accepted(ev) /\ ~Loading("history") THEN kept \cup {ev} ELSE kept
  /\ sending' = Tail(sending)
  /\ UNCHANGED <<pumpSame, pump, next, from, seeded, again>>

-----------------------------------------------------------------------------
(* The operator and the loads.                                             *)

panelSame == <<config, stream, pump, next, sending, from, seeded, again, evicted, waitVars>>

NoResult == [err |-> FALSE, rows |-> <<>>]
NewLoad(kind, scan) == [kind |-> kind, scan |-> scan, at |-> "asked", result |-> NoResult]

\* The loads a key starts: loadHistoryCmd for a panel that opens, loadFindingsCmd for a tab
\* that was never loaded and for one that is asked again.
Commands(k) ==
  LET opens == ~model.filtering /\ model.view = "list" /\ k.key = "enter" /\ Sorted(model) # <<>>
      detail == ~model.filtering /\ model.view = "detail" /\ ~TypesFindingFilter(model)
  IN  IF opens THEN <<NewLoad("history", OpenPanel(model).detail.scan)>>
      ELSE IF detail /\ ((k.key = "tab" /\ WantsFindings(model)) \/ Retries(model, k))
             THEN <<NewLoad("findings", model.detail.scan)>> ELSE <<>>

\* A text is typed into a filter line only; there the other keys do nothing but esc, enter.
Typing == model.filtering \/ (model.view = "detail" /\ TypesFindingFilter(model))

\* Update for a KeyMsg.
Key ==
  /\ config.dashboard /\ pump # "off" /\ ~model.quit
  /\ \E k \in config.keys :
       /\ IF Typing THEN k.key \in {"type", "esc", "enter"} ELSE k.key # "type"
       /\ Len(loads) + Len(Commands(k)) <= MaxLoads
       /\ model' = UpdateKey(model, k)
       /\ loads' = loads \o Commands(k)
  /\ kept' = IF model'.view = "detail" /\ model.view = "detail" THEN kept ELSE {}
  /\ UNCHANGED panelSame

\* Update for a WindowSizeMsg.
Resize ==
  /\ config.dashboard /\ pump # "off" /\ ~model.quit
  /\ \E h \in config.heights : model' = [model EXCEPT !.height = h]
  /\ UNCHANGED <<panelSame, loads, kept>>

\* findings.Load: the rows the writer has so far, of the report its listing gives.
FindingsResults(scan) ==
  LET file == Resolved(config.reports, scan)
  IN  IF file = <<>> THEN {[NoResult EXCEPT !.err = TRUE]}
      ELSE {[NoResult EXCEPT !.rows = SubSeq(file[1].rows, 1, n)] : n \in 0..Len(file[1].rows)}

\* A load reads.
LoadReads ==
  /\ ~model.quit
  /\ \E i \in DOMAIN loads :
       /\ loads[i].at = "asked"
       /\ \E result \in (IF loads[i].kind = "history"
                           THEN {[NoResult EXCEPT !.rows = rows] :
                                  rows \in ShowHistory(stream, loads[i].scan)}
                           ELSE FindingsResults(loads[i].scan))
                        \cup (IF config.loadFails THEN {[NoResult EXCEPT !.err = TRUE]} ELSE {}) :
            loads' = [loads EXCEPT ![i] = [@ EXCEPT !.at = "read", !.result = result]]
  /\ UNCHANGED <<panelSame, model, kept>>

\* The program takes the result of a load, in any order.
LoadArrives ==
  /\ ~model.quit
  /\ \E i \in DOMAIN loads :
       /\ loads[i].at = "read"
       /\ model' = IF loads[i].kind = "history"
                     THEN ShowLoadedHistory(model, loads[i].scan, loads[i].result)
                     ELSE ShowLoadedFindings(model, loads[i].scan, loads[i].result)
       /\ loads' = [loads EXCEPT ![i] = [@ EXCEPT !.at = "over", !.result = NoResult]]
  /\ UNCHANGED <<panelSame, kept>>

Dashboard ==
  \/ SubscribeStatusAll \/ Seed \/ SeedFails \/ TailBatch \/ Redeliver \/ TailFails \/ Receive
  \/ Key \/ Resize \/ LoadReads \/ LoadArrives

fleetSame == <<config, fleetVars>>

Waiting ==
  \/ \E w \in Waiter : WaiterStep(w) /\ UNCHANGED fleetSame
  \/ (PublishReport \/ RemoveReport) /\ UNCHANGED fleetSame

Next == Publish \/ Dashboard \/ Waiting

\* A process that waits goes on: its fetches and its polls have deadlines, and the idle
\* timeout passes.  Nothing is assumed of the operator, or of what is published.
Goes(w) ==
  \/ Fetch(w) \/ FetchNothing(w) \/ FetchFails(w) \/ IdleTimeout(w) \/ WatchUpdate(w)
  \/ Quit(w) \/ Cleanup(w) \/ Probe(w) \/ CopyFile(w) \/ CopyFails(w)

Fairness == \A w \in Waiter : WF_vars(Goes(w) /\ UNCHANGED fleetSame)

Spec == Init /\ [][Next]_vars /\ Fairness

-----------------------------------------------------------------------------
(* Properties.                                                             *)

\* The events the dashboard was meant to show: all, or those since its subscription.
Meant == IF seeded THEN stream ELSE SubSeq(stream, from + 1, Len(stream))

UpToDate == pump = "tail" /\ sending = <<>> /\ next = Len(stream)

\* Two events of the scan that a second and a kind of state make equal, and a name not.
Ambiguous(scan) ==
  \E i, j \in DOMAIN stream :
    /\ stream[i].scan = scan /\ stream[j].scan = scan
    /\ stream[i].ts = stream[j].ts
    /\ IsTerminal(stream[i].state) = IsTerminal(stream[j].state)
    /\ <<stream[i].state, stream[i].source>> # <<stream[j].state, stream[j].source>>

\* Once the pump has nothing left to send, the dashboard shows of every scan it never
\* evicted what `harporis history` says: the same second, the same end and the same
\* counters, and the same state and source too unless an event came twice.  The events the
\* seed has counted come again from the subscription, older ones can come late, and the two
\* tables are kept by different code.
FleetAgrees ==
  UpToDate =>
    /\ DOMAIN model.scans \cup evicted = {Meant[i].scan : i \in DOMAIN Meant}
    /\ \A s \in DOMAIN model.scans \ evicted :
         LET row == model.scans[s]
             old == HistoryTable(Meant)[s]
         IN  /\ row.ts = old.ts /\ row.metrics = old.metrics
             /\ IsTerminal(row.state) = IsTerminal(old.state)
             /\ \/ row.state = old.state /\ row.source = old.source
                \/ s \in again /\ Ambiguous(s)

\* The panel shows one scan, whatever loads are on their way and events arrive: its header
\* is that scan's row, its history and its findings are that scan's, a tab that says
\* "loading" has a load on its way, and no event that came while no load was is lost.
PanelIsSound ==
  model.view = "detail" =>
    LET d == model.detail IN
    /\ d.scan \notin evicted => d.latest = <<model.scans[d.scan]>>
    /\ \A i \in DOMAIN d.history : d.history[i].scan = d.scan
    /\ \A i \in DOMAIN d.findings.loaded : d.findings.loaded[i].scan = d.scan
    /\ d.loading => Loading("history")
    /\ d.findings.loading => Loading("findings")
    /\ \A ev \in kept : \E i \in DOMAIN d.history :
         d.history[i].ts = ev.ts /\ d.history[i].state = ev.state

\* The exit code that an end seen stands for, 1 if the reports could not be copied.  The
\* panel may take a later attempt's failure for the scan's while it quits.
Outcome(w) ==
  LET seen == wait[w].seen
      failed == {i \in DOMAIN seen : seen[i].state \in {"FAILED", "CANCELLED"}}
  IN  /\ FirstEnd(seen) # 0
      /\ wait[w].code \in IF failed # {} THEN {3} ELSE IF job[w].copies THEN {0, 1} ELSE {0}
      /\ ~job[w].panel => FirstEnd(seen) = Len(seen)

\* The events a wait of its own took are the scan's from the first on; one that gave up
\* after an empty fetch gave up on a scan that had no end by then.
Complete(w) ==
  /\ IsPrefix(wait[w].seen, EventsOf(stream, Scan(w)))
  /\ wait[w].why = "idle" /\ wait[w].quiet =>
       FirstEnd(EventsOf(SubSeq(stream, 1, wait[w].asOf), Scan(w))) = 0

\* What the end of a wait says: as its code the outcome of the scan, or a timeout, which
\* the panel does not tell from other errors.
Told(w) ==
  CASE wait[w].why = "end"   -> Outcome(w)
    [] wait[w].why = "idle"  -> wait[w].code = IF job[w].panel THEN 2 ELSE 124
    [] wait[w].why = "error" -> wait[w].code \in {1, 2}
    [] OTHER                 -> TRUE

\* Whoever waits for a scan is told the truth: the wait ends, with the code of an end the
\* scan had or of the reason it gave up, and it missed no event, an end that was published
\* before it came included, unless another process waited for the same scan and took
\* events, or the consumer.  What is copied is reports of that scan.
WaitEnds ==
  \A w \in Waiter :
    At(w, "wait") ~>
      /\ At(w, "done")
      /\ Told(w) /\ (wait[w].shared \/ Complete(w))
      /\ \A f \in wait[w].copied : f.scan = Scan(w) /\ ~f.temp /\ wait[w].why \in {"end", "interrupt"}

===============================================================================
