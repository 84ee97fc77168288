----------------------------- MODULE WriterService ----------------------------
(***************************************************************************)
(* The writer (services/writer/cmd/writer/main.go): workers drain the      *)
(* FINDINGS queue and hand every finding to the sinks in a fixed order,    *)
(* NDJSON first; a terminal scan status arms a timer that finalizes the    *)
(* report; a signal shuts the process down in order, a crash at once, and  *)
(* in both cases it is started again.                                      *)
(*                                                                         *)
(* The queue is WorkQueue, the streaming report sink is ReportSink, the    *)
(* NDJSON sink is the set of findings its files hold: an append is one     *)
(* write(2) under the file's mutex, and survives the process.              *)
(***************************************************************************)
EXTENDS ReportSink, FiniteSets

CONSTANTS
  BatchSize, MaxDeliver, MaxAckPending,
  Poison,        \* messages whose payload does not unmarshal
  Filtered,      \* findings below the configured severities
  Formats,       \* Finding.output_formats, as a set of sinks; {} means every sink
  MaxRestarts,   \* bound: how often the process is stopped or dies
  NDJSONMayFail  \* whether opening or appending to an NDJSON file may fail

ASSUME WriterAssumption ==
  /\ IsFiniteSet(Finding)
  /\ BatchSize \in Nat \ {0} /\ MaxDeliver \in Nat \ {0} /\ MaxAckPending \in Nat \ {0}
  /\ Poison \subseteq Finding /\ Filtered \subseteq Finding
  /\ Formats \in [Finding -> SUBSET {"ndjson", "report"}]
  /\ MaxRestarts \in Nat /\ NDJSONMayFail \in BOOLEAN

VARIABLES
  state, tries, batch,   \* the FINDINGS queue and its consumers, see WorkQueue
  proc,       \* "up", "stopping" (rootCtx cancelled), "closing" (sinks closed)
  hand,       \* the sink each worker's handler calls next
  ndjson,     \* findings in the NDJSON files
  ndClosed,   \* NDJSONFile.closed
  ended,      \* scans with a terminal status
  timer,      \* scans with an armed time.AfterFunc
  byTimer,    \* documents a timer's goroutine took and has not published
  skipped,    \* history: findings the report sink dropped as stragglers
  restarts

Queue == INSTANCE WorkQueue WITH Msg <- Finding

queueVars == <<state, tries, batch>>
procVars  == <<proc, ended, timer, byTimer, restarts>>
writerVars == <<sinkVars, queueVars, procVars, hand, ndjson, ndClosed, skipped>>

WriterInit ==
  /\ SinkInit /\ Queue!QueueInit
  /\ proc = "up"
  /\ hand = [w \in Worker |-> "ndjson"]
  /\ ndjson = {} /\ ndClosed = FALSE
  /\ ended = {} /\ timer = {} /\ byTimer = {}
  /\ skipped = {}
  /\ restarts = 0

\* WantedByFinding.  A payload that does not unmarshal and a severity that is not
\* kept are acknowledged like a finding no sink is wanted for.
Wants(f, sink) ==
  /\ f \notin Poison \cup Filtered
  /\ Formats[f] = {} \/ sink \in Formats[f]

-----------------------------------------------------------------------------
(* The queue's own steps.                                                  *)

PublishFinding(f) ==
  /\ Queue!Publish(f)
  /\ UNCHANGED <<sinkVars, procVars, hand, ndjson, ndClosed, skipped>>

\* The loop stops fetching once its context is cancelled.
FetchBatch(w) ==
  /\ proc = "up"
  /\ Queue!Fetch(w)
  /\ UNCHANGED <<sinkVars, procVars, hand, ndjson, ndClosed, skipped>>

AckWaitExpires(f) ==
  /\ Queue!Expire(f, IF proc = "up" THEN {} ELSE Worker)
  /\ UNCHANGED <<sinkVars, procVars, hand, ndjson, ndClosed, skipped>>

-----------------------------------------------------------------------------
(* The handler of the finding in hand.                                     *)

\* handleOne settles the message; the next one starts with the first sink.
Done(w) ==
  /\ Queue!Ack(w) \/ Queue!Unanswered(w)
  /\ hand' = [hand EXCEPT ![w] = "ndjson"]

Fail(w) ==
  /\ Queue!Nak(w) \/ Queue!Unanswered(w)
  /\ hand' = [hand EXCEPT ![w] = "ndjson"]

\* The finding in hand is about to be written to the given sink.
AtSink(w, sink) ==
  /\ Queue!Busy(w)
  /\ hand[w] = sink
  /\ call[w] = Idle

\* What follows the NDJSON sink: the report sink, or the end of the loop.
AfterNDJSON(w) ==
  IF Wants(Queue!InHand(w), "report")
  THEN hand' = [hand EXCEPT ![w] = "report"] /\ UNCHANGED queueVars
  ELSE Done(w)

\* The finding does not want NDJSON.
SkipNDJSON(w) ==
  /\ AtSink(w, "ndjson")
  /\ ~Wants(Queue!InHand(w), "ndjson")
  /\ AfterNDJSON(w)
  /\ UNCHANGED <<sinkVars, procVars, ndjson, ndClosed, skipped>>

\* NDJSONFile.Write: acquire locks the file before it lets go of the sink, so Close
\* cannot come in between; the line is appended.
WriteNDJSON(w) ==
  /\ AtSink(w, "ndjson")
  /\ Wants(Queue!InHand(w), "ndjson")
  /\ proc = "up" /\ ~ndClosed
  /\ ndjson' = ndjson \cup {Queue!InHand(w)}
  /\ AfterNDJSON(w)
  /\ UNCHANGED <<sinkVars, procVars, ndClosed, skipped>>

\* Mutant: an error is logged and the loop goes on with the next sink.
NDJSONErrorIgnored(w) ==
  /\ AtSink(w, "ndjson")
  /\ Wants(Queue!InHand(w), "ndjson")
  /\ proc # "up" \/ ndClosed \/ NDJSONMayFail
  /\ AfterNDJSON(w)
  /\ UNCHANGED <<sinkVars, procVars, ndjson, ndClosed, skipped>>

\* The context is cancelled, the sink is closed, or the file cannot be opened or
\* written: the first error ends the loop over the sinks.
NDJSONFails(w) ==
  /\ AtSink(w, "ndjson")
  /\ Wants(Queue!InHand(w), "ndjson")
  /\ proc # "up" \/ ndClosed \/ NDJSONMayFail
  /\ Fail(w)
  /\ UNCHANGED <<sinkVars, procVars, ndjson, ndClosed, skipped>>

\* The report sink's Write looks its document up ...
EnterReport(w) ==
  /\ AtSink(w, "report")
  /\ proc = "up"
  /\ WriteJoin(w, Queue!InHand(w)) \/ WriteOpen(w, Queue!InHand(w))
  /\ UNCHANGED <<queueVars, procVars, hand, ndjson, ndClosed, skipped>>

\* ... fails before it gets one ...
ReportRefuses(w) ==
  /\ AtSink(w, "report")
  /\ \/ proc # "up" /\ UNCHANGED sinkVars
     \/ WriteRejected(w)
     \/ WriteOpenFails(w, Queue!InHand(w))
  /\ Fail(w)
  /\ UNCHANGED <<procVars, ndjson, ndClosed, skipped>>

\* ... drops a straggler, which is acknowledged ...
ReportSkips(w) ==
  /\ AtSink(w, "report")
  /\ proc = "up"
  /\ WriteStraggler(w, Queue!InHand(w))
  /\ skipped' = skipped \cup {Queue!InHand(w)}
  /\ Done(w)
  /\ UNCHANGED <<procVars, ndjson, ndClosed>>

\* ... and later appends its row, or finds that it cannot.
ReportAppends(w) ==
  /\ RowAppended(w)
  /\ Done(w)
  /\ UNCHANGED <<procVars, ndjson, ndClosed, skipped>>

\* Mutant: the report's error does not reach the consumer loop.
ReportErrorIgnored(w) ==
  /\ RowFails(w)
  /\ Done(w)
  /\ UNCHANGED <<procVars, ndjson, ndClosed, skipped>>

ReportFails(w) ==
  /\ RowFails(w)
  /\ Fail(w)
  /\ UNCHANGED <<procVars, ndjson, ndClosed, skipped>>

-----------------------------------------------------------------------------
(* Finishing reports.                                                      *)

\* A terminal status is published and seen by the status consumer, which arms a
\* timer.  Its subscription is ephemeral and delivers new events only: a process that
\* is not up never learns of this one.
Terminal(s) ==
  /\ s \notin ended
  /\ ended' = ended \cup {s}
  /\ timer' = IF proc = "up" THEN timer \cup {s} ELSE timer
  /\ UNCHANGED <<sinkVars, queueVars, proc, byTimer, restarts,
                 hand, ndjson, ndClosed, skipped>>

\* The grace period is over: Finalize of every sink that has one.  The timer belongs
\* to nobody: it fires whatever the shutdown is doing.
TimerFires(s) ==
  /\ s \in timer
  /\ timer' = timer \ {s}
  /\ \/ Finalize(s) /\ byTimer' = byTimer \cup {open[s]}
     \/ (closed \/ open[s] = NoDoc) /\ UNCHANGED <<sinkVars, byTimer>>
  /\ UNCHANGED <<queueVars, proc, ended, restarts, hand, ndjson, ndClosed, skipped>>

Sweep(s) ==
  /\ SweepIdle(s)
  /\ UNCHANGED <<queueVars, procVars, hand, ndjson, ndClosed, skipped>>

PublishReport(d) ==
  /\ Publish(d)
  /\ byTimer' = byTimer \ {d}
  /\ UNCHANGED <<queueVars, proc, ended, timer, restarts, hand, ndjson, ndClosed,
                 skipped>>

-----------------------------------------------------------------------------
(* Shutdown and crash.                                                     *)

\* A signal cancels rootCtx, which every handler's context derives from.
Stop ==
  /\ proc = "up" /\ restarts < MaxRestarts
  /\ proc' = "stopping"
  /\ UNCHANGED <<sinkVars, queueVars, ended, timer, byTimer, restarts,
                 hand, ndjson, ndClosed, skipped>>

\* The workers are drained, or 30 seconds have passed: every sink is closed.
CloseSinks ==
  /\ proc = "stopping"
  /\ proc' = "closing"
  /\ ndClosed' = TRUE
  /\ CloseSink
  /\ UNCHANGED <<queueVars, ended, timer, byTimer, restarts, hand, ndjson, skipped>>

\* What a process forgets when it is gone, however it ended, and starts up again.
Restart ==
  /\ Crash
  /\ Queue!DropBatches(Worker)
  /\ proc' = "up"
  /\ restarts' = restarts + 1
  /\ timer' = {} /\ byTimer' = {}
  /\ hand' = [w \in Worker |-> "ndjson"]
  /\ ndClosed' = FALSE
  /\ UNCHANGED <<ended, ndjson, skipped>>

\* main returns when every sink's Close has, which waits for the documents Close and
\* the sweeper took and not for those a timer's goroutine is publishing.
Exit ==
  /\ proc = "closing"
  /\ pending \subseteq byTimer
  /\ Restart

Killed ==
  /\ restarts < MaxRestarts
  /\ Restart

-----------------------------------------------------------------------------
WorkerStep(w) ==
  \/ SkipNDJSON(w) \/ WriteNDJSON(w) \/ NDJSONFails(w)
  \/ EnterReport(w) \/ ReportRefuses(w) \/ ReportSkips(w)
  \/ ReportAppends(w) \/ ReportFails(w)

\* The steps of a process that is never killed.
OrderlyNext ==
  \/ \E f \in Finding : PublishFinding(f) \/ AckWaitExpires(f)
  \/ \E w \in Worker : FetchBatch(w) \/ WorkerStep(w)
  \/ \E s \in Scan : Terminal(s) \/ TimerFires(s) \/ Sweep(s)
  \/ \E d \in Doc : PublishReport(d)
  \/ Stop \/ CloseSinks \/ Exit

WriterNext == OrderlyNext \/ Killed

WriterSpec  == WriterInit /\ [][WriterNext]_writerVars
OrderlySpec == WriterInit /\ [][OrderlyNext]_writerVars

-----------------------------------------------------------------------------
(* Type correctness of the composition.                                    *)
WriterTypeOK ==
  /\ SinkTypeOK /\ Queue!QueueTypeOK
  /\ proc \in {"up", "stopping", "closing"}
  /\ hand \in [Worker -> {"ndjson", "report"}]
  /\ ndjson \subseteq Finding /\ skipped \subseteq Finding
  /\ ended \subseteq Scan /\ timer \subseteq Scan
  /\ byTimer \subseteq pending
  /\ restarts \in 0 .. MaxRestarts

\* An acknowledged finding that wants NDJSON is in its file, across crashes, orderly
\* stops, redeliveries and failed writes.
AckedInNDJSON ==
  \A f \in Finding : state[f] = "acked" /\ Wants(f, "ndjson") => f \in ndjson

\* The report of a scan and its open document hold nothing the NDJSON file misses: a
\* finding reaches the report sink only after NDJSON took it.
ReportWithinNDJSON ==
  \A s \in Scan : \A f \in report[s] \cup UNION {Range(doc[d].rows) : d \in Doc} :
    Wants(f, "ndjson") => f \in ndjson

\* A finding acknowledged by a process that has not been restarted since is in the
\* report, on its way there, or one of three known losses: a straggler,
\* a document that could not be published, a scan the FIFO forgot.
AckedReported ==
  \A f \in Finding : state[f] = "acked" /\ Wants(f, "report") =>
    \/ f \in acked /\ (\/ f \in report[ScanOf[f]]
                       \/ \E d \in Live : f \in Range(doc[d].rows))
    \/ f \in skipped \cup lost
    \/ ScanOf[f] \in evicted
    \/ restarts > 0

\* What Sink promises (sink.go): no finding whose message was acknowledged is lost
\* with the process.  Checked of a process that is stopped in order and never killed.
AckedSurvives ==
  \A f \in Finding : state[f] = "acked" /\ f \in lost =>
    \/ f \in report[ScanOf[f]]
    \/ \E d \in Live : f \in Range(doc[d].rows)

===============================================================================
