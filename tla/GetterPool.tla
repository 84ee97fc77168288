------------------------------ MODULE GetterPool ------------------------------
(***************************************************************************)
(* Getters taking scan requests from the REQUESTS queue: the subscription  *)
(* (internal/nats/requests.go), the dispatcher (cmd/getter/main.go), the   *)
(* registry and cancel subscription, and the runner's state machine        *)
(* (internal/scan/runner.go).  A request is a message of WorkQueue, a      *)
(* getter is one of its workers: the client library calls a subscription's *)
(* handler for one message at a time.                                      *)
(*                                                                         *)
(* A scan is a set of blobs to publish as chunks.  The walker emits them,  *)
(* the runner's workers publish what was emitted, and either can fail or   *)
(* be cancelled in between.  A worker reads its blobs from a cat-file of   *)
(* its own, which ends with the context of the run or by itself: the blob  *)
(* it is in the middle of then ends early, and counts as scanned.          *)
(***************************************************************************)
EXTENDS WorkQueue

CONSTANTS
  ScanOf,       \* the scan id of each request; a client may submit one id twice
  Scan, Blob,
  Valid,        \* requests that unmarshal and that the dispatcher accepts
  Faults,       \* what may fail: "clone", "walk", "publish", "status", "cat-file"
  CatFiles,     \* the workers of a run, each with a cat-file of its own
  MaxRestarts   \* bound: how often a getter is stopped or dies

Request == Msg
Getter  == Worker

ASSUME GetterAssumption ==
  /\ ScanOf \in [Request -> Scan]
  /\ Valid \subseteq Request
  /\ Faults \subseteq {"clone", "walk", "publish", "status", "cat-file"}
  /\ IsFiniteSet(Blob) /\ CatFiles \in Nat \ {0}
  /\ MaxRestarts \in Nat

VARIABLES
  run,       \* what each getter's handler is doing, see RunState
  stopping,  \* getters whose rootCtx is cancelled
  chunks,    \* blobs of each scan that are in the CHUNKS stream in full
  status,    \* events in the STATUS stream, see Event
  unsaid,    \* history: scans with an end that could not be published
  lost,      \* history: blobs of each scan cut off in a run that completed with no errors
  asked,     \* scans a client has asked to cancel
  restarts

statusVars == <<status, unsaid, lost>>
envVars    == <<stopping, asked, restarts>>
getterVars == <<queueVars, run, chunks, statusVars, envVars>>

\* phase: no handler | PrepareRepo | Run | the final status is out
\* walk:  the walker goroutine, and how it ended
\* errs:  Context.Errors # 0;  dead: runCtx is cancelled;  outcome: the final state
\* cut:   blobs whose cat-file ended before they did
RunState ==
  [phase : {"none", "clone", "run", "final"},
   walk : {"on", "done", "failed"},
   left : SUBSET Blob, jobs : SUBSET Blob,
   errs : BOOLEAN, dead : BOOLEAN, cut : SUBSET Blob,
   outcome : {"RUNNING", "COMPLETED", "FAILED", "CANCELLED"}]

NoRun == [phase |-> "none", walk |-> "on", left |-> {}, jobs |-> {},
          errs |-> FALSE, dead |-> FALSE, cut |-> {}, outcome |-> "RUNNING"]

\* The state of a status event; of COMPLETED, whether its metrics report errors.
Event == {"RUNNING", "COMPLETED", "COMPLETED with errors", "FAILED", "CANCELLED"}

GetterInit ==
  /\ QueueInit
  /\ run = [g \in Getter |-> NoRun]
  /\ stopping = {}
  /\ chunks = [s \in Scan |-> {}]
  /\ status = [s \in Scan |-> {}] /\ unsaid = {} /\ lost = [s \in Scan |-> {}]
  /\ asked = {}
  /\ restarts = 0

ScanOn(g) == ScanOf[InHand(g)]

\* publishWithRetry of a status event: its failure is only logged.
EmitStatus(s, ev) ==
  \/ status' = [status EXCEPT ![s] = @ \cup {ev}] /\ UNCHANGED unsaid
  \/ /\ "status" \in Faults
     /\ unsaid' = IF ev = "RUNNING" THEN unsaid ELSE unsaid \cup {s}
     /\ UNCHANGED status

-----------------------------------------------------------------------------
(* The queue's own steps.                                                  *)

Submit(r) == Publish(r) /\ UNCHANGED <<run, chunks, statusVars, envVars>>

Receive(g, r) ==
  /\ g \notin stopping
  /\ Push(g, r)
  /\ UNCHANGED <<run, chunks, statusVars, envVars>>

AckWaitExpires(r) ==
  Expire(r, stopping) /\ UNCHANGED <<run, chunks, statusVars, envVars>>

-----------------------------------------------------------------------------
(* The handler of a request.                                               *)

\* A payload that does not unmarshal is terminated (Ack); a bad scan id, type or
\* source is the dispatcher's error (Nak).  No property tells the two apart.
Refuse(g) ==
  /\ Busy(g) /\ run[g].phase = "none"
  /\ InHand(g) \notin Valid
  /\ Ack(g) \/ Nak(g) \/ Unanswered(g)
  /\ UNCHANGED <<run, chunks, statusVars, envVars>>

\* The scan is registered under this getter and its run context derived from the
\* process's.  The registry never objects: it is this process's own, and the
\* subscription runs one handler at a time.
Register(g) ==
  /\ Busy(g) /\ run[g].phase = "none"
  /\ InHand(g) \in Valid
  /\ run' = [run EXCEPT ![g] = [NoRun EXCEPT !.phase = "clone",
                                             !.dead = g \in stopping]]
  /\ UNCHANGED <<queueVars, chunks, statusVars, envVars>>

\* PrepareRepo fails: the dispatcher returns, and no status is published.
CloneFails(g) ==
  /\ run[g].phase = "clone"
  /\ run[g].dead \/ "clone" \in Faults
  /\ run' = [run EXCEPT ![g] = NoRun]
  /\ Nak(g) \/ Unanswered(g)
  /\ UNCHANGED <<chunks, statusVars, envVars>>

\* The runner starts: PENDING to RUNNING, a status under the run context, the walk.
StartRun(g) ==
  /\ run[g].phase = "clone"
  /\ run' = [run EXCEPT ![g].phase = "run", ![g].left = Blob]
  /\ IF run[g].dead
     THEN UNCHANGED <<status, unsaid>>
     ELSE EmitStatus(ScanOn(g), "RUNNING")
  /\ UNCHANGED lost
  /\ UNCHANGED <<queueVars, chunks, envVars>>

Walking(g) == run[g].phase = "run" /\ run[g].walk = "on"

\* The walker hands a blob to the workers.  A cancelled context does not keep its
\* select from choosing the channel.
EmitBlob(g, b) ==
  /\ Walking(g)
  /\ b \in run[g].left
  /\ run' = [run EXCEPT ![g].left = @ \ {b}, ![g].jobs = @ \cup {b}]
  /\ UNCHANGED <<queueVars, chunks, statusVars, envVars>>

WalkDone(g) ==
  /\ Walking(g)
  /\ run[g].left = {}
  /\ run' = [run EXCEPT ![g].walk = "done"]
  /\ UNCHANGED <<queueVars, chunks, statusVars, envVars>>

WalkCancelled(g) ==
  /\ Walking(g)
  /\ run[g].dead
  /\ run' = [run EXCEPT ![g].walk = "failed", ![g].left = {}]
  /\ UNCHANGED <<queueVars, chunks, statusVars, envVars>>

\* git fails under the walker, or a worker cannot spawn its cat-file: the workers that
\* did go on with what was emitted, and if none did it is dropped.
WalkFails(g) ==
  /\ Walking(g)
  /\ "walk" \in Faults
  /\ \E jobs \in {run[g].jobs, {}} :
       run' = [run EXCEPT ![g].walk = "failed", ![g].left = {}, ![g].jobs = jobs]
  /\ UNCHANGED <<queueVars, chunks, statusVars, envVars>>

\* processBlob: the chunk is in the stream.
PublishBlob(g, b) ==
  /\ run[g].phase = "run" /\ b \in run[g].jobs
  /\ ~run[g].dead
  /\ run' = [run EXCEPT ![g].jobs = @ \ {b}]
  /\ chunks' = [chunks EXCEPT ![ScanOn(g)] = @ \cup {b}]
  /\ UNCHANGED <<queueVars, statusVars, envVars>>

\* The cat-file of a worker ends inside a blob: its bounded reader answers io.EOF like
\* at the end of the blob, ReadFull's error is ignored, and what was read up to there
\* is published or, if it is nothing, no chunk at all.  processBlob returns nil: the blob
\* counts as scanned.  The next Read of that worker fails, and is counted.
CutBlob(g, b) ==
  /\ run[g].phase = "run" /\ b \in run[g].jobs
  /\ run[g].dead \/ "cat-file" \in Faults
  /\ Cardinality(run[g].cut) < CatFiles
  /\ run' = [run EXCEPT ![g].jobs = @ \ {b}, ![g].cut = @ \cup {b}]
  /\ UNCHANGED <<queueVars, chunks, statusVars, envVars>>

\* Mutant: the error is logged and not counted.
BlobErrorUncounted(g, b) ==
  /\ run[g].phase = "run" /\ b \in run[g].jobs
  /\ run[g].dead \/ {"publish", "cat-file"} \cap Faults # {}
  /\ run' = [run EXCEPT ![g].jobs = @ \ {b}]
  /\ UNCHANGED <<queueVars, chunks, statusVars, envVars>>

\* processBlob fails, on its cat-file or on a publish, with the blob in the stream if only
\* the answer was lost: the error is counted, and the worker takes the next job.
BlobFails(g, b) ==
  /\ run[g].phase = "run" /\ b \in run[g].jobs
  /\ run[g].dead \/ {"publish", "cat-file"} \cap Faults # {}
  /\ run' = [run EXCEPT ![g].jobs = @ \ {b}, ![g].errs = TRUE]
  /\ \/ UNCHANGED chunks
     \/ chunks' = [chunks EXCEPT ![ScanOn(g)] = @ \cup {b}]
  /\ UNCHANGED <<queueVars, statusVars, envVars>>

\* terminalFor: what the end of the walk makes of the scan.
Outcome(g) ==
  CASE run[g].walk = "done"                   -> "COMPLETED"
    [] run[g].walk = "failed" /\ run[g].dead  -> "CANCELLED"
    [] run[g].walk = "failed" /\ ~run[g].dead -> "FAILED"

\* The event of a run that is over.
EndEvent(g) ==
  IF Outcome(g) = "COMPLETED" /\ run[g].errs THEN "COMPLETED with errors" ELSE Outcome(g)

NotesLost(g) ==
  lost' = IF EndEvent(g) = "COMPLETED"
          THEN [lost EXCEPT ![ScanOn(g)] = @ \cup run[g].cut]
          ELSE lost

\* Mutant: the last status is published under the context of the run.
FinishUnderRunContext(g) ==
  /\ run[g].phase = "run" /\ run[g].walk # "on" /\ run[g].jobs = {}
  /\ run' = [run EXCEPT ![g] = [NoRun EXCEPT !.phase = "final",
                                             !.outcome = Outcome(g)]]
  /\ IF run[g].dead THEN UNCHANGED <<status, unsaid>> ELSE EmitStatus(ScanOn(g), EndEvent(g))
  /\ NotesLost(g)
  /\ UNCHANGED <<queueVars, chunks, envVars>>

\* The workers are done: the runner's deferred status goes out under a context of its
\* own, so that a cancelled scan still reports.
Finish(g) ==
  /\ run[g].phase = "run" /\ run[g].walk # "on" /\ run[g].jobs = {}
  /\ run' = [run EXCEPT ![g] = [NoRun EXCEPT !.phase = "final",
                                             !.outcome = Outcome(g)]]
  /\ EmitStatus(ScanOn(g), EndEvent(g))
  /\ NotesLost(g)
  /\ UNCHANGED <<queueVars, chunks, envVars>>

\* Mutant: a scan that was cancelled or failed is not run again.
ReturnAcked(g) ==
  /\ run[g].phase = "final"
  /\ run' = [run EXCEPT ![g] = NoRun]
  /\ Ack(g) \/ Unanswered(g)
  /\ UNCHANGED <<chunks, statusVars, envVars>>

\* The scan is unregistered, and the request acknowledged only if it completed.
Return(g) ==
  /\ run[g].phase = "final"
  /\ run' = [run EXCEPT ![g] = NoRun]
  /\ \/ run[g].outcome = "COMPLETED" /\ Ack(g)
     \/ run[g].outcome # "COMPLETED" /\ Nak(g)
     \/ Unanswered(g)
  /\ UNCHANGED <<chunks, statusVars, envVars>>

-----------------------------------------------------------------------------
(* Cancellation, shutdown and crash.                                       *)

\* Its run context still decides something.
Cancellable(g) == run[g].phase \in {"clone", "run"}

\* A client asks to cancel a scan: a broadcast, outside JetStream, that reaches every
\* getter.  Registry.Cancel: one that has the scan registered cancels its context, any
\* other ignores it - the getter that will run the scan next as well.
Cancel(s) ==
  /\ s \notin asked
  /\ asked' = asked \cup {s}
  /\ run' = [g \in Getter |-> IF Cancellable(g) /\ ScanOn(g) = s
                             THEN [run[g] EXCEPT !.dead = TRUE]
                             ELSE run[g]]
  /\ UNCHANGED <<queueVars, chunks, statusVars, stopping, restarts>>

\* A signal cancels rootCtx, and with it the context of the run.
Stop(g) ==
  /\ g \notin stopping /\ restarts < MaxRestarts
  /\ stopping' = stopping \cup {g}
  /\ run' = IF Cancellable(g) THEN [run EXCEPT ![g].dead = TRUE] ELSE run
  /\ restarts' = restarts + 1
  /\ UNCHANGED <<queueVars, chunks, statusVars, asked>>

\* The process is gone and is started again.  main does not wait for the handler, so
\* a stopped process may leave at any point of it, like a killed one.
Restart(g) ==
  /\ DropBatches({g})
  /\ run' = [run EXCEPT ![g] = NoRun]
  /\ stopping' = stopping \ {g}
  /\ UNCHANGED <<chunks, statusVars, asked>>

Exit(g) == g \in stopping /\ Restart(g) /\ UNCHANGED restarts

Killed(g) == restarts < MaxRestarts /\ Restart(g) /\ restarts' = restarts + 1

-----------------------------------------------------------------------------
HandlerStep(g) ==
  \/ Refuse(g) \/ Register(g) \/ CloneFails(g) \/ StartRun(g)
  \/ \E b \in Blob :
       EmitBlob(g, b) \/ PublishBlob(g, b) \/ CutBlob(g, b) \/ BlobFails(g, b)
  \/ WalkDone(g) \/ WalkCancelled(g) \/ WalkFails(g)
  \/ Finish(g) \/ Return(g)

GetterNext ==
  \/ \E r \in Request : Submit(r) \/ AckWaitExpires(r)
  \/ \E g \in Getter, r \in Request : Receive(g, r)
  \/ \E g \in Getter : HandlerStep(g) \/ Stop(g) \/ Exit(g) \/ Killed(g)
  \/ \E s \in Scan : Cancel(s)

GetterSpec == GetterInit /\ [][GetterNext]_getterVars

-----------------------------------------------------------------------------
(* Type correctness; a getter works on a request only while it holds it.   *)
GetterTypeOK ==
  /\ QueueTypeOK
  /\ run \in [Getter -> RunState]
  /\ \A g \in Getter : run[g].phase # "none" => Busy(g)
  /\ stopping \subseteq Getter
  /\ chunks \in [Scan -> SUBSET Blob]
  /\ status \in [Scan -> SUBSET Event]
  /\ unsaid \subseteq Scan /\ lost \in [Scan -> SUBSET Blob] /\ asked \subseteq Scan
  /\ restarts \in 0 .. MaxRestarts

\* A scan is published in full but for blobs that were cut off, at most one for each
\* cat-file of a run.
WholeBut(published, cut) ==
  /\ Blob \ published \subseteq cut
  /\ Cardinality(Blob \ published) <= CatFiles

\* A scan that reports COMPLETED and no errors has published every blob, whatever failed
\* or was retried on the way, except that each cat-file of the run which ended early,
\* by itself or with a cancelled context, may have cut off the blob it was reading.
CleanScanIsWhole ==
  \A s \in Scan : "COMPLETED" \in status[s] => WholeBut(chunks[s], lost[s])

\* A request leaves the queue with its blobs published, cut-off ones excepted as above,
\* or with a status that reports errors (or could not be published).
AckedIsReported ==
  \A r \in Valid : state[r] = "acked" =>
    \/ WholeBut(chunks[ScanOf[r]], lost[ScanOf[r]])
    \/ "COMPLETED with errors" \in status[ScanOf[r]]
    \/ ScanOf[r] \in unsaid

\* A scan that reported RUNNING and that nobody runs any more reported how it ended,
\* unless the event could not be published or a getter was stopped: the last status
\* does not depend on the cancelled context.
EndIsReported ==
  \A s \in Scan :
    /\ "RUNNING" \in status[s]
    /\ \A g \in Getter : run[g].phase = "run" => ScanOn(g) # s
    => \/ status[s] # {"RUNNING"}
       \/ s \in unsaid
       \/ restarts > 0

\* What the getter's README says of distribution and idempotency: a request is handled
\* by one getter at a time.
OneGetterPerRequest ==
  \A g, h \in Getter :
    run[g].phase # "none" /\ run[h].phase # "none" /\ InHand(g) = InHand(h) => g = h

===============================================================================
