------------------------------ MODULE ScannerPool ------------------------------
(***************************************************************************)
(* One scanner (services/scanner): workers drain the CHUNKS queue, the     *)
(* handler (internal/worker/pool.go) publishes what the detector finds in  *)
(* a chunk, one finding after the other, and counts each in the status     *)
(* tracker, whose loop runs beside them.  A signal stops the process, a    *)
(* crash ends it, and it is started again.                                 *)
(*                                                                         *)
(* A chunk's findings are numbered: the detector is a function of the      *)
(* chunk, and the MsgId of a finding one of its chunk, rule and position.  *)
(* The FINDINGS stream keeps one message per MsgId - the Duplicates window *)
(* is taken to outlast the redeliveries of a chunk.                        *)
(***************************************************************************)
EXTENDS WorkQueue, StatusTracker

CONSTANTS
  ScanOf,       \* the scan of each chunk
  Found,        \* how many findings ScanChunk returns for it
  Last,         \* chunks with is_last_in_scan
  Poison,       \* messages whose payload does not unmarshal
  MaxRestarts   \* bound: how often the process is stopped or dies

Chunk == Msg

ASSUME ScannerAssumption ==
  /\ Caller = Worker
  /\ ScanOf \in [Chunk -> Scan]
  /\ Found \in [Chunk -> Nat]
  /\ Last \subseteq Chunk /\ Poison \subseteq Chunk
  /\ MaxRestarts \in Nat

VARIABLES
  proc,       \* "up", "stopping" (rootCtx cancelled)
  sent,       \* findings of the chunk in hand each worker has published
  findings,   \* messages in the FINDINGS stream: the n-th finding of chunk c
  forgot,     \* history: scans whose count was evicted
  restarts

procVars    == <<proc, restarts>>
scannerVars == <<queueVars, trackerVars, procVars, sent, findings, forgot>>

ScannerInit ==
  /\ QueueInit /\ TrackerInit
  /\ proc = "up"
  /\ sent = [w \in Worker |-> 0]
  /\ findings = {}
  /\ forgot = {}
  /\ restarts = 0

FindingsOf(c) == {c} \X (1 .. Found[c])

-----------------------------------------------------------------------------
(* The queue's own steps.                                                  *)

PublishChunk(c) ==
  /\ Publish(c)
  /\ UNCHANGED <<trackerVars, procVars, sent, findings, forgot>>

FetchBatch(w) ==
  /\ proc = "up"
  /\ Fetch(w)
  /\ UNCHANGED <<trackerVars, procVars, sent, findings, forgot>>

AckWaitExpires(c) ==
  /\ Expire(c, IF proc = "up" THEN {} ELSE Worker)
  /\ UNCHANGED <<trackerVars, procVars, sent, findings, forgot>>

-----------------------------------------------------------------------------
(* The handler of the chunk in hand.                                       *)

\* handleOne acknowledges without calling the handler what does not unmarshal, and what
\* was delivered more often than MaxDeliver - which the server, given the same
\* MaxDeliver, never does.
Dropped(c) == c \in Poison \/ tries[c] > MaxDeliver

Handling(w) == Busy(w) /\ ~Dropped(InHand(w)) /\ finalRead[w] = NotRead

Publishing(w) == Handling(w) /\ sent[w] < Found[InHand(w)]

Done(w) == sent' = [sent EXCEPT ![w] = 0] /\ (Ack(w) \/ Unanswered(w))

\* Mutant: the next chunk starts where the failed one stopped.
FailInPlace(w) == UNCHANGED sent /\ (Nak(w) \/ Unanswered(w))

Fail(w) == sent' = [sent EXCEPT ![w] = 0] /\ (Nak(w) \/ Unanswered(w))

\* Mutant: a finding the stream has already, as the answer tells, is not counted.
PublishFindingOnce(w) ==
  LET f == <<InHand(w), sent[w] + 1>> IN
  /\ Publishing(w) /\ proc = "up"
  /\ findings' = findings \cup {f}
  /\ sent' = [sent EXCEPT ![w] = @ + 1]
  /\ IF f \in findings THEN UNCHANGED trackerVars ELSE Incr(ScanOf[InHand(w)])
  /\ UNCHANGED <<queueVars, procVars, forgot>>

\* The stream has the finding, because of this call or an earlier one, and it is
\* counted.
PublishFinding(w) ==
  /\ Publishing(w) /\ proc = "up"
  /\ findings' = findings \cup {<<InHand(w), sent[w] + 1>>}
  /\ sent' = [sent EXCEPT ![w] = @ + 1]
  /\ Incr(ScanOf[InHand(w)])
  /\ UNCHANGED <<queueVars, procVars, forgot>>

\* Mutant: the handler logs the error and goes on.
PublishErrorIgnored(w) ==
  /\ Publishing(w)
  /\ sent' = [sent EXCEPT ![w] = @ + 1]
  /\ UNCHANGED <<queueVars, trackerVars, procVars, findings, forgot>>

\* The broker refuses or does not answer in time: the finding may be in the stream all
\* the same.
PublishFails(w) ==
  /\ Publishing(w)
  /\ findings' \in {findings, findings \cup {<<InHand(w), sent[w] + 1>>}}
  /\ Fail(w)
  /\ UNCHANGED <<trackerVars, procVars, forgot>>

AllSent(w) == Handling(w) /\ sent[w] = Found[InHand(w)]

\* Nothing is left to do for the chunk: it is acknowledged.
Finish(w) ==
  /\ \/ AllSent(w) /\ InHand(w) \notin Last
     \/ Busy(w) /\ Dropped(InHand(w))
  /\ Done(w)
  /\ UNCHANGED <<trackerVars, procVars, findings, forgot>>

\* The last chunk of the scan calls FinalEmit, whose error fails the chunk.
FinishLast(w) ==
  /\ AllSent(w) /\ InHand(w) \in Last
  /\ FinalRead(w, ScanOf[InHand(w)])
  /\ UNCHANGED <<queueVars, procVars, sent, findings, forgot>>

FinalSucceeds(w) ==
  /\ Busy(w) /\ proc = "up"
  /\ FinalEmitted(w, ScanOf[InHand(w)])
  /\ Done(w)
  /\ UNCHANGED <<procVars, findings, forgot>>

\* Mutant: FinalEmit is called again until it succeeds.
FinalErrsRetried(w) ==
  /\ FinalFails(w)
  /\ UNCHANGED <<queueVars, procVars, sent, findings, forgot>>

FinalErrs(w) ==
  /\ FinalFails(w)
  /\ Fail(w)
  /\ UNCHANGED <<procVars, findings, forgot>>

-----------------------------------------------------------------------------
(* The tracker's loop ends with the context, wherever it stands.           *)

TickFires ==
  /\ proc = "up"
  /\ Tick
  /\ forgot' = forgot \cup (pendingFinal \ pendingFinal')
  /\ UNCHANGED <<queueVars, procVars, sent, findings>>

EmitCount(s) ==
  /\ proc = "up"
  /\ Emit(s)
  /\ UNCHANGED <<queueVars, procVars, sent, findings, forgot>>

EmitCountFails(s) ==
  /\ EmitFails(s)
  /\ UNCHANGED <<queueVars, procVars, sent, findings, forgot>>

-----------------------------------------------------------------------------
(* Shutdown and crash.                                                     *)

Stop ==
  /\ proc = "up" /\ restarts < MaxRestarts
  /\ proc' = "stopping"
  /\ UNCHANGED <<queueVars, trackerVars, sent, findings, forgot, restarts>>

Restart ==
  /\ DropBatches(Worker)
  /\ Forget
  /\ proc' = "up"
  /\ restarts' = restarts + 1
  /\ sent' = [w \in Worker |-> 0]
  /\ UNCHANGED <<findings, forgot>>

\* The workers are drained, or 30 seconds have passed.
Exit == proc = "stopping" /\ Restart

Killed == restarts < MaxRestarts /\ Restart

-----------------------------------------------------------------------------
WorkerStep(w) ==
  \/ PublishFinding(w) \/ PublishFails(w) \/ Finish(w)
  \/ FinishLast(w) \/ FinalSucceeds(w) \/ FinalErrs(w)

\* The queue's side of the scanner: every step of it settles or redelivers something.
QueueStep ==
  \/ \E w \in Worker : FetchBatch(w) \/ WorkerStep(w)
  \/ \E c \in Chunk : AckWaitExpires(c)
  \/ Exit

ScannerNext ==
  \/ \E c \in Chunk : PublishChunk(c)
  \/ QueueStep
  \/ TickFires
  \/ \E s \in Scan : EmitCount(s) \/ EmitCountFails(s)
  \/ Stop \/ Killed

\* As long as one of them can, some goroutine or timer takes a step; the ticker ticks.
\* The broker may refuse a status event any number of times, not for ever.
ScannerFairness ==
  /\ WF_scannerVars(QueueStep)
  /\ WF_scannerVars(TickFires)
  /\ \A s \in Scan : SF_scannerVars(EmitCount(s))

ScannerSpec     == ScannerInit /\ [][ScannerNext]_scannerVars
ScannerFairSpec == ScannerSpec /\ ScannerFairness

-----------------------------------------------------------------------------
(* Type correctness of the composition.                                    *)
ScannerTypeOK ==
  /\ QueueTypeOK /\ TrackerTypeOK
  /\ proc \in {"up", "stopping"}
  /\ sent \in [Worker -> Nat]
  /\ \A w \in Worker : Busy(w) => sent[w] <= Found[InHand(w)]
  /\ findings \subseteq UNION {FindingsOf(c) : c \in Chunk}
  /\ forgot \subseteq Scan
  /\ restarts \in 0 .. MaxRestarts

\* The findings of a chunk that left the queue are in the FINDINGS stream, however
\* often it was redelivered and wherever a publish failed.
AckedIsPublished ==
  \A c \in Chunk \ Poison : state[c] = "acked" => FindingsOf(c) \subseteq findings

\* The number of findings of the acknowledged chunks of a scan.
AckedFindings(s) ==
  Cardinality(UNION {FindingsOf(c) :
    c \in {x \in Chunk \ Poison : state[x] = "acked" /\ ScanOf[x] = s}})

\* No count is lost to redelivery: the counter of a scan covers its acknowledged
\* chunks, in a process that was not restarted and has not evicted the scan.
AckedIsCounted ==
  \A s \in Scan : counts[s] >= AckedFindings(s) \/ s \in forgot \/ restarts > 0

\* A chunk does not stay in the queue: it is acknowledged or delivered MaxDeliver times.
ChunkIsSettled ==
  \A c \in Chunk : state[c] = "ready" ~> state[c] \in {"acked", "given_up"}

\* The count of a scan reaches the STATUS stream, again and again as it moves.
CountIsReported == \A s \in Scan : []<>(said[s] >= counts[s])

\* What the README says of a single replica: the count a scan reports is that of its
\* findings - no more than its chunks contain.
CountIsCorrect ==
  \A s \in Scan :
    said[s] <= Cardinality(UNION {FindingsOf(c) : c \in {x \in Chunk : ScanOf[x] = s}})

===============================================================================
