----------------------------- MODULE ScannerProofs -----------------------------
(***************************************************************************)
(* What ScannerPool promises for any number of chunks, workers and scans,  *)
(* any options of the queue and any number of restarts: its types, with    *)
(* the bounds of the queue; that an acknowledged chunk is published and    *)
(* counted; that the tracker records only what it told.  HandInv ties the  *)
(* progress of every worker to the FINDINGS stream, CountInv to the        *)
(* counts.                                                                 *)
(***************************************************************************)
EXTENDS ScannerPool, WorkQueueProofs

TrackerInv == TrackerTypeOK /\ RecordedWasSaid

\* A worker's progress is that of the chunk in hand, whose first findings the stream
\* has; FinalEmit is called when it has them all.
HandInv ==
  \A w \in Worker :
    /\ ~Busy(w) => sent[w] = 0 /\ finalRead[w] = NotRead
    /\ Busy(w) => /\ sent[w] <= Found[InHand(w)]
                  /\ \A i \in 1 .. sent[w] : <<InHand(w), i>> \in findings
    /\ finalRead[w] # NotRead => /\ sent[w] = Found[InHand(w)]
                                 /\ InHand(w) \notin Poison

\* A process that is stopping will be started again.
StopInv == proc = "stopping" => restarts < MaxRestarts

ScannerInv ==
  /\ QueueInv /\ TrackerInv
  /\ ScannerTypeOK /\ HandInv /\ StopInv
  /\ AckedIsPublished

-----------------------------------------------------------------------------
(* The tracker.                                                            *)

TrackerStep ==
  \/ Tick \/ Forget
  \/ \E s \in Scan : Incr(s) \/ Emit(s) \/ EmitFails(s)
  \/ \E w \in Worker : FinalFails(w) \/ \E s \in Scan : FinalRead(w, s) \/ FinalEmitted(w, s)
  \/ UNCHANGED trackerVars

\* Telling a count keeps what was told before.
LEMMA SayRaises ==
  ASSUME TrackerTypeOK, NEW s \in Scan, NEW n \in Nat, Say(s, n)
  PROVE  /\ said' \in [Scan -> Nat]
         /\ said'[s] >= n
         /\ \A t \in Scan : said'[t] >= said[t]
BY DEF TrackerTypeOK, Say

\* Whatever the tracker does, it records nothing it did not tell.
LEMMA TrackerKeeps ==
  ASSUME TrackerInv, TrackerStep
  PROVE  TrackerInv'
<1>1. CASE Tick \/ Forget
  <2>1. CASE Forget
    BY <2>1, ScannerAssumption DEF Forget, TrackerInv, TrackerTypeOK, RecordedWasSaid
  <2>2. CASE Tick
    <3>1. PICK gone \in SUBSET pendingFinal :
            /\ emitting' = [s \in Scan |->
                 IF s \notin gone /\ lastEmitted[s] # counts[s] THEN counts[s] ELSE 0]
            /\ counts' = [s \in Scan |-> IF s \in gone THEN 0 ELSE counts[s]]
            /\ lastEmitted' = [s \in Scan |-> IF s \in gone THEN 0 ELSE lastEmitted[s]]
            /\ pendingFinal' = pendingFinal \ gone
      BY <2>2 DEF Tick
    <3> QED BY <2>2, <3>1 DEF Tick, TrackerInv, TrackerTypeOK, RecordedWasSaid
  <2> QED BY <1>1, <2>1, <2>2
<1>2. ASSUME NEW s \in Scan, Incr(s) \/ Emit(s) \/ EmitFails(s)
      PROVE  TrackerInv'
  <2>1. CASE Incr(s)
    BY <2>1 DEF Incr, TrackerInv, TrackerTypeOK, RecordedWasSaid
  <2>2. CASE Emit(s)
    <3>1. emitting[s] \in Nat /\ Say(s, emitting[s])
      BY <2>2 DEF Emit, TrackerInv, TrackerTypeOK
    <3>2. /\ said' \in [Scan -> Nat] /\ said'[s] >= emitting[s]
          /\ \A t \in Scan : said'[t] >= said[t]
      BY <3>1, SayRaises DEF TrackerInv
    <3>3. lastEmitted' = [lastEmitted EXCEPT ![s] = emitting[s]]
      BY <2>2 DEF Emit
    <3>4. TrackerTypeOK'
      BY <2>2, <3>1, <3>2 DEF Emit, TrackerInv, TrackerTypeOK
    <3>5. RecordedWasSaid'
      BY <3>1, <3>2, <3>3 DEF TrackerInv, TrackerTypeOK, RecordedWasSaid
    <3> QED BY <3>4, <3>5 DEF TrackerInv
  <2>3. CASE EmitFails(s)
    BY <2>3 DEF EmitFails, TrackerInv, TrackerTypeOK, RecordedWasSaid
  <2> QED BY <1>2, <2>1, <2>2, <2>3
<1>3. ASSUME NEW w \in Worker, FinalFails(w)
      PROVE  TrackerInv'
  BY <1>3, ScannerAssumption DEF FinalFails, TrackerInv, TrackerTypeOK, RecordedWasSaid
<1>4. ASSUME NEW w \in Worker, NEW s \in Scan, FinalRead(w, s) \/ FinalEmitted(w, s)
      PROVE  TrackerInv'
  <2>1. CASE FinalRead(w, s)
    BY <2>1, ScannerAssumption DEF FinalRead, TrackerInv, TrackerTypeOK, RecordedWasSaid
  <2>2. CASE FinalEmitted(w, s)
    <3>1. finalRead[w] \in Nat /\ Say(s, finalRead[w])
      BY <2>2, ScannerAssumption DEF FinalEmitted, TrackerInv, TrackerTypeOK
    <3>2. /\ said' \in [Scan -> Nat] /\ said'[s] >= finalRead[w]
          /\ \A t \in Scan : said'[t] >= said[t]
      BY <3>1, SayRaises DEF TrackerInv
    <3>3. lastEmitted' = [lastEmitted EXCEPT ![s] = finalRead[w]]
      BY <2>2 DEF FinalEmitted
    <3>4. TrackerTypeOK'
      BY <2>2, <3>1, <3>2, ScannerAssumption DEF FinalEmitted, TrackerInv, TrackerTypeOK
    <3>5. RecordedWasSaid'
      BY <3>1, <3>2, <3>3 DEF TrackerInv, TrackerTypeOK, RecordedWasSaid
    <3> QED BY <3>4, <3>5 DEF TrackerInv
  <2> QED BY <1>4, <2>1, <2>2
<1>5. CASE UNCHANGED trackerVars
  BY <1>5 DEF trackerVars, trackerMem, TrackerInv, TrackerTypeOK, RecordedWasSaid
<1> QED BY <1>1, <1>2, <1>3, <1>4, <1>5 DEF TrackerStep

-----------------------------------------------------------------------------
(* The chunk in hand.                                                      *)

\* A worker that goes on to its next chunk starts from its first finding.
LEMMA MovesOn ==
  ASSUME ScannerInv, QueueInv', NEW w \in Worker,
         sent' = [sent EXCEPT ![w] = 0], findings \subseteq findings',
         \A v \in Worker \ {w} : batch'[v] = batch[v] /\ finalRead'[v] = finalRead[v],
         finalRead'[w] = NotRead
  PROVE  /\ HandInv'
         /\ sent' \in [Worker -> Nat]
<1>1. sent' \in [Worker -> Nat] /\ sent'[w] = 0 /\ \A v \in Worker \ {w} : sent'[v] = sent[v]
  BY DEF ScannerInv, ScannerTypeOK
<1>2. Busy(w)' => Found[InHand(w)'] \in Nat
  <2>1. Busy(w)' => batch'[w] \in Seq(Chunk) /\ batch'[w] # <<>>
    BY DEF Busy, QueueInv, QueueTypeOK, Chunk
  <2>2. Busy(w)' => InHand(w)' \in Chunk
    BY <2>1, HeadTailProperties DEF InHand
  <2> QED BY <2>2, ScannerAssumption
<1>3. \A v \in Worker \ {w} : (Busy(v)' <=> Busy(v)) /\ InHand(v)' = InHand(v)
  BY DEF Busy, InHand
<1>4. ASSUME NEW v \in Worker \ {w}
      PROVE  /\ ~Busy(v)' => sent'[v] = 0 /\ finalRead'[v] = NotRead
             /\ Busy(v)' => /\ sent'[v] <= Found[InHand(v)']
                            /\ \A i \in 1 .. sent'[v] : <<InHand(v)', i>> \in findings'
             /\ finalRead'[v] # NotRead => /\ sent'[v] = Found[InHand(v)']
                                           /\ InHand(v)' \notin Poison
  BY <1>1, <1>3, <1>4 DEF ScannerInv, HandInv
<1>5. /\ Busy(w)' => /\ sent'[w] <= Found[InHand(w)']
                     /\ \A i \in 1 .. sent'[w] : <<InHand(w)', i>> \in findings'
  BY <1>1, <1>2
<1>6. HandInv'
  BY <1>1, <1>4, <1>5 DEF HandInv
<1> QED BY <1>1, <1>6

\* Workers that stay where they are keep their findings in a stream that only grows.
LEMMA StaysPut ==
  ASSUME HandInv, UNCHANGED <<batch, sent, finalRead>>, findings \subseteq findings'
  PROVE  HandInv'
<1>1. \A w \in Worker : (Busy(w)' <=> Busy(w)) /\ InHand(w)' = InHand(w)
  BY DEF Busy, InHand
<1> QED BY <1>1 DEF HandInv

\* So do the acknowledged chunks, unless one is acknowledged now.
LEMMA AckedStays ==
  ASSUME AckedIsPublished, findings \subseteq findings',
         \A c \in Chunk : state'[c] = "acked" => state[c] = "acked"
  PROVE  AckedIsPublished'
BY DEF AckedIsPublished, FindingsOf

\* The finding a worker publishes is one of its chunk.
LEMMA NextFinding ==
  ASSUME ScannerInv, NEW w \in Worker, Publishing(w)
  PROVE  /\ InHand(w) \in Chunk
         /\ sent[w] \in Nat /\ sent[w] + 1 <= Found[InHand(w)]
         /\ <<InHand(w), sent[w] + 1>> \in UNION {FindingsOf(c) : c \in Chunk}
<1>1. InHand(w) \in Chunk
  BY InHandIsMsg DEF ScannerInv, Publishing, Handling, Chunk
<1>2. /\ sent[w] \in Nat /\ Found[InHand(w)] \in Nat
      /\ sent[w] + 1 <= Found[InHand(w)]
  BY <1>1, ScannerAssumption DEF ScannerInv, ScannerTypeOK, Publishing
<1>3. sent[w] + 1 \in 1 .. Found[InHand(w)]
  BY <1>2
<1> QED BY <1>1, <1>2, <1>3 DEF FindingsOf

\* A chunk is acknowledged only when its findings are in the stream, or its payload
\* does not unmarshal: the server never delivers it more than MaxDeliver times.
LEMMA AckedNow ==
  ASSUME ScannerInv, NEW w \in Worker, Busy(w), sent[w] = Found[InHand(w)] \/ Dropped(InHand(w))
  PROVE  InHand(w) \in Poison \/ FindingsOf(InHand(w)) \subseteq findings
<1>1. InHand(w) \in Chunk
  BY InHandIsMsg DEF ScannerInv, Chunk
<1>2. CASE sent[w] = Found[InHand(w)]
  BY <1>2 DEF ScannerInv, HandInv, FindingsOf
<1>3. CASE Dropped(InHand(w))
  <2>1. tries[InHand(w)] \in 0 .. MaxDeliver
    BY <1>1 DEF ScannerInv, QueueInv, QueueTypeOK, Chunk
  <2> QED BY <1>3, <2>1, QueueOptionsHold DEF Dropped
<1> QED BY <1>2, <1>3

\* The worker is done with the chunk in hand.
LEMMA DoneKeeps ==
  ASSUME ScannerInv, NEW w \in Worker, Busy(w), Done(w),
         sent[w] = Found[InHand(w)] \/ Dropped(InHand(w)),
         UNCHANGED findings, finalRead'[w] = NotRead,
         \A v \in Worker \ {w} : finalRead'[v] = finalRead[v]
  PROVE  /\ QueueInv' /\ HandInv' /\ AckedIsPublished'
         /\ sent' \in [Worker -> Nat]
<1>1. /\ QueueInv'
      /\ \A v \in Worker \ {w} : batch'[v] = batch[v]
      /\ \A c \in Chunk : state'[c] = "acked" => state[c] = "acked" \/ c = InHand(w)
  BY AckKeeps, NakKeeps DEF Done, ScannerInv, Chunk
<1>2. AckedIsPublished'
  BY <1>1, AckedNow DEF ScannerInv, AckedIsPublished, FindingsOf
<1> QED BY <1>1, <1>2, MovesOn DEF Done

\* The chunk in hand failed.
LEMMA FailKeeps ==
  ASSUME ScannerInv, NEW w \in Worker, Fail(w),
         findings \subseteq findings', finalRead'[w] = NotRead,
         \A v \in Worker \ {w} : finalRead'[v] = finalRead[v]
  PROVE  /\ QueueInv' /\ HandInv' /\ AckedIsPublished'
         /\ sent' \in [Worker -> Nat]
<1>1. /\ QueueInv'
      /\ \A v \in Worker \ {w} : batch'[v] = batch[v]
      /\ \A c \in Chunk : state'[c] = "acked" => state[c] = "acked"
  BY NakKeeps DEF Fail, ScannerInv, Chunk
<1>2. AckedIsPublished'
  BY <1>1, AckedStays DEF ScannerInv
<1> QED BY <1>1, <1>2, MovesOn DEF Fail

-----------------------------------------------------------------------------
(* Every step.                                                             *)

LEMMA InitInv == ScannerInit => ScannerInv
<1> SUFFICES ASSUME ScannerInit PROVE ScannerInv
  OBVIOUS
<1>1. QueueInv
  BY QueueStarts DEF ScannerInit
<1>2. TrackerInv
  BY ScannerAssumption DEF ScannerInit, TrackerInit, TrackerInv, TrackerTypeOK, RecordedWasSaid
<1>3. \A w \in Worker : ~Busy(w) /\ finalRead[w] = NotRead
  BY ScannerAssumption DEF ScannerInit, QueueInit, TrackerInit, Busy
<1>4. HandInv
  BY <1>3 DEF HandInv, ScannerInit
<1>5. ScannerTypeOK
  BY <1>1, <1>2, <1>3, ScannerAssumption DEF ScannerInit, ScannerTypeOK, QueueInv, TrackerInv
<1>6. AckedIsPublished
  BY DEF ScannerInit, QueueInit, AckedIsPublished, Chunk
<1> QED BY <1>1, <1>2, <1>4, <1>5, <1>6 DEF ScannerInv, StopInv, ScannerInit

\* Steps that leave the queue, the workers and the stream alone.
LEMMA AsideKeeps ==
  ASSUME ScannerInv, TrackerStep, UNCHANGED <<queueVars, sent, findings, finalRead>>,
         proc' \in {"up", "stopping"}, StopInv',
         forgot' \subseteq Scan, restarts' = restarts
  PROVE  ScannerInv'
<1>1. QueueInv'
  BY DEF ScannerInv, QueueInv, QueueTypeOK, DeliverableInv, Room, queueVars
<1>2. TrackerInv'
  BY TrackerKeeps DEF ScannerInv
<1>3. HandInv'
  BY StaysPut DEF ScannerInv, queueVars
<1>4. AckedIsPublished'
  BY AckedStays DEF ScannerInv, queueVars
<1>5. ScannerTypeOK'
  BY <1>1, <1>2, <1>3 DEF ScannerInv, ScannerTypeOK, HandInv, QueueInv, TrackerInv
<1> QED BY <1>1, <1>2, <1>3, <1>4, <1>5 DEF ScannerInv

\* Steps of the process's workers and its queue.
LEMMA WorkKeeps ==
  ASSUME ScannerInv, TrackerStep, QueueInv', HandInv', AckedIsPublished',
         sent' \in [Worker -> Nat],
         findings' \subseteq UNION {FindingsOf(c) : c \in Chunk},
         UNCHANGED <<procVars, forgot>>
  PROVE  ScannerInv'
<1>1. TrackerInv'
  BY TrackerKeeps DEF ScannerInv
<1>2. ScannerTypeOK'
  BY <1>1 DEF ScannerInv, ScannerTypeOK, HandInv, QueueInv, TrackerInv, procVars
<1> QED BY <1>1, <1>2 DEF ScannerInv, StopInv, procVars

\* A worker that is not busy takes a batch.
LEMMA FetchBatchKeeps ==
  ASSUME ScannerInv, NEW w \in Worker, FetchBatch(w)
  PROVE  ScannerInv'
<1>1. /\ QueueInv' /\ ~Busy(w)
      /\ \A v \in Worker \ {w} : batch'[v] = batch[v]
      /\ \A c \in Chunk : state'[c] = state[c] \/ state'[c] = "in_flight"
  BY FetchKeeps DEF FetchBatch, ScannerInv, Chunk
<1>2. sent[w] = 0 /\ finalRead[w] = NotRead
  BY <1>1 DEF ScannerInv, HandInv
<1>3. /\ sent' = [sent EXCEPT ![w] = 0] /\ findings' = findings
      /\ finalRead' = finalRead
  BY <1>2 DEF FetchBatch, ScannerInv, ScannerTypeOK, trackerVars, trackerMem
<1>4. HandInv' /\ sent' \in [Worker -> Nat]
  BY <1>1, <1>2, <1>3, MovesOn
<1>5. AckedIsPublished'
  BY <1>1, <1>3, AckedStays DEF ScannerInv
<1> QED BY <1>1, <1>3, <1>4, <1>5, WorkKeeps
       DEF FetchBatch, TrackerStep, ScannerInv, ScannerTypeOK

\* The steps of a worker with a chunk in hand.
LEMMA WorkerKeeps ==
  ASSUME ScannerInv, NEW w \in Worker, WorkerStep(w)
  PROVE  ScannerInv'
<1> DEFINE Every == UNION {FindingsOf(c) : c \in Chunk}
<1>0. findings \subseteq Every
  BY DEF ScannerInv, ScannerTypeOK
<1>1. CASE PublishFinding(w)
  <2>1. /\ InHand(w) \in Chunk
        /\ sent[w] \in Nat /\ sent[w] + 1 <= Found[InHand(w)]
        /\ <<InHand(w), sent[w] + 1>> \in Every
    BY <1>1, NextFinding DEF PublishFinding
  <2>2. /\ findings' = findings \cup {<<InHand(w), sent[w] + 1>>}
        /\ sent' = [sent EXCEPT ![w] = sent[w] + 1]
        /\ UNCHANGED <<state, tries, batch, finalRead, procVars, forgot>>
    BY <1>1 DEF PublishFinding, Incr, queueVars
  <2>3. TrackerStep
    BY <1>1, <2>1, ScannerAssumption DEF PublishFinding, TrackerStep
  <2>4. QueueInv'
    BY <2>2 DEF ScannerInv, QueueInv, QueueTypeOK, DeliverableInv, Room
  <2>5. sent' \in [Worker -> Nat]
    BY <2>1, <2>2 DEF ScannerInv, ScannerTypeOK
  <2>6. HandInv'
    <3>1. \A v \in Worker : (Busy(v)' <=> Busy(v)) /\ InHand(v)' = InHand(v)
      BY <2>2 DEF Busy, InHand
    <3>2. finalRead'[w] = NotRead /\ Busy(w)
      BY <1>1, <2>2 DEF PublishFinding, Publishing, Handling
    <3>3. \A i \in 1 .. sent[w] + 1 : <<InHand(w), i>> \in findings'
      <4>1. \A i \in 1 .. sent[w] + 1 : i \in 1 .. sent[w] \/ i = sent[w] + 1
        BY <2>1
      <4>2. \A i \in 1 .. sent[w] : <<InHand(w), i>> \in findings
        BY <3>2 DEF ScannerInv, HandInv
      <4> QED BY <2>2, <4>1, <4>2
    <3>4. sent'[w] = sent[w] + 1 /\ \A v \in Worker \ {w} : sent'[v] = sent[v]
      BY <2>2 DEF ScannerInv, ScannerTypeOK
    <3> QED BY <2>1, <2>2, <3>1, <3>2, <3>3, <3>4 DEF ScannerInv, HandInv
  <2>7. AckedIsPublished'
    BY <2>2, AckedStays DEF ScannerInv
  <2>8. findings' \subseteq Every
    BY <1>0, <2>1, <2>2
  <2> QED BY <2>2, <2>3, <2>4, <2>5, <2>6, <2>7, <2>8, WorkKeeps
<1>2. CASE PublishFails(w)
  <2>1. <<InHand(w), sent[w] + 1>> \in Every
    BY <1>2, NextFinding DEF PublishFails
  <2>2. findings \subseteq findings' /\ findings' \subseteq Every
    BY <1>0, <1>2, <2>1 DEF PublishFails
  <2>3. UNCHANGED finalRead /\ finalRead[w] = NotRead /\ TrackerStep
    BY <1>2 DEF PublishFails, Publishing, Handling, trackerVars, trackerMem, TrackerStep
  <2>4. QueueInv' /\ HandInv' /\ AckedIsPublished' /\ sent' \in [Worker -> Nat]
    BY <1>2, <2>2, <2>3, FailKeeps DEF PublishFails
  <2> QED BY <1>2, <2>2, <2>3, <2>4, WorkKeeps DEF PublishFails
<1>3. CASE Finish(w)
  <2>1. Busy(w) /\ (sent[w] = Found[InHand(w)] \/ Dropped(InHand(w)))
    BY <1>3 DEF Finish, AllSent, Handling
  <2>2. UNCHANGED <<finalRead, findings>> /\ TrackerStep
    BY <1>3 DEF Finish, trackerVars, trackerMem, TrackerStep
  <2>3. finalRead[w] = NotRead
    <3>1. CASE AllSent(w)
      BY <3>1 DEF AllSent, Handling
    <3>2. CASE Busy(w) /\ Dropped(InHand(w))
      <4>1. InHand(w) \in Chunk
        BY <3>2, InHandIsMsg DEF ScannerInv, Chunk
      <4>2. tries[InHand(w)] \in 0 .. MaxDeliver
        BY <4>1 DEF ScannerInv, QueueInv, QueueTypeOK, Chunk
      <4>3. InHand(w) \in Poison
        BY <3>2, <4>2, QueueOptionsHold DEF Dropped
      <4> QED BY <4>3 DEF ScannerInv, HandInv
    <3> QED BY <1>3, <3>1, <3>2 DEF Finish
  <2>4. QueueInv' /\ HandInv' /\ AckedIsPublished' /\ sent' \in [Worker -> Nat]
    BY <1>3, <2>1, <2>2, <2>3, DoneKeeps DEF Finish
  <2> QED BY <1>0, <1>3, <2>2, <2>4, WorkKeeps DEF Finish
<1>4. CASE FinishLast(w)
  <2>1. /\ Busy(w) /\ InHand(w) \in Chunk
        /\ sent[w] = Found[InHand(w)] /\ ~Dropped(InHand(w))
    BY <1>4, InHandIsMsg DEF FinishLast, AllSent, Handling, ScannerInv, Chunk
  <2>2. FinalRead(w, ScanOf[InHand(w)]) /\ ScanOf[InHand(w)] \in Scan
    BY <1>4, <2>1, ScannerAssumption DEF FinishLast
  <2>3. UNCHANGED <<state, tries, batch, sent, findings, procVars, forgot>>
    BY <1>4 DEF FinishLast, queueVars
  <2>4. QueueInv'
    BY <2>3 DEF ScannerInv, QueueInv, QueueTypeOK, DeliverableInv, Room
  <2>5. HandInv'
    <3>1. \A v \in Worker : (Busy(v)' <=> Busy(v)) /\ InHand(v)' = InHand(v)
      BY <2>3 DEF Busy, InHand
    <3>2. \A v \in Worker \ {w} : finalRead'[v] = finalRead[v]
      BY <2>2, ScannerAssumption DEF FinalRead, ScannerInv, TrackerInv, TrackerTypeOK
    <3> QED BY <2>1, <2>3, <3>1, <3>2 DEF ScannerInv, HandInv, Dropped
  <2>6. AckedIsPublished'
    BY <2>3, AckedStays DEF ScannerInv
  <2>7. TrackerStep
    BY <2>2 DEF TrackerStep
  <2> QED BY <1>0, <2>3, <2>4, <2>5, <2>6, <2>7, WorkKeeps DEF ScannerInv, ScannerTypeOK
<1>5. CASE FinalSucceeds(w)
  <2>1. /\ Busy(w) /\ InHand(w) \in Chunk /\ finalRead[w] # NotRead
        /\ FinalEmitted(w, ScanOf[InHand(w)])
    BY <1>5, InHandIsMsg DEF FinalSucceeds, FinalEmitted, ScannerInv, Chunk
  <2>2. sent[w] = Found[InHand(w)]
    BY <2>1 DEF ScannerInv, HandInv
  <2>3. finalRead'[w] = NotRead /\ \A v \in Worker \ {w} : finalRead'[v] = finalRead[v]
    BY <2>1, ScannerAssumption DEF FinalEmitted, ScannerInv, TrackerInv, TrackerTypeOK
  <2>4. TrackerStep
    BY <2>1, ScannerAssumption DEF TrackerStep
  <2>5. QueueInv' /\ HandInv' /\ AckedIsPublished' /\ sent' \in [Worker -> Nat]
    BY <1>5, <2>1, <2>2, <2>3, DoneKeeps DEF FinalSucceeds
  <2> QED BY <1>0, <1>5, <2>4, <2>5, WorkKeeps DEF FinalSucceeds
<1>6. CASE FinalErrs(w)
  <2>1. finalRead'[w] = NotRead /\ \A v \in Worker \ {w} : finalRead'[v] = finalRead[v]
    BY <1>6, ScannerAssumption DEF FinalErrs, FinalFails, ScannerInv, TrackerInv, TrackerTypeOK
  <2>2. TrackerStep
    BY <1>6 DEF FinalErrs, TrackerStep
  <2>3. QueueInv' /\ HandInv' /\ AckedIsPublished' /\ sent' \in [Worker -> Nat]
    BY <1>6, <2>1, FailKeeps DEF FinalErrs
  <2> QED BY <1>0, <1>6, <2>2, <2>3, WorkKeeps DEF FinalErrs
<1> QED BY <1>1, <1>2, <1>3, <1>4, <1>5, <1>6 DEF WorkerStep

\* The process ends with what it had in memory, and is started again.
LEMMA RestartKeeps ==
  ASSUME ScannerInv, Restart, restarts < MaxRestarts
  PROVE  ScannerInv'
<1>1. QueueInv' /\ TrackerInv'
  BY DropKeeps, TrackerKeeps DEF Restart, ScannerInv, TrackerStep
<1>2. \A w \in Worker : ~Busy(w)' /\ sent'[w] = 0 /\ finalRead'[w] = NotRead
  BY ScannerAssumption DEF Restart, DropBatches, Forget, Busy
<1>3. HandInv'
  BY <1>2 DEF HandInv
<1>4. AckedIsPublished'
  BY AckedStays DEF Restart, DropBatches, ScannerInv
<1>5. /\ sent' \in [Worker -> Nat] /\ proc' = "up"
      /\ restarts' \in 0 .. MaxRestarts /\ UNCHANGED <<findings, forgot>>
  BY ScannerAssumption DEF Restart, ScannerInv, ScannerTypeOK
<1>6. ScannerTypeOK'
  BY <1>1, <1>2, <1>5 DEF ScannerTypeOK, ScannerInv, QueueInv, TrackerInv
<1> QED BY <1>1, <1>3, <1>4, <1>5, <1>6 DEF ScannerInv, StopInv

LEMMA StepInv == ScannerInv /\ [ScannerNext]_scannerVars => ScannerInv'
<1> SUFFICES ASSUME ScannerInv, [ScannerNext]_scannerVars PROVE ScannerInv'
  OBVIOUS
<1>1. ASSUME NEW c \in Chunk, PublishChunk(c) PROVE ScannerInv'
  <2>1. QueueInv'
    BY <1>1, PublishKeeps DEF PublishChunk, ScannerInv, Chunk
  <2>2. \A x \in Chunk : state'[x] = "acked" => state[x] = "acked"
    BY <1>1 DEF PublishChunk, Publish, ScannerInv, QueueInv, QueueTypeOK, Chunk
  <2>3. HandInv' /\ AckedIsPublished'
    BY <1>1, <2>2, StaysPut, AckedStays
       DEF PublishChunk, Publish, ScannerInv, trackerVars, trackerMem
  <2> QED BY <1>1, <2>1, <2>3, WorkKeeps
         DEF PublishChunk, TrackerStep, ScannerInv, ScannerTypeOK
<1>2. ASSUME NEW w \in Worker, FetchBatch(w) \/ WorkerStep(w) PROVE ScannerInv'
  BY <1>2, FetchBatchKeeps, WorkerKeeps
<1>3. ASSUME NEW c \in Chunk, AckWaitExpires(c) PROVE ScannerInv'
  <2> DEFINE Cancelled == IF proc = "up" THEN {} ELSE Worker
  <2>1. Expire(c, Cancelled)
    BY <1>3 DEF AckWaitExpires
  <2>2. QueueInv'
    BY <2>1, ExpireKeeps DEF ScannerInv, Chunk
  <2>3. \A x \in Chunk : state'[x] = "acked" => state[x] = "acked"
    BY <2>1 DEF Expire, AfterFailure, ScannerInv, QueueInv, QueueTypeOK, Chunk
  <2>4. HandInv' /\ AckedIsPublished'
    BY <1>3, <2>1, <2>3, StaysPut, AckedStays
       DEF AckWaitExpires, Expire, ScannerInv, trackerVars, trackerMem
  <2> QED BY <1>3, <2>2, <2>4, WorkKeeps
         DEF AckWaitExpires, TrackerStep, ScannerInv, ScannerTypeOK
<1>4. CASE Exit \/ Killed
  BY <1>4, RestartKeeps DEF Exit, Killed, ScannerInv, StopInv
<1>5. CASE TickFires
  BY <1>5, AsideKeeps
     DEF TickFires, Tick, TrackerStep, ScannerInv, ScannerTypeOK, TrackerTypeOK, StopInv, procVars
<1>6. ASSUME NEW s \in Scan, EmitCount(s) \/ EmitCountFails(s) PROVE ScannerInv'
  BY <1>6, AsideKeeps
     DEF EmitCount, EmitCountFails, Emit, EmitFails, TrackerStep, ScannerInv, ScannerTypeOK,
         StopInv, procVars
<1>7. CASE Stop
  BY <1>7, AsideKeeps
     DEF Stop, TrackerStep, ScannerInv, ScannerTypeOK, StopInv, trackerVars, trackerMem
<1>8. CASE UNCHANGED scannerVars
  BY <1>8, AsideKeeps
     DEF scannerVars, TrackerStep, ScannerInv, ScannerTypeOK, StopInv, procVars,
         trackerVars, trackerMem
<1> QED BY <1>1, <1>2, <1>3, <1>4, <1>5, <1>6, <1>7, <1>8 DEF ScannerNext, QueueStep

-----------------------------------------------------------------------------
(* Counting.  A redelivered chunk is counted again, so the counter exceeds *)
(* what is acknowledged; that it never falls short takes the findings that *)
(* workers have published of chunks still in hand: each was counted, and a *)
(* chunk adds to the acknowledged ones only what its worker published.     *)

AckedOf(s) ==
  UNION {FindingsOf(c) : c \in {x \in Chunk \ Poison : state[x] = "acked" /\ ScanOf[x] = s}}

InProgress(s) ==
  {p \in Worker \X Nat : /\ Busy(p[1]) /\ ScanOf[InHand(p[1])] = s
                         /\ p[2] \in 1 .. sent[p[1]]}

Covered(s) ==
  /\ IsFiniteSet(AckedOf(s)) /\ IsFiniteSet(InProgress(s))
  /\ \/ counts[s] >= Cardinality(AckedOf(s)) + Cardinality(InProgress(s))
     \/ s \in forgot
     \/ restarts > 0

CountInv == \A s \in Scan : Covered(s)

\* P leaves B, and no more than that comes to A.
LEMMA Moved ==
  ASSUME NEW A, NEW B, IsFiniteSet(A), IsFiniteSet(B),
         NEW P \in SUBSET B, NEW F, IsFiniteSet(F), Cardinality(F) <= Cardinality(P),
         NEW A1 \in SUBSET (A \cup F), NEW B1 \in SUBSET (B \ P)
  PROVE  /\ IsFiniteSet(A1) /\ IsFiniteSet(B1)
         /\ Cardinality(A1) + Cardinality(B1) <= Cardinality(A) + Cardinality(B)
         /\ Cardinality(A1) \in Nat /\ Cardinality(B1) \in Nat
<1>1. /\ IsFiniteSet(A \cup F)
      /\ Cardinality(A \cup F) = Cardinality(A) + Cardinality(F) - Cardinality(A \cap F)
      /\ IsFiniteSet(A \cap F)
  BY FS_Union, FS_Intersection
<1>2. B \cap P = P
  OBVIOUS
<1>3. /\ IsFiniteSet(P) /\ IsFiniteSet(B \ P)
      /\ Cardinality(B \ P) = Cardinality(B) - Cardinality(P)
  BY <1>2, FS_Subset, FS_Difference
<1>4. /\ IsFiniteSet(A1) /\ Cardinality(A1) <= Cardinality(A \cup F)
      /\ IsFiniteSet(B1) /\ Cardinality(B1) <= Cardinality(B \ P)
  BY <1>1, <1>3, FS_Subset
<1>5. /\ Cardinality(A) \in Nat /\ Cardinality(B) \in Nat /\ Cardinality(P) \in Nat
      /\ Cardinality(F) \in Nat /\ Cardinality(A \cap F) \in Nat
      /\ Cardinality(A1) \in Nat /\ Cardinality(B1) \in Nat
  BY <1>1, <1>3, <1>4, FS_CardinalityType
<1> QED BY <1>1, <1>3, <1>4, <1>5

\* The numbered findings of one owner, a chunk or a worker.
LEMMA Numbered ==
  ASSUME NEW x, NEW n \in Nat
  PROVE  IsFiniteSet({x} \X (1 .. n)) /\ Cardinality({x} \X (1 .. n)) = n
<1>1. IsFiniteSet({x}) /\ Cardinality({x}) = 1
  BY FS_Singleton
<1>2. IsFiniteSet(1 .. n) /\ Cardinality(1 .. n) = n
  BY FS_Interval
<1> DEFINE S == {x}
           T == 1 .. n
<1> HIDE DEF S, T
<1>3. IsFiniteSet(S \X T) /\ Cardinality(S \X T) = Cardinality(S) * Cardinality(T)
  BY <1>1, <1>2, FS_Product DEF S, T
<1>4. Cardinality(S) = 1 /\ Cardinality(T) = n
  BY <1>1, <1>2 DEF S, T
<1>5. Cardinality(S \X T) = n
  BY <1>3, <1>4
<1> QED BY <1>3, <1>5 DEF S, T

\* A count that does not fall still covers no more than it covered.
LEMMA CoveredStays ==
  ASSUME ScannerInv, ScannerTypeOK', NEW s \in Scan, Covered(s),
         counts'[s] >= counts[s], forgot \subseteq forgot', restarts' = restarts,
         NEW P \in SUBSET InProgress(s), NEW F, IsFiniteSet(F), Cardinality(F) <= Cardinality(P),
         AckedOf(s)' \subseteq AckedOf(s) \cup F, InProgress(s)' \subseteq InProgress(s) \ P
  PROVE  Covered(s)'
<1>1. counts[s] \in Nat /\ counts'[s] \in Nat
  BY DEF ScannerInv, ScannerTypeOK, TrackerTypeOK
<1>2. IsFiniteSet(AckedOf(s)) /\ IsFiniteSet(InProgress(s))
  BY DEF Covered
<1>3. Cardinality(AckedOf(s)) \in Nat /\ Cardinality(InProgress(s)) \in Nat
  BY <1>2, FS_CardinalityType
<1> DEFINE A1 == AckedOf(s)'
           B1 == InProgress(s)'
<1>4. A1 \in SUBSET (AckedOf(s) \cup F) /\ B1 \in SUBSET (InProgress(s) \ P)
  OBVIOUS
<1> HIDE DEF A1, B1
<1>5. /\ IsFiniteSet(A1) /\ IsFiniteSet(B1)
      /\ Cardinality(A1) + Cardinality(B1) <= Cardinality(AckedOf(s)) + Cardinality(InProgress(s))
      /\ Cardinality(A1) \in Nat /\ Cardinality(B1) \in Nat
  BY <1>2, <1>4, Moved
<1>6. \/ counts'[s] >= Cardinality(A1) + Cardinality(B1)
      \/ s \in forgot' \/ restarts' > 0
  BY <1>1, <1>3, <1>5 DEF Covered
<1> QED BY <1>5, <1>6 DEF Covered, A1, B1

\* The common case: nothing is acknowledged.
LEMMA CoveredAside ==
  ASSUME ScannerInv, ScannerTypeOK', NEW s \in Scan, Covered(s),
         counts'[s] >= counts[s], forgot \subseteq forgot', restarts' = restarts,
         AckedOf(s)' \subseteq AckedOf(s), InProgress(s)' \subseteq InProgress(s)
  PROVE  Covered(s)'
<1>1. /\ {} \in SUBSET InProgress(s) /\ InProgress(s)' \subseteq InProgress(s) \ {}
      /\ AckedOf(s)' \subseteq AckedOf(s) \cup {}
  OBVIOUS
<1>2. IsFiniteSet({}) /\ Cardinality({}) <= Cardinality({})
  BY FS_EmptySet
<1> QED BY <1>1, <1>2, CoveredStays

\* No chunk is acknowledged.
LEMMA AckedShrinks ==
  ASSUME NEW s, \A c \in Chunk : state'[c] = "acked" => state[c] = "acked"
  PROVE  AckedOf(s)' \subseteq AckedOf(s)
BY DEF AckedOf, FindingsOf

LEMMA ProgressStays ==
  ASSUME NEW s, UNCHANGED <<batch, sent>>
  PROVE  InProgress(s)' = InProgress(s)
BY DEF InProgress, Busy, InHand

\* What a worker has published of the chunk in hand.
Hand(w) == {w} \X (1 .. sent[w])

\* A worker goes on to its next chunk.
LEMMA HandLeaves ==
  ASSUME ScannerInv, NEW s \in Scan, NEW w \in Worker, sent' = [sent EXCEPT ![w] = 0],
         \A v \in Worker \ {w} : batch'[v] = batch[v]
  PROVE  InProgress(s)' \subseteq InProgress(s) \ Hand(w)
<1>1. sent'[w] = 0 /\ \A v \in Worker \ {w} : sent'[v] = sent[v]
  BY DEF ScannerInv, ScannerTypeOK
<1>2. SUFFICES ASSUME NEW v \in Worker, NEW i \in Nat, <<v, i>> \in InProgress(s)'
               PROVE  <<v, i>> \in InProgress(s) /\ v # w
  BY DEF InProgress, Hand
<1>3. Busy(v)' /\ ScanOf[InHand(v)'] = s /\ i \in 1 .. sent'[v]
  BY <1>2 DEF InProgress
<1>4. v # w
  BY <1>1, <1>3
<1>5. Busy(v) /\ ScanOf[InHand(v)] = s /\ i \in 1 .. sent[v]
  BY <1>1, <1>3, <1>4 DEF Busy, InHand
<1> QED BY <1>4, <1>5 DEF InProgress

\* The chunk in hand failed, or its answer was lost.
LEMMA FailCounted ==
  ASSUME ScannerInv, ScannerTypeOK', CountInv, NEW w \in Worker,
         sent' = [sent EXCEPT ![w] = 0], \A v \in Worker \ {w} : batch'[v] = batch[v],
         \A c \in Chunk : state'[c] = "acked" => state[c] = "acked",
         \A s \in Scan : counts'[s] >= counts[s],
         UNCHANGED <<forgot, restarts>>
  PROVE  CountInv'
<1> SUFFICES ASSUME NEW s \in Scan PROVE Covered(s)'
  BY DEF CountInv
<1>1. AckedOf(s)' \subseteq AckedOf(s)
  BY AckedShrinks
<1>2. InProgress(s)' \subseteq InProgress(s)
  BY HandLeaves
<1> QED BY <1>1, <1>2, CoveredAside DEF CountInv

\* The chunk in hand is acknowledged: its findings are those its worker published.
LEMMA AckCounted ==
  ASSUME ScannerInv, ScannerTypeOK', CountInv, NEW w \in Worker, Ack(w),
         sent[w] = Found[InHand(w)] \/ InHand(w) \in Poison,
         sent' = [sent EXCEPT ![w] = 0],
         UNCHANGED <<counts, forgot, restarts>>
  PROVE  CountInv'
<1> SUFFICES ASSUME NEW s \in Scan PROVE Covered(s)'
  BY DEF CountInv
<1> DEFINE c == InHand(w)
<1>1. /\ c \in Chunk /\ Busy(w)
      /\ \A v \in Worker \ {w} : batch'[v] = batch[v]
      /\ \A x \in Chunk : state'[x] = IF x = c THEN "acked" ELSE state[x]
  BY AckKeeps, InHandIsMsg DEF ScannerInv, Ack, Chunk
<1>2. InProgress(s)' \subseteq InProgress(s) \ Hand(w)
  BY <1>1, HandLeaves
<1>3. Covered(s) /\ counts'[s] >= counts[s]
  BY DEF CountInv, ScannerInv, ScannerTypeOK, TrackerTypeOK
<1> HIDE DEF c
<1>4. CASE c \in Poison \/ ScanOf[c] # s
  <2>1. AckedOf(s)' \subseteq AckedOf(s)
    BY <1>1, <1>4 DEF AckedOf, FindingsOf
  <2> QED BY <1>2, <1>3, <2>1, CoveredAside
<1>5. CASE c \notin Poison /\ ScanOf[c] = s
  <2>1. AckedOf(s)' \subseteq AckedOf(s) \cup FindingsOf(c)
    BY <1>1 DEF AckedOf, FindingsOf
  <2>2. sent[w] = Found[c] /\ sent[w] \in Nat
    BY <1>5 DEF c, ScannerInv, ScannerTypeOK
  <2>3. Hand(w) \in SUBSET InProgress(s)
    BY <1>1, <1>5, <2>2 DEF Hand, InProgress, c
  <2>4. IsFiniteSet(FindingsOf(c)) /\ Cardinality(FindingsOf(c)) <= Cardinality(Hand(w))
    <3>1. IsFiniteSet(FindingsOf(c)) /\ Cardinality(FindingsOf(c)) = sent[w]
      BY <2>2, Numbered DEF FindingsOf
    <3>2. Cardinality(Hand(w)) = sent[w]
      BY <2>2, Numbered DEF Hand
    <3> QED BY <2>2, <3>1, <3>2
  <2> QED BY <1>2, <1>3, <2>1, <2>3, <2>4, CoveredStays
<1> QED BY <1>4, <1>5

\* A finding is published: it is in progress, and counted.
LEMMA PublishCounted ==
  ASSUME ScannerInv, ScannerTypeOK', CountInv, NEW w \in Worker, PublishFinding(w)
  PROVE  CountInv'
<1> SUFFICES ASSUME NEW s \in Scan PROVE Covered(s)'
  BY DEF CountInv
<1> DEFINE x == <<w, sent[w] + 1>>
           t == ScanOf[InHand(w)]
<1>1. /\ InHand(w) \in Chunk /\ sent[w] \in Nat /\ t \in Scan
  BY NextFinding, ScannerAssumption DEF PublishFinding
<1>2. /\ sent' = [sent EXCEPT ![w] = @ + 1] /\ counts' = [counts EXCEPT ![t] = @ + 1]
      /\ UNCHANGED <<state, batch, forgot, restarts>>
  BY DEF PublishFinding, Incr, queueVars, procVars
<1>3. AckedOf(s)' = AckedOf(s)
  BY <1>2 DEF AckedOf
<1>4. /\ counts[s] \in Nat /\ counts'[s] = IF s = t THEN counts[s] + 1 ELSE counts[s]
      /\ sent'[w] = sent[w] + 1 /\ \A v \in Worker \ {w} : sent'[v] = sent[v]
      /\ \A v \in Worker : sent[v] \in Nat
  BY <1>1, <1>2 DEF ScannerInv, ScannerTypeOK, TrackerTypeOK
<1>5. \A v \in Worker : (Busy(v)' <=> Busy(v)) /\ InHand(v)' = InHand(v)
  BY <1>2 DEF Busy, InHand
<1>6. CASE s # t
  <2>1. InProgress(s)' \subseteq InProgress(s)
    BY <1>4, <1>5, <1>6 DEF InProgress
  <2> QED BY <1>2, <1>3, <1>4, <1>6, <2>1, CoveredAside DEF CountInv
<1>7. CASE s = t
  <2>1. InProgress(s)' \subseteq InProgress(s) \cup {x}
    <3>1. SUFFICES ASSUME NEW v \in Worker, NEW i \in Nat, <<v, i>> \in InProgress(s)'
                   PROVE  <<v, i>> \in InProgress(s) \/ (v = w /\ i = sent[w] + 1)
      BY DEF InProgress
    <3>2. Busy(v) /\ ScanOf[InHand(v)] = s /\ i \in 1 .. sent'[v]
      BY <1>5, <3>1 DEF InProgress
    <3>3. i \in 1 .. sent[v] \/ (v = w /\ i = sent[w] + 1)
      <4>1. CASE v = w
        BY <1>1, <1>4, <3>2, <4>1
      <4>2. CASE v # w
        BY <1>4, <3>2, <4>2
      <4> QED BY <4>1, <4>2
    <3> QED BY <3>2, <3>3 DEF InProgress
  <2>2. Covered(s)
    BY DEF CountInv
  <2> DEFINE A == AckedOf(s)
             B == InProgress(s)
             B1 == InProgress(s)'
  <2>3. IsFiniteSet(A) /\ IsFiniteSet(B) /\ B1 \in SUBSET (B \cup {x})
    BY <2>1, <2>2 DEF Covered
  <2>4. counts[s] >= Cardinality(A) + Cardinality(B) \/ s \in forgot \/ restarts > 0
    BY <2>2 DEF Covered
  <2> HIDE DEF x, A, B, B1
  <2>5. IsFiniteSet(B \cup {x}) /\ Cardinality(B \cup {x}) <= Cardinality(B) + 1
    <3>1. Cardinality(B) \in Nat
      BY <2>3, FS_CardinalityType
    <3>2. /\ IsFiniteSet(B \cup {x})
          /\ \/ Cardinality(B \cup {x}) = Cardinality(B)
             \/ Cardinality(B \cup {x}) = Cardinality(B) + 1
      BY <2>3, FS_AddElement
    <3> QED BY <3>1, <3>2
  <2>6. IsFiniteSet(B1) /\ Cardinality(B1) <= Cardinality(B \cup {x})
    BY <2>3, <2>5, FS_Subset
  <2>7. /\ Cardinality(A) \in Nat /\ Cardinality(B) \in Nat /\ Cardinality(B1) \in Nat
        /\ Cardinality(B \cup {x}) \in Nat
    BY <2>3, <2>5, <2>6, FS_CardinalityType
  <2>8. counts'[s] >= Cardinality(A) + Cardinality(B1) \/ s \in forgot' \/ restarts' > 0
    BY <1>2, <1>4, <1>7, <2>4, <2>5, <2>6, <2>7
  <2> QED BY <1>3, <2>3, <2>6, <2>8 DEF Covered, A, B, B1
<1> QED BY <1>6, <1>7

LEMMA InitCount == ScannerInit => CountInv
<1> SUFFICES ASSUME ScannerInit, NEW s \in Scan PROVE Covered(s)
  BY DEF CountInv
<1>1. AckedOf(s) = {} /\ InProgress(s) = {}
  BY DEF ScannerInit, QueueInit, AckedOf, InProgress, Busy, Chunk
<1>2. counts[s] = 0
  BY DEF ScannerInit, TrackerInit
<1> QED BY <1>1, <1>2, FS_EmptySet DEF Covered

LEMMA StepCount ==
  ASSUME ScannerInv, ScannerInv', CountInv, [ScannerNext]_scannerVars
  PROVE  CountInv'
<1>0. /\ ScannerTypeOK' /\ \A s \in Scan : counts[s] \in Nat
      /\ restarts \in Nat
      /\ counts' = counts => \A s \in Scan : counts'[s] >= counts[s]
  BY DEF ScannerInv, ScannerTypeOK, TrackerTypeOK
<1>1. ASSUME UNCHANGED <<batch, sent, restarts>>, forgot \subseteq forgot',
             \A c \in Chunk : state'[c] = "acked" => state[c] = "acked",
             \A s \in Scan : counts'[s] >= counts[s] \/ s \in forgot'
      PROVE  CountInv'
  <2> SUFFICES ASSUME NEW s \in Scan PROVE Covered(s)'
    BY DEF CountInv
  <2>1. AckedOf(s)' \subseteq AckedOf(s) /\ InProgress(s)' \subseteq InProgress(s)
    BY <1>1, AckedShrinks, ProgressStays
  <2>2. CASE counts'[s] >= counts[s]
    BY <1>0, <1>1, <2>1, <2>2, CoveredAside DEF CountInv
  <2>3. CASE s \in forgot'
    <3>1. IsFiniteSet(AckedOf(s)) /\ IsFiniteSet(InProgress(s))
      BY DEF CountInv, Covered
    <3>2. IsFiniteSet(AckedOf(s)') /\ IsFiniteSet(InProgress(s)')
      BY <2>1, <3>1, FS_Subset
    <3> QED BY <2>3, <3>2 DEF Covered
  <2> QED BY <1>1, <2>2, <2>3
<1>2. ASSUME NEW c \in Chunk, PublishChunk(c) PROVE CountInv'
  <2>1. \A x \in Chunk : state'[x] = "acked" => state[x] = "acked"
    BY <1>2 DEF PublishChunk, Publish, ScannerInv, QueueInv, QueueTypeOK, Chunk
  <2> QED BY <1>0, <1>1, <1>2, <2>1 DEF PublishChunk, Publish, trackerVars, trackerMem, procVars
<1>3. ASSUME NEW w \in Worker, FetchBatch(w) PROVE CountInv'
  <2>1. /\ ~Busy(w)
        /\ \A v \in Worker \ {w} : batch'[v] = batch[v]
        /\ \A c \in Chunk : state'[c] = state[c] \/ state'[c] = "in_flight"
    BY <1>3, FetchKeeps DEF FetchBatch, ScannerInv, Chunk
  <2>2. sent' = [sent EXCEPT ![w] = 0]
    BY <1>3, <2>1 DEF FetchBatch, ScannerInv, HandInv, ScannerTypeOK
  <2>3. UNCHANGED <<counts, forgot, restarts>>
    BY <1>3 DEF FetchBatch, trackerVars, trackerMem, procVars
  <2>4. \A c \in Chunk : state'[c] = "acked" => state[c] = "acked"
    BY <2>1
  <2> QED BY <1>0, <2>1, <2>2, <2>3, <2>4, FailCounted
<1>4. ASSUME NEW w \in Worker, Fail(w), UNCHANGED <<counts, forgot, procVars>> PROVE CountInv'
  <2>1. /\ \A v \in Worker \ {w} : batch'[v] = batch[v]
        /\ \A c \in Chunk : state'[c] = "acked" => state[c] = "acked"
    BY <1>4, NakKeeps DEF Fail, ScannerInv, Chunk
  <2> QED BY <1>0, <1>4, <2>1, FailCounted DEF Fail, procVars
<1>5. ASSUME NEW w \in Worker, Done(w), UNCHANGED <<counts, forgot, procVars>>,
             Busy(w), sent[w] = Found[InHand(w)] \/ Dropped(InHand(w))
      PROVE  CountInv'
  <2>1. sent[w] = Found[InHand(w)] \/ InHand(w) \in Poison
    <3>1. InHand(w) \in Chunk
      BY <1>5, InHandIsMsg DEF ScannerInv, Chunk
    <3>2. tries[InHand(w)] \in 0 .. MaxDeliver
      BY <3>1 DEF ScannerInv, QueueInv, QueueTypeOK, Chunk
    <3> QED BY <1>5, <3>2, QueueOptionsHold DEF Dropped
  <2>2. CASE Ack(w)
    BY <1>0, <1>5, <2>1, <2>2, AckCounted DEF Done, procVars
  <2>3. CASE Unanswered(w)
    <3>1. /\ \A v \in Worker \ {w} : batch'[v] = batch[v]
          /\ \A c \in Chunk : state'[c] = "acked" => state[c] = "acked"
      BY <2>3, NakKeeps DEF ScannerInv, Chunk
    <3> QED BY <1>0, <1>5, <3>1, FailCounted DEF Done, procVars
  <2> QED BY <1>5, <2>2, <2>3 DEF Done
<1>6. ASSUME NEW w \in Worker, WorkerStep(w) PROVE CountInv'
  <2>1. CASE PublishFinding(w)
    BY <1>0, <2>1, PublishCounted
  <2>2. CASE PublishFails(w) \/ FinalErrs(w)
    BY <1>4, <2>2 DEF PublishFails, FinalErrs, FinalFails, trackerVars, trackerMem
  <2>3. CASE Finish(w)
    BY <1>5, <2>3 DEF Finish, AllSent, Handling, trackerVars, trackerMem
  <2>4. CASE FinishLast(w)
    BY <1>0, <1>1, <2>4 DEF FinishLast, FinalRead, queueVars, procVars
  <2>5. CASE FinalSucceeds(w)
    <3>1. sent[w] = Found[InHand(w)]
      BY <2>5 DEF FinalSucceeds, FinalEmitted, ScannerInv, HandInv
    <3> QED BY <1>5, <2>5, <3>1 DEF FinalSucceeds, FinalEmitted
  <2> QED BY <1>6, <2>1, <2>2, <2>3, <2>4, <2>5 DEF WorkerStep
<1>7. ASSUME NEW c \in Chunk, AckWaitExpires(c) PROVE CountInv'
  <2>1. \A x \in Chunk : state'[x] = "acked" => state[x] = "acked"
    BY <1>7 DEF AckWaitExpires, Expire, AfterFailure, ScannerInv, QueueInv, QueueTypeOK, Chunk
  <2> QED BY <1>0, <1>1, <1>7, <2>1
         DEF AckWaitExpires, Expire, trackerVars, trackerMem, procVars
<1>8. CASE Exit \/ Killed
  <2>1. /\ restarts' > 0 /\ sent' = [w \in Worker |-> 0]
        /\ \A c \in Chunk : state'[c] = "acked" => state[c] = "acked"
    BY <1>0, <1>8 DEF Exit, Killed, Restart, DropBatches
  <2> SUFFICES ASSUME NEW s \in Scan PROVE Covered(s)'
    BY DEF CountInv
  <2>2. InProgress(s)' = {}
    BY <2>1 DEF InProgress
  <2>3. AckedOf(s)' \in SUBSET AckedOf(s) /\ IsFiniteSet(AckedOf(s))
    BY <2>1, AckedShrinks DEF CountInv, Covered
  <2>4. IsFiniteSet(AckedOf(s)')
    BY <2>3, FS_Subset
  <2> QED BY <2>1, <2>2, <2>4, FS_EmptySet DEF Covered
<1>9. CASE TickFires
  <2>1. PICK gone \in SUBSET pendingFinal :
          /\ counts' = [s \in Scan |-> IF s \in gone THEN 0 ELSE counts[s]]
          /\ pendingFinal' = pendingFinal \ gone
    BY <1>9 DEF TickFires, Tick
  <2>2. /\ forgot' = forgot \cup (pendingFinal \ pendingFinal')
        /\ UNCHANGED <<state, batch, sent, restarts>>
    BY <1>9 DEF TickFires, queueVars, procVars
  <2>3. \A s \in Scan : counts'[s] >= counts[s] \/ s \in forgot'
    BY <1>0, <2>1, <2>2
  <2> QED BY <1>1, <2>2, <2>3
<1>10. ASSUME NEW s \in Scan, EmitCount(s) \/ EmitCountFails(s) PROVE CountInv'
  BY <1>0, <1>1, <1>10 DEF EmitCount, EmitCountFails, Emit, EmitFails, queueVars, procVars
<1>11. CASE Stop \/ UNCHANGED scannerVars
  BY <1>0, <1>1, <1>11 DEF Stop, scannerVars, queueVars, procVars, trackerVars, trackerMem
<1> QED BY <1>2, <1>3, <1>6, <1>7, <1>8, <1>9, <1>10, <1>11 DEF ScannerNext, QueueStep

-----------------------------------------------------------------------------
(* The theorems.                                                           *)

\* The strengthening holds in every state the scanner reaches.
THEOREM ScannerInvariant == ScannerSpec => []ScannerInv
BY InitInv, StepInv, PTL DEF ScannerSpec

\* Every variable keeps its type, no chunk is delivered more than MaxDeliver times and
\* never more than MaxAckPending are outstanding.
THEOREM ScannerTypeCorrect == ScannerSpec => []ScannerTypeOK
<1>1. ScannerInv => ScannerTypeOK
  BY DEF ScannerInv
<1> QED BY <1>1, ScannerInvariant, PTL

\* The findings of an acknowledged chunk are in the FINDINGS stream.
THEOREM ScannerAcked == ScannerSpec => []AckedIsPublished
<1>1. ScannerInv => AckedIsPublished
  BY DEF ScannerInv
<1> QED BY <1>1, ScannerInvariant, PTL

\* The tracker takes no count for told that it did not tell.
THEOREM ScannerRecorded == ScannerSpec => []RecordedWasSaid
<1>1. ScannerInv => RecordedWasSaid
  BY DEF ScannerInv, TrackerInv
<1> QED BY <1>1, ScannerInvariant, PTL

\* The counter of a scan covers its acknowledged chunks, unless the scan was evicted or
\* the process restarted: redelivery may count a finding twice, never lose one.
THEOREM ScannerCounted == ScannerSpec => []AckedIsCounted
<1>1. ScannerInv /\ CountInv => AckedIsCounted
  <2> SUFFICES ASSUME ScannerInv, CountInv, NEW s \in Scan
               PROVE  counts[s] >= AckedFindings(s) \/ s \in forgot \/ restarts > 0
    BY DEF AckedIsCounted
  <2>1. /\ IsFiniteSet(AckedOf(s)) /\ IsFiniteSet(InProgress(s)) /\ counts[s] \in Nat
        /\ counts[s] >= Cardinality(AckedOf(s)) + Cardinality(InProgress(s))
             \/ s \in forgot \/ restarts > 0
    BY DEF CountInv, Covered, ScannerInv, ScannerTypeOK, TrackerTypeOK
  <2>2. Cardinality(AckedOf(s)) \in Nat /\ Cardinality(InProgress(s)) \in Nat
    BY <2>1, FS_CardinalityType
  <2>3. AckedFindings(s) = Cardinality(AckedOf(s))
    BY DEF AckedFindings, AckedOf
  <2> QED BY <2>1, <2>2, <2>3
<1>2. ScannerInv /\ ScannerInv' /\ CountInv /\ [ScannerNext]_scannerVars => CountInv'
  BY StepCount
<1>3. ScannerSpec => []CountInv
  BY <1>2, InitCount, ScannerInvariant, PTL DEF ScannerSpec
<1> QED BY <1>1, <1>3, ScannerInvariant, PTL

===============================================================================
