------------------------------ MODULE GetterProofs ------------------------------
(***************************************************************************)
(* What GetterPool promises of its reports for any number of requests,     *)
(* scans, blobs and getters, any options of the queue, any faults and any  *)
(* number of restarts.  RunInv says where the blobs of a run are at each   *)
(* of its phases; EndInv says who still owes a scan its last status.       *)
(***************************************************************************)
EXTENDS GetterPool, WorkQueueProofs

\* A blob of a run is still to be emitted, emitted, cut off, published, or accounted for
\* by a counted error or a failed walk; each cat-file cut off one at most; a walk that is
\* done has emitted everything.
Accounted(r, published) ==
  /\ \/ Blob \subseteq r.left \cup r.jobs \cup r.cut \cup published
     \/ r.errs
     \/ r.walk = "failed"
  /\ Cardinality(r.cut) <= CatFiles
  /\ r.walk = "done" => r.left = {}

RunInv ==
  \A g \in Getter : run[g].phase = "run" => Accounted(run[g], chunks[ScanOn(g)])

\* A run that completed published everything but what was cut off, or said that it did
\* not.
FinalInv ==
  \A g \in Getter : run[g].phase = "final" /\ run[g].outcome = "COMPLETED" =>
    \/ WholeBut(chunks[ScanOn(g)], lost[ScanOn(g)])
    \/ "COMPLETED with errors" \in status[ScanOn(g)]
    \/ ScanOn(g) \in unsaid

\* A scan that said RUNNING runs, or said how it ended, or could not.
EndInv ==
  \A s \in Scan : "RUNNING" \in status[s] =>
    \/ \E g \in Getter : run[g].phase = "run" /\ ScanOn(g) = s
    \/ status[s] # {"RUNNING"}
    \/ s \in unsaid
    \/ restarts > 0

\* Getters handle requests they accept, and start no walk before the clone; one that is
\* stopping was stopped.
HoldInv ==
  /\ \A g \in Getter : run[g].phase # "none" => InHand(g) \in Valid
  /\ \A g \in Getter : run[g].phase = "clone" => run[g].walk = "on" /\ run[g].cut = {}
  /\ stopping # {} => restarts > 0

GetterInv ==
  /\ GetterTypeOK /\ DeliverableInv
  /\ HoldInv /\ RunInv /\ FinalInv /\ EndInv
  /\ CleanScanIsWhole /\ AckedIsReported

-----------------------------------------------------------------------------
(* What a getter has in hand.                                              *)

\* A request in hand is a request, of some scan.
LEMMA InHandIsRequest ==
  ASSUME GetterInv, NEW g \in Getter, Busy(g)
  PROVE  InHand(g) \in Request /\ ScanOn(g) \in Scan
<1>1. batch[g] \in Seq(Msg) /\ batch[g] # <<>>
  BY DEF GetterInv, GetterTypeOK, QueueTypeOK, Busy, Getter
<1>2. InHand(g) \in Request
  BY <1>1, HeadTailProperties DEF InHand, Request
<1> QED BY <1>2, GetterAssumption DEF ScanOn

\* Requests that wait behind the one in hand do not change what is in hand.
LEMMA PushedBehind ==
  ASSUME GetterInv, NEW g \in Getter, NEW r \in Request, Push(g, r)
  PROVE  \A h \in Getter : Busy(h) => Busy(h)' /\ InHand(h)' = InHand(h)
<1>1. batch' = [batch EXCEPT ![g] = @ \o <<r>>]
  BY DEF Push, Deliver
<1>2. batch[g] \in Seq(Msg) /\ batch \in [Getter -> Seq(Msg)]
  BY DEF GetterInv, GetterTypeOK, QueueTypeOK, Getter
<1>3. batch[g] # <<>> => (batch[g] \o <<r>>) # <<>> /\ Head(batch[g] \o <<r>>) = Head(batch[g])
  BY <1>2 DEF Request
<1> QED BY <1>1, <1>2, <1>3 DEF Busy, InHand

-----------------------------------------------------------------------------
(* Kinds of steps.                                                         *)

\* The queue moves, and no run notices.
LEMMA QueueMoves ==
  ASSUME GetterInv, QueueInv', UNCHANGED <<run, chunks, statusVars, envVars>>,
         \A g \in Getter : run[g].phase # "none" => Busy(g)' /\ InHand(g)' = InHand(g),
         \A r \in Valid : state'[r] = "acked" => state[r] = "acked"
  PROVE  GetterInv'
<1>1. \A g \in Getter : run[g].phase # "none" => ScanOn(g)' = ScanOn(g)
  BY DEF ScanOn
<1>2. GetterTypeOK' /\ DeliverableInv'
  BY DEF GetterInv, GetterTypeOK, QueueInv, statusVars, envVars
<1>3. HoldInv'
  BY DEF GetterInv, HoldInv, envVars
<1>4. RunInv' /\ FinalInv'
  BY <1>1 DEF GetterInv, RunInv, Accounted, FinalInv, statusVars
<1>5. EndInv'
  BY <1>1 DEF GetterInv, EndInv, statusVars, envVars
<1>6. CleanScanIsWhole' /\ AckedIsReported'
  BY DEF GetterInv, CleanScanIsWhole, AckedIsReported, statusVars
<1> QED BY <1>2, <1>3, <1>4, <1>5, <1>6 DEF GetterInv

\* The streams only ever gain chunks and events.
Grows ==
  /\ chunks' \in [Scan -> SUBSET Blob] /\ status' \in [Scan -> SUBSET Event]
  /\ unsaid \subseteq unsaid' /\ unsaid' \subseteq Scan
  /\ lost' \in [Scan -> SUBSET Blob]
  /\ \A s \in Scan : /\ chunks[s] \subseteq chunks'[s] /\ status[s] \subseteq status'[s]
                     /\ lost[s] \subseteq lost'[s]

\* What is left to publish, and its number.
LEMMA MissingIsFinite ==
  ASSUME NEW L \in SUBSET Blob
  PROVE  IsFiniteSet(L) /\ Cardinality(L) \in Nat
         /\ \A M \in SUBSET L : Cardinality(M) <= Cardinality(L) /\ Cardinality(M) \in Nat
<1>1. IsFiniteSet(L)
  BY GetterAssumption, FS_Subset
<1>2. \A M \in SUBSET L : IsFiniteSet(M) /\ Cardinality(M) <= Cardinality(L)
  BY <1>1, FS_Subset
<1> QED BY <1>1, <1>2, FS_CardinalityType

\* With every blob published or cut off, by no more cat-files than there are.
LEMMA CutCovers ==
  ASSUME NEW published, NEW cut \in SUBSET Blob, Blob \subseteq cut \cup published,
         Cardinality(cut) <= CatFiles
  PROVE  WholeBut(published, cut)
<1>1. Blob \ published \in SUBSET cut
  OBVIOUS
<1>2. /\ Cardinality(Blob \ published) <= Cardinality(cut)
      /\ Cardinality(Blob \ published) \in Nat /\ Cardinality(cut) \in Nat
  BY <1>1, MissingIsFinite
<1> QED BY <1>1, <1>2, GetterAssumption DEF WholeBut

LEMMA OneMoreCut ==
  ASSUME NEW cut \in SUBSET Blob, NEW b \in Blob, Cardinality(cut) < CatFiles
  PROVE  Cardinality(cut \cup {b}) <= CatFiles
<1> DEFINE more == cut \cup {b}
           n == Cardinality(cut)
           m == Cardinality(more)
<1>1. IsFiniteSet(cut) /\ n \in Nat /\ more \in SUBSET Blob
  BY MissingIsFinite
<1>2. m \in Nat
  BY <1>1, MissingIsFinite
<1>3. CASE b \in cut
  <2>1. more = cut
    BY <1>3
  <2>2. m = n
    BY <2>1
  <2> HIDE DEF m, n
  <2> QED BY <1>1, <1>2, <2>2, GetterAssumption DEF m, n
<1>4. CASE b \notin cut
  <2>1. m = n + 1
    BY <1>1, <1>4, FS_AddElement
  <2>2. n < CatFiles
    OBVIOUS
  <2> HIDE DEF m, n
  <2>3. m <= CatFiles
    BY <1>1, <1>2, <2>1, <2>2, GetterAssumption
  <2> QED BY <2>3 DEF m
<1> QED BY <1>3, <1>4

\* A scan published but for what was cut off stays so.
LEMMA WholeStays ==
  ASSUME Grows, NEW s \in Scan, WholeBut(chunks[s], lost[s])
  PROVE  WholeBut(chunks'[s], lost'[s])
<1>1. /\ Blob \ chunks'[s] \in SUBSET (Blob \ chunks[s])
      /\ Blob \ chunks[s] \in SUBSET Blob
  BY DEF Grows
<1>2. /\ Cardinality(Blob \ chunks'[s]) <= Cardinality(Blob \ chunks[s])
      /\ Cardinality(Blob \ chunks'[s]) \in Nat /\ Cardinality(Blob \ chunks[s]) \in Nat
  BY <1>1, MissingIsFinite
<1>3. Blob \ chunks'[s] \subseteq lost'[s]
  BY <1>1 DEF Grows, WholeBut
<1> QED BY <1>2, <1>3, GetterAssumption DEF WholeBut

\* One getter's run moves on: what is to be shown is what its own new state asks.
LEMMA RunMoves ==
  ASSUME GetterInv, UNCHANGED <<queueVars, envVars>>, Grows,
         NEW g \in Getter, NEW r \in RunState, run' = [run EXCEPT ![g] = r],
         Busy(g), InHand(g) \in Valid,
         \A s \in Scan \ {ScanOn(g)} : status'[s] = status[s],
         r.phase = "clone" => r.walk = "on" /\ r.cut = {},
         r.phase = "run" => Accounted(r, chunks'[ScanOn(g)]),
         r.phase = "final" /\ r.outcome = "COMPLETED" =>
            \/ WholeBut(chunks'[ScanOn(g)], lost'[ScanOn(g)])
            \/ "COMPLETED with errors" \in status'[ScanOn(g)]
            \/ ScanOn(g) \in unsaid',
         "COMPLETED" \in status'[ScanOn(g)] => WholeBut(chunks'[ScanOn(g)], lost'[ScanOn(g)]),
         \/ r.phase = "run"
         \/ run[g].phase # "run" /\ status' = status
         \/ status'[ScanOn(g)] \ {"RUNNING"} # {} \/ ScanOn(g) \in unsaid'
  PROVE  GetterInv'
<1>1. \A h \in Getter : /\ Busy(h)' <=> Busy(h)
                        /\ InHand(h)' = InHand(h) /\ ScanOn(h)' = ScanOn(h)
  BY DEF queueVars, Busy, InHand, ScanOn
<1>2. run' \in [Getter -> RunState] /\ run'[g] = r /\ \A h \in Getter \ {g} : run'[h] = run[h]
  BY DEF GetterInv, GetterTypeOK
<1>3. \A h \in Getter : Busy(h) => ScanOn(h) \in Scan
  BY InHandIsRequest
<1>4. \A h \in Getter : run[h].phase # "none" => Busy(h)
  BY DEF GetterInv, GetterTypeOK
<1>5. GetterTypeOK' /\ DeliverableInv'
  BY <1>1, <1>2, <1>4 DEF GetterInv, GetterTypeOK, QueueTypeOK, DeliverableInv, Room,
                          queueVars, envVars, Grows
<1>6. HoldInv'
  BY <1>1, <1>2 DEF GetterInv, HoldInv, envVars
<1>7. RunInv'
  <2> SUFFICES ASSUME NEW h \in Getter, run'[h].phase = "run"
               PROVE  Accounted(run'[h], chunks'[ScanOn(h)])
    BY <1>1 DEF RunInv, Accounted
  <2>1. CASE h = g
    BY <2>1, <1>2
  <2>2. CASE h # g
    BY <2>2, <1>2, <1>3, <1>4 DEF GetterInv, RunInv, Accounted, Grows
  <2> QED BY <2>1, <2>2
<1>8. FinalInv'
  <2> SUFFICES ASSUME NEW h \in Getter,
                      run'[h].phase = "final", run'[h].outcome = "COMPLETED"
               PROVE  \/ WholeBut(chunks'[ScanOn(h)], lost'[ScanOn(h)])
                      \/ "COMPLETED with errors" \in status'[ScanOn(h)]
                      \/ ScanOn(h) \in unsaid'
    BY <1>1 DEF FinalInv
  <2>1. CASE h = g
    BY <2>1, <1>2
  <2>2. CASE h # g
    BY <2>2, <1>2, <1>3, <1>4, WholeStays DEF GetterInv, FinalInv, Grows
  <2> QED BY <2>1, <2>2
<1>9. EndInv'
  <2> SUFFICES ASSUME NEW s \in Scan, "RUNNING" \in status'[s]
               PROVE  \/ \E h \in Getter : run'[h].phase = "run" /\ ScanOn(h) = s
                      \/ status'[s] # {"RUNNING"}
                      \/ s \in unsaid'
                      \/ restarts > 0
    BY <1>1 DEF EndInv, envVars
  <2>1. CASE r.phase = "run" /\ s = ScanOn(g)
    BY <2>1, <1>2
  <2>2. CASE s # ScanOn(g)
    BY <2>2, <1>2 DEF GetterInv, EndInv, Grows
  <2>3. CASE s = ScanOn(g) /\ run[g].phase # "run" /\ status' = status
    BY <2>3, <1>2 DEF GetterInv, EndInv, Grows
  <2>4. CASE s = ScanOn(g) /\ (status'[s] \ {"RUNNING"} # {} \/ s \in unsaid')
    BY <2>4
  <2> QED BY <2>1, <2>2, <2>3, <2>4
<1>10. CleanScanIsWhole'
  BY WholeStays DEF GetterInv, CleanScanIsWhole
<1>11. AckedIsReported'
  <2>1. \A q \in Valid : ScanOf[q] \in Scan
    BY GetterAssumption
  <2>2. ASSUME NEW q \in Valid, state'[q] = "acked"
        PROVE  \/ WholeBut(chunks'[ScanOf[q]], lost'[ScanOf[q]])
               \/ "COMPLETED with errors" \in status'[ScanOf[q]]
               \/ ScanOf[q] \in unsaid'
    <3>1. \/ WholeBut(chunks[ScanOf[q]], lost[ScanOf[q]])
          \/ "COMPLETED with errors" \in status[ScanOf[q]]
          \/ ScanOf[q] \in unsaid
      BY <2>2 DEF GetterInv, AckedIsReported, queueVars
    <3> QED BY <2>1, <3>1, WholeStays DEF Grows
  <2> QED BY <2>2 DEF AckedIsReported
<1> QED BY <1>5, <1>6, <1>7, <1>8, <1>9, <1>10, <1>11 DEF GetterInv

\* A handler returns or dies with its process, and its run is over.
LEMMA RunEnds ==
  ASSUME GetterInv, QueueInv', UNCHANGED <<chunks, statusVars>>,
         NEW g \in Getter, run' = [run EXCEPT ![g] = NoRun],
         \A h \in Getter \ {g} : batch'[h] = batch[h],
         stopping' \subseteq Getter, stopping' # {} => restarts' > 0,
         asked' \subseteq Scan, restarts' \in 0 .. MaxRestarts, restarts' >= restarts,
         run[g].phase # "run" \/ restarts' > 0,
         AckedIsReported'
  PROVE  GetterInv'
<1>1. \A h \in Getter \ {g} : /\ Busy(h)' <=> Busy(h)
                              /\ InHand(h)' = InHand(h) /\ ScanOn(h)' = ScanOn(h)
  BY DEF Busy, InHand, ScanOn
<1>2. NoRun \in RunState /\ NoRun.phase = "none"
  BY DEF NoRun, RunState
<1>3. run' \in [Getter -> RunState] /\ run'[g] = NoRun
      /\ \A h \in Getter \ {g} : run'[h] = run[h]
  BY <1>2 DEF GetterInv, GetterTypeOK
<1>4. GetterTypeOK' /\ DeliverableInv'
  BY <1>1, <1>2, <1>3 DEF GetterInv, GetterTypeOK, QueueInv, statusVars
<1>5. HoldInv'
  BY <1>1, <1>2, <1>3 DEF GetterInv, HoldInv
<1>6. RunInv' /\ FinalInv'
  <2>1. RunInv'
    BY <1>1, <1>2, <1>3 DEF GetterInv, RunInv, Accounted
  <2>2. FinalInv'
    <3> SUFFICES ASSUME NEW h \in Getter,
                        run'[h].phase = "final", run'[h].outcome = "COMPLETED"
                 PROVE  \/ WholeBut(chunks[ScanOn(h)'], lost[ScanOn(h)'])
                        \/ "COMPLETED with errors" \in status[ScanOn(h)']
                        \/ ScanOn(h)' \in unsaid
      BY DEF FinalInv, statusVars
    <3>1. h # g
      BY <1>2, <1>3
    <3> QED BY <1>1, <1>3, <3>1 DEF GetterInv, FinalInv
  <2> QED BY <2>1, <2>2
<1>7. EndInv'
  <2> SUFFICES ASSUME NEW s \in Scan, "RUNNING" \in status[s], ~(restarts' > 0)
               PROVE  \/ \E h \in Getter : run'[h].phase = "run" /\ ScanOn(h)' = s
                      \/ status[s] # {"RUNNING"}
                      \/ s \in unsaid
    BY DEF EndInv, statusVars
  <2>1. ~(restarts > 0)
    BY DEF GetterInv, GetterTypeOK
  <2>2. run[g].phase # "run"
    OBVIOUS
  <2> QED BY <1>1, <1>3, <2>1, <2>2 DEF GetterInv, EndInv
<1>8. CleanScanIsWhole'
  BY DEF GetterInv, CleanScanIsWhole, statusVars
<1> QED BY <1>4, <1>5, <1>6, <1>7, <1>8 DEF GetterInv

\* Contexts are cancelled, and the runs go on with that.
LEMMA RunsDie ==
  ASSUME GetterInv, UNCHANGED <<queueVars, chunks, statusVars>>,
         run' \in [Getter -> RunState],
         \A g \in Getter : /\ run'[g].phase = run[g].phase /\ run'[g].walk = run[g].walk
                           /\ run'[g].left = run[g].left /\ run'[g].jobs = run[g].jobs
                           /\ run'[g].errs = run[g].errs /\ run'[g].cut = run[g].cut
                           /\ run'[g].outcome = run[g].outcome,
         stopping' \subseteq Getter, stopping' # {} => restarts' > 0,
         asked' \subseteq Scan, restarts' \in 0 .. MaxRestarts, restarts' >= restarts
  PROVE  GetterInv'
<1>1. \A h \in Getter : /\ Busy(h)' <=> Busy(h)
                        /\ InHand(h)' = InHand(h) /\ ScanOn(h)' = ScanOn(h)
  BY DEF queueVars, Busy, InHand, ScanOn
<1>2. GetterTypeOK' /\ DeliverableInv'
  BY <1>1 DEF GetterInv, GetterTypeOK, QueueTypeOK, DeliverableInv, Room, queueVars, statusVars
<1>3. HoldInv' /\ RunInv' /\ FinalInv'
  <2>1. HoldInv'
    BY <1>1 DEF GetterInv, HoldInv
  <2>2. RunInv'
    BY <1>1 DEF GetterInv, RunInv, Accounted
  <2>3. ASSUME NEW h \in Getter, run'[h].phase = "final", run'[h].outcome = "COMPLETED"
        PROVE  \/ WholeBut(chunks[ScanOn(h)'], lost[ScanOn(h)'])
               \/ "COMPLETED with errors" \in status[ScanOn(h)']
               \/ ScanOn(h)' \in unsaid
    BY <1>1, <2>3 DEF GetterInv, FinalInv
  <2>4. FinalInv'
    BY <2>3 DEF FinalInv, statusVars
  <2> QED BY <2>1, <2>2, <2>4
<1>4. EndInv'
  BY <1>1 DEF GetterInv, GetterTypeOK, EndInv, statusVars
<1>5. CleanScanIsWhole' /\ AckedIsReported'
  BY DEF GetterInv, CleanScanIsWhole, AckedIsReported, statusVars, queueVars
<1> QED BY <1>2, <1>3, <1>4, <1>5 DEF GetterInv

-----------------------------------------------------------------------------
(* The steps.                                                              *)

LEMMA InitInv == GetterInit => GetterInv
<1> SUFFICES ASSUME GetterInit PROVE GetterInv
  OBVIOUS
<1>1. QueueInv
  BY QueueStarts DEF GetterInit
<1>2. NoRun \in RunState /\ NoRun.phase = "none"
  BY DEF NoRun, RunState
<1>3. GetterTypeOK /\ DeliverableInv
  BY <1>1, <1>2, GetterAssumption DEF GetterInit, GetterTypeOK, QueueInv
<1>4. HoldInv /\ RunInv /\ FinalInv /\ EndInv /\ CleanScanIsWhole
  BY <1>2 DEF GetterInit, HoldInv, RunInv, FinalInv, EndInv, CleanScanIsWhole
<1>5. AckedIsReported
  BY GetterAssumption DEF GetterInit, QueueInit, AckedIsReported, Request
<1> QED BY <1>3, <1>4, <1>5 DEF GetterInv

\* The queue's own steps, and a request that is refused.
LEMMA QueueStepKeeps ==
  ASSUME GetterInv,
         \/ \E r \in Request : Submit(r) \/ AckWaitExpires(r)
         \/ \E g \in Getter, r \in Request : Receive(g, r)
         \/ \E g \in Getter : Refuse(g)
  PROVE  GetterInv'
<1>0. QueueInv /\ Valid \subseteq Msg
  BY GetterAssumption DEF GetterInv, GetterTypeOK, QueueInv, Request
<1>1. ASSUME NEW r \in Request, Submit(r) PROVE GetterInv'
  <2>1. QueueInv' /\ UNCHANGED batch
    BY <1>0, <1>1, PublishKeeps DEF Submit, Publish, Request
  <2>2. \A x \in Valid : state'[x] = "acked" => state[x] = "acked"
    BY <1>0, <1>1 DEF Submit, Publish, QueueInv, QueueTypeOK
  <2> QED BY <1>1, <2>1, <2>2, QueueMoves
         DEF Submit, GetterInv, GetterTypeOK, Busy, InHand
<1>2. ASSUME NEW r \in Request, AckWaitExpires(r) PROVE GetterInv'
  <2>1. QueueInv' /\ UNCHANGED batch
    BY <1>0, <1>2, ExpireKeeps DEF AckWaitExpires, Expire, Request
  <2>2. \A x \in Valid : state'[x] = "acked" => state[x] = "acked"
    BY <1>0, <1>2 DEF AckWaitExpires, Expire, AfterFailure, QueueInv, QueueTypeOK
  <2> QED BY <1>2, <2>1, <2>2, QueueMoves
         DEF AckWaitExpires, GetterInv, GetterTypeOK, Busy, InHand
<1>3. ASSUME NEW g \in Getter, NEW r \in Request, Receive(g, r) PROVE GetterInv'
  <2>1. QueueInv'
    BY <1>0, <1>3, PushKeeps DEF Receive, Request, Getter
  <2>2. \A h \in Getter : Busy(h) => Busy(h)' /\ InHand(h)' = InHand(h)
    BY <1>3, PushedBehind DEF Receive
  <2>3. \A x \in Valid : state'[x] = "acked" => state[x] = "acked"
    BY <1>0, <1>3 DEF Receive, Push, Deliver
  <2> QED BY <1>3, <2>1, <2>2, <2>3, QueueMoves DEF Receive, GetterInv, GetterTypeOK
<1>4. ASSUME NEW g \in Getter, Refuse(g) PROVE GetterInv'
  <2>1. InHand(g) \notin Valid /\ run[g].phase = "none"
    BY <1>4 DEF Refuse
  <2>2. /\ QueueInv' /\ \A h \in Getter \ {g} : batch'[h] = batch[h]
        /\ \A x \in Valid : state'[x] = "acked" => state[x] = "acked"
    <3>1. CASE Ack(g)
      BY <1>0, <2>1, <3>1, AckKeeps DEF Getter
    <3>2. CASE Nak(g) \/ Unanswered(g)
      BY <1>0, <3>2, NakKeeps DEF Getter
    <3> QED BY <1>4, <3>1, <3>2 DEF Refuse
  <2>3. \A h \in Getter : run[h].phase # "none" => Busy(h)' /\ InHand(h)' = InHand(h)
    BY <2>1, <2>2 DEF GetterInv, GetterTypeOK, Busy, InHand
  <2> QED BY <1>4, <2>2, <2>3, QueueMoves DEF Refuse
<1> QED BY <1>1, <1>2, <1>3, <1>4

\* An event goes out, or is counted among those that could not.
LEMMA StatusGrows ==
  ASSUME GetterInv, NEW s \in Scan, NEW ev \in Event, EmitStatus(s, ev), UNCHANGED chunks,
         lost' \in [Scan -> SUBSET Blob], \A t \in Scan : lost[t] \subseteq lost'[t]
  PROVE  /\ Grows
         /\ \A t \in Scan \ {s} : status'[t] = status[t]
         /\ \/ status'[s] = status[s] \cup {ev}
            \/ status'[s] = status[s] /\ (ev = "RUNNING" \/ s \in unsaid')
<1>1. status \in [Scan -> SUBSET Event] /\ unsaid \subseteq Scan
  BY DEF GetterInv, GetterTypeOK
<1>2. CASE status' = [status EXCEPT ![s] = @ \cup {ev}] /\ UNCHANGED unsaid
  BY <1>1, <1>2 DEF Grows, GetterInv, GetterTypeOK
<1>3. CASE UNCHANGED status /\ unsaid' = IF ev = "RUNNING" THEN unsaid ELSE unsaid \cup {s}
  BY <1>1, <1>3 DEF Grows, GetterInv, GetterTypeOK
<1> QED BY <1>2, <1>3 DEF EmitStatus

\* A handler that has registered its scan.
LEMMA HandlerKeeps ==
  ASSUME GetterInv, NEW g \in Getter,
         \/ Register(g) \/ StartRun(g)
         \/ \E b \in Blob :
              EmitBlob(g, b) \/ PublishBlob(g, b) \/ CutBlob(g, b) \/ BlobFails(g, b)
         \/ WalkDone(g) \/ WalkCancelled(g) \/ WalkFails(g) \/ Finish(g)
  PROVE  GetterInv'
<1> DEFINE s == ScanOn(g)
<1>0. Busy(g) /\ InHand(g) \in Valid /\ s \in Scan /\ run[g] \in RunState
  <2>1. Busy(g) /\ InHand(g) \in Valid
    BY DEF GetterInv, GetterTypeOK, HoldInv, Register, StartRun, EmitBlob, PublishBlob,
           CutBlob, BlobFails, WalkDone, WalkCancelled, WalkFails, Walking, Finish
  <2> QED BY <2>1, InHandIsRequest DEF GetterInv, GetterTypeOK
<1>1. UNCHANGED <<chunks, statusVars>> => Grows
  BY DEF Grows, GetterInv, GetterTypeOK, statusVars
<1>2. "COMPLETED" \in status[s] => WholeBut(chunks[s], lost[s])
  BY <1>0 DEF GetterInv, CleanScanIsWhole
<1>13. lost \in [Scan -> SUBSET Blob]
  BY DEF GetterInv, GetterTypeOK
<1>3. CASE Register(g)
  <2> DEFINE r == [NoRun EXCEPT !.phase = "clone", !.dead = g \in stopping]
  <2>1. r \in RunState /\ r.phase = "clone" /\ r.walk = "on" /\ r.cut = {}
    <3> DEFINE d == g \in stopping
    <3>1. d \in BOOLEAN
      OBVIOUS
    <3> HIDE DEF d
    <3>2. [NoRun EXCEPT !.phase = "clone", !.dead = d] \in RunState
      BY <3>1 DEF NoRun, RunState
    <3> QED BY <3>2 DEF NoRun, d
  <2> HIDE DEF r
  <2>2. /\ run' = [run EXCEPT ![g] = r] /\ run[g].phase = "none"
        /\ UNCHANGED <<queueVars, chunks, statusVars, envVars>>
    BY <1>3 DEF Register, r
  <2> QED BY <1>0, <1>1, <1>2, <2>1, <2>2, RunMoves DEF statusVars
<1>4. CASE StartRun(g)
  <2> DEFINE r == [run[g] EXCEPT !.phase = "run", !.left = Blob]
  <2>1. /\ r \in RunState /\ r.phase = "run"
        /\ r.left = Blob /\ r.walk = run[g].walk /\ r.cut = run[g].cut
    BY <1>0 DEF RunState
  <2>4. run[g].walk = "on" /\ run[g].cut = {}
    BY <1>4 DEF StartRun, GetterInv, HoldInv
  <2>5. Cardinality(r.cut) <= CatFiles
    BY <2>1, <2>4, FS_EmptySet, GetterAssumption, SMTT(30)
  <2>2. run' = [run EXCEPT ![g] = r] /\ UNCHANGED <<queueVars, chunks, lost, envVars>>
    BY <1>4 DEF StartRun, GetterInv, GetterTypeOK
  <2> HIDE DEF r
  <2>3. /\ Grows
        /\ \A t \in Scan \ {s} : status'[t] = status[t]
        /\ "COMPLETED" \in status'[s] => "COMPLETED" \in status[s]
    <3>1. CASE run[g].dead
      BY <1>1, <1>4, <2>2, <3>1 DEF StartRun, statusVars
    <3>2. CASE ~run[g].dead
      <4>1. EmitStatus(s, "RUNNING") /\ "RUNNING" \in Event
        BY <1>4, <3>2 DEF StartRun, Event
      <4> QED BY <1>0, <1>13, <2>2, <4>1, StatusGrows
    <3> QED BY <3>1, <3>2
  <2>6. "COMPLETED" \in status'[s] => WholeBut(chunks'[s], lost'[s])
    BY <1>2, <2>2, <2>3
  <2> QED BY <1>0, <2>1, <2>2, <2>3, <2>4, <2>5, <2>6, RunMoves DEF Accounted
<1>5. ASSUME NEW r \in RunState, run' = [run EXCEPT ![g] = r], r.phase = "run",
             UNCHANGED <<queueVars, statusVars, envVars>>,
             \/ UNCHANGED chunks
             \/ \E b \in Blob : chunks' = [chunks EXCEPT ![s] = @ \cup {b}],
             Accounted(r, chunks'[s])
      PROVE  GetterInv'
  <2>1. Grows
    BY <1>0, <1>5 DEF Grows, GetterInv, GetterTypeOK, statusVars
  <2>2. "COMPLETED" \in status'[s] => WholeBut(chunks'[s], lost'[s])
    BY <1>0, <1>2, <1>5, <2>1, WholeStays DEF statusVars
  <2> QED BY <1>0, <1>5, <2>1, <2>2, RunMoves DEF statusVars
<1>6. run[g].phase = "run" => Accounted(run[g], chunks[s])
  BY DEF GetterInv, RunInv
<1>7. ASSUME NEW b \in Blob, EmitBlob(g, b) PROVE GetterInv'
  <2> DEFINE r == [run[g] EXCEPT !.left = @ \ {b}, !.jobs = @ \cup {b}]
  <2>1. /\ r \in RunState /\ r.phase = run[g].phase /\ r.errs = run[g].errs
        /\ r.walk = run[g].walk /\ r.cut = run[g].cut
        /\ r.left = run[g].left \ {b} /\ r.jobs = run[g].jobs \cup {b}
    BY <1>0 DEF RunState
  <2>2. run' = [run EXCEPT ![g] = r] /\ UNCHANGED <<queueVars, chunks, statusVars, envVars>>
    BY <1>7 DEF EmitBlob, GetterInv, GetterTypeOK
  <2> HIDE DEF r
  <2> QED BY <1>5, <1>6, <1>7, <2>1, <2>2 DEF EmitBlob, Walking, Accounted
<1>8. ASSUME NEW b \in Blob, PublishBlob(g, b) PROVE GetterInv'
  <2> DEFINE r == [run[g] EXCEPT !.jobs = @ \ {b}]
  <2>1. /\ r \in RunState /\ r.phase = run[g].phase /\ r.errs = run[g].errs
        /\ r.walk = run[g].walk /\ r.left = run[g].left /\ r.jobs = run[g].jobs \ {b}
        /\ r.cut = run[g].cut
    BY <1>0 DEF RunState
  <2>2. run' = [run EXCEPT ![g] = r] /\ UNCHANGED <<queueVars, statusVars, envVars>>
    BY <1>8 DEF PublishBlob, GetterInv, GetterTypeOK
  <2>3. chunks' = [chunks EXCEPT ![s] = @ \cup {b}] /\ chunks'[s] = chunks[s] \cup {b}
    BY <1>0, <1>8 DEF PublishBlob, GetterInv, GetterTypeOK
  <2> HIDE DEF r
  <2> QED BY <1>5, <1>6, <1>8, <2>1, <2>2, <2>3 DEF PublishBlob, Accounted
<1>9. ASSUME NEW b \in Blob, BlobFails(g, b) PROVE GetterInv'
  <2> DEFINE r == [run[g] EXCEPT !.jobs = @ \ {b}, !.errs = TRUE]
  <2>1. /\ r \in RunState /\ r.phase = run[g].phase /\ r.errs
        /\ r.walk = run[g].walk /\ r.left = run[g].left /\ r.cut = run[g].cut
    BY <1>0 DEF RunState
  <2>2. /\ run' = [run EXCEPT ![g] = r] /\ UNCHANGED <<queueVars, statusVars, envVars>>
        /\ UNCHANGED chunks \/ chunks' = [chunks EXCEPT ![s] = @ \cup {b}]
    BY <1>9 DEF BlobFails, GetterInv, GetterTypeOK
  <2> HIDE DEF r
  <2> QED BY <1>5, <1>6, <1>9, <2>1, <2>2 DEF BlobFails, Accounted
<1>12. ASSUME NEW b \in Blob, CutBlob(g, b) PROVE GetterInv'
  <2> DEFINE r == [run[g] EXCEPT !.jobs = @ \ {b}, !.cut = @ \cup {b}]
  <2>1. /\ r \in RunState /\ r.phase = run[g].phase /\ r.errs = run[g].errs
        /\ r.walk = run[g].walk /\ r.left = run[g].left /\ r.jobs = run[g].jobs \ {b}
        /\ r.cut = run[g].cut \cup {b}
    BY <1>0 DEF RunState
  <2>2. /\ run' = [run EXCEPT ![g] = r]
        /\ UNCHANGED <<queueVars, chunks, statusVars, envVars>>
    BY <1>12 DEF CutBlob, GetterInv, GetterTypeOK
  <2>3. Cardinality(r.cut) <= CatFiles
    <3>1. run[g].cut \in SUBSET Blob /\ Cardinality(run[g].cut) < CatFiles
      BY <1>0, <1>12 DEF CutBlob, RunState
    <3> QED BY <2>1, <3>1, OneMoreCut
  <2> HIDE DEF r
  <2>4. run[g].phase = "run"
    BY <1>12 DEF CutBlob
  <2>5. Accounted(r, chunks'[s])
    BY <1>6, <2>1, <2>2, <2>3, <2>4 DEF Accounted
  <2> QED BY <1>5, <2>1, <2>2, <2>4, <2>5
<1>10. CASE WalkDone(g) \/ WalkCancelled(g) \/ WalkFails(g)
  <2>1. CASE WalkDone(g)
    <3> DEFINE r == [run[g] EXCEPT !.walk = "done"]
    <3>1. /\ r \in RunState /\ r.phase = run[g].phase /\ r.errs = run[g].errs
          /\ r.left = run[g].left /\ r.jobs = run[g].jobs /\ r.cut = run[g].cut
      BY <1>0 DEF RunState
    <3>2. /\ run' = [run EXCEPT ![g] = r]
          /\ UNCHANGED <<queueVars, chunks, statusVars, envVars>>
      BY <2>1 DEF WalkDone, GetterInv, GetterTypeOK
    <3> HIDE DEF r
    <3> QED BY <1>5, <1>6, <2>1, <3>1, <3>2 DEF WalkDone, Walking, Accounted
  <2>2. CASE WalkCancelled(g) \/ WalkFails(g)
    <3>1. \E jobs \in SUBSET Blob :
            run' = [run EXCEPT ![g] = [run[g] EXCEPT !.walk = "failed", !.left = {},
                                                     !.jobs = jobs]]
      <4>1. CASE WalkCancelled(g)
        <5>1. run[g].jobs \in SUBSET Blob
              /\ [run[g] EXCEPT !.walk = "failed", !.left = {}]
                   = [run[g] EXCEPT !.walk = "failed", !.left = {}, !.jobs = run[g].jobs]
          BY <1>0 DEF RunState
        <5>2. run' = [run EXCEPT ![g] = [run[g] EXCEPT !.walk = "failed", !.left = {}]]
          BY <4>1 DEF WalkCancelled, GetterInv, GetterTypeOK
        <5> QED BY <5>1, <5>2
      <4>2. CASE WalkFails(g)
        BY <1>0, <4>2 DEF WalkFails, GetterInv, GetterTypeOK, RunState
      <4> QED BY <2>2, <4>1, <4>2
    <3>3. PICK jobs \in SUBSET Blob :
            run' = [run EXCEPT ![g] = [run[g] EXCEPT !.walk = "failed", !.left = {},
                                                     !.jobs = jobs]]
      BY <3>1
    <3> DEFINE r == [run[g] EXCEPT !.walk = "failed", !.left = {}, !.jobs = jobs]
    <3>2. /\ r \in RunState /\ r.phase = run[g].phase /\ r.walk = "failed"
          /\ r.cut = run[g].cut
      BY <1>0, <3>3 DEF RunState
    <3>5. run' = [run EXCEPT ![g] = r]
      BY <3>3
    <3>4. UNCHANGED <<queueVars, chunks, statusVars, envVars>> /\ run[g].phase = "run"
      BY <2>2 DEF WalkCancelled, WalkFails, Walking
    <3> HIDE DEF r
    <3> QED BY <1>5, <1>6, <3>2, <3>5, <3>4 DEF Accounted
  <2> QED BY <1>10, <2>1, <2>2
<1>11. CASE Finish(g)
  <2> DEFINE r == [NoRun EXCEPT !.phase = "final", !.outcome = Outcome(g)]
  <2>1. Outcome(g) \in {"COMPLETED", "CANCELLED", "FAILED"} /\ EndEvent(g) \in Event \ {"RUNNING"}
    BY <1>0, <1>11 DEF Finish, Outcome, EndEvent, Event, RunState
  <2>2. r \in RunState /\ r.phase = "final" /\ r.outcome = Outcome(g)
    BY <2>1 DEF NoRun, RunState
  <2> HIDE DEF r
  <2>3. /\ run' = [run EXCEPT ![g] = r] /\ run[g].phase = "run" /\ run[g].jobs = {}
        /\ UNCHANGED <<queueVars, chunks, envVars>>
    BY <1>11 DEF Finish, r
  <2>6. /\ lost' \in [Scan -> SUBSET Blob] /\ \A t \in Scan : lost[t] \subseteq lost'[t]
        /\ EndEvent(g) = "COMPLETED" => lost'[s] = lost[s] \cup run[g].cut
    BY <1>0, <1>11, <1>13 DEF Finish, NotesLost, RunState
  <2>4. /\ Grows /\ \A t \in Scan \ {s} : status'[t] = status[t]
        /\ \/ status'[s] = status[s] \cup {EndEvent(g)}
           \/ status'[s] = status[s] /\ s \in unsaid'
    BY <1>0, <1>11, <2>1, <2>3, <2>6, StatusGrows DEF Finish
  <2>5. Outcome(g) = "COMPLETED" => run[g].errs \/ WholeBut(chunks'[s], lost'[s])
    <3>1. Outcome(g) = "COMPLETED" => run[g].walk = "done"
      BY <1>0, <1>11 DEF Finish, Outcome, RunState
    <3>2. ASSUME Outcome(g) = "COMPLETED", ~run[g].errs PROVE WholeBut(chunks'[s], lost'[s])
      <4>1. /\ Blob \subseteq run[g].cut \cup chunks[s] /\ run[g].cut \in SUBSET Blob
            /\ Cardinality(run[g].cut) <= CatFiles
        BY <1>0, <1>6, <2>3, <3>1, <3>2 DEF Accounted, RunState
      <4>2. WholeBut(chunks[s], run[g].cut)
        BY <4>1, CutCovers
      <4>3. chunks' = chunks /\ run[g].cut \subseteq lost'[s]
        BY <2>3, <2>6, <3>2 DEF EndEvent
      <4> QED BY <4>2, <4>3 DEF WholeBut
    <3> QED BY <3>2
  <2>7. "COMPLETED" \in status'[s] => WholeBut(chunks'[s], lost'[s])
    <3>1. CASE "COMPLETED" \in status[s]
      BY <1>0, <1>2, <2>4, <3>1, WholeStays
    <3>2. CASE "COMPLETED" \in status'[s] /\ "COMPLETED" \notin status[s]
      BY <2>4, <2>5, <3>2 DEF EndEvent
    <3> QED BY <3>1, <3>2
  <2>8. Outcome(g) = "COMPLETED" =>
          \/ WholeBut(chunks'[s], lost'[s])
          \/ "COMPLETED with errors" \in status'[s]
          \/ s \in unsaid'
    BY <2>4, <2>5 DEF EndEvent
  <2>9. status'[s] \ {"RUNNING"} # {} \/ s \in unsaid'
    BY <2>1, <2>4
  <2> QED BY <1>0, <2>2, <2>3, <2>4, <2>7, <2>8, <2>9, RunMoves
<1> QED BY <1>3, <1>4, <1>7, <1>8, <1>9, <1>10, <1>11, <1>12

\* A handler that is over: the clone failed, or the run has reported.
LEMMA HandlerEnds ==
  ASSUME GetterInv, NEW g \in Getter, CloneFails(g) \/ Return(g)
  PROVE  GetterInv'
<1>1. QueueInv /\ Valid \subseteq Msg
  BY GetterAssumption DEF GetterInv, GetterTypeOK, QueueInv, Request
<1>2. /\ run' = [run EXCEPT ![g] = NoRun] /\ run[g].phase \in {"clone", "final"}
      /\ UNCHANGED <<chunks, statusVars, envVars>>
  BY DEF CloneFails, Return
<1>3. /\ stopping' \subseteq Getter /\ (stopping' # {} => restarts' > 0)
      /\ asked' \subseteq Scan /\ restarts' \in 0 .. MaxRestarts /\ restarts' = restarts
  BY <1>2 DEF GetterInv, GetterTypeOK, HoldInv, envVars
<1>4. restarts' >= restarts
  BY <1>3, GetterAssumption
<1>5. CASE Nak(g) \/ Unanswered(g)
  <2>1. /\ QueueInv' /\ \A h \in Getter \ {g} : batch'[h] = batch[h]
        /\ \A r \in Valid : state'[r] = "acked" => state[r] = "acked"
    BY <1>1, <1>5, NakKeeps DEF Getter
  <2>2. AckedIsReported'
    BY <1>2, <2>1 DEF GetterInv, AckedIsReported, statusVars
  <2> QED BY <1>2, <1>3, <1>4, <2>1, <2>2, RunEnds
<1>6. CASE Ack(g) /\ run[g].phase = "final" /\ run[g].outcome = "COMPLETED"
  <2>1. /\ QueueInv' /\ \A h \in Getter \ {g} : batch'[h] = batch[h]
        /\ \A r \in Valid : state'[r] = IF r = InHand(g) THEN "acked" ELSE state[r]
    BY <1>1, <1>6, AckKeeps DEF Getter
  <2>2. \/ WholeBut(chunks[ScanOf[InHand(g)]], lost[ScanOf[InHand(g)]])
        \/ "COMPLETED with errors" \in status[ScanOf[InHand(g)]]
        \/ ScanOf[InHand(g)] \in unsaid
    BY <1>6 DEF GetterInv, FinalInv, ScanOn
  <2>3. AckedIsReported'
    BY <1>2, <2>1, <2>2 DEF GetterInv, AckedIsReported, statusVars
  <2> QED BY <1>2, <1>3, <1>4, <2>1, <2>3, RunEnds
<1> QED BY <1>5, <1>6 DEF CloneFails, Return

\* A cancel, a signal, an exit or a kill.
LEMMA EnvironmentKeeps ==
  ASSUME GetterInv,
         \/ \E s \in Scan : Cancel(s)
         \/ \E g \in Getter : Stop(g) \/ Exit(g) \/ Killed(g)
  PROVE  GetterInv'
<1>0. restarts \in 0 .. MaxRestarts /\ MaxRestarts \in Nat /\ run \in [Getter -> RunState]
  BY GetterAssumption DEF GetterInv, GetterTypeOK
<1>1. \A g \in Getter : [run[g] EXCEPT !.dead = TRUE] \in RunState
  BY <1>0 DEF RunState
<1>2. ASSUME NEW s \in Scan, Cancel(s) PROVE GetterInv'
  <2>1. run' \in [Getter -> RunState]
    BY <1>0, <1>1, <1>2 DEF Cancel
  <2>2. \A g \in Getter : run'[g] \in {run[g], [run[g] EXCEPT !.dead = TRUE]}
    BY <1>2 DEF Cancel
  <2>3. /\ UNCHANGED <<queueVars, chunks, statusVars, stopping, restarts>>
        /\ asked' = asked \cup {s}
    BY <1>2 DEF Cancel
  <2> QED BY <1>0, <2>1, <2>2, <2>3, RunsDie DEF GetterInv, GetterTypeOK, HoldInv, RunState
<1>3. ASSUME NEW g \in Getter, Stop(g) PROVE GetterInv'
  <2>1. run' \in [Getter -> RunState]
        /\ \A h \in Getter : run'[h] \in {run[h], [run[h] EXCEPT !.dead = TRUE]}
    BY <1>0, <1>1, <1>3 DEF Stop
  <2>2. /\ UNCHANGED <<queueVars, chunks, statusVars, asked>>
        /\ stopping' = stopping \cup {g} /\ restarts' = restarts + 1
        /\ restarts < MaxRestarts
    BY <1>3 DEF Stop
  <2> QED BY <1>0, <2>1, <2>2, RunsDie, SMTT(30) DEF GetterInv, GetterTypeOK, RunState
<1>4. ASSUME NEW g \in Getter, Exit(g) \/ Killed(g) PROVE GetterInv'
  <2>1. /\ DropBatches({g}) /\ run' = [run EXCEPT ![g] = NoRun]
        /\ stopping' = stopping \ {g}
        /\ UNCHANGED <<chunks, statusVars, asked>>
    BY <1>4 DEF Exit, Killed, Restart
  <2>2. QueueInv'
    BY <2>1, DropKeeps DEF GetterInv, GetterTypeOK, QueueInv
  <2>3. \A h \in Getter \ {g} : batch'[h] = batch[h]
    BY <2>1 DEF DropBatches, GetterInv, GetterTypeOK, QueueTypeOK, Getter
  <2>4. restarts' > 0 /\ restarts' \in 0 .. MaxRestarts /\ restarts' >= restarts
    BY <1>0, <1>4 DEF Exit, Killed, GetterInv, HoldInv
  <2>5. AckedIsReported'
    BY <2>1 DEF DropBatches, GetterInv, AckedIsReported, statusVars
  <2>6. stopping' \subseteq Getter /\ asked' \subseteq Scan
    BY <2>1 DEF GetterInv, GetterTypeOK
  <2> QED BY <2>1, <2>2, <2>3, <2>4, <2>5, <2>6, RunEnds
<1> QED BY <1>2, <1>3, <1>4

LEMMA StepInv == GetterInv /\ [GetterNext]_getterVars => GetterInv'
<1> SUFFICES ASSUME GetterInv, [GetterNext]_getterVars PROVE GetterInv'
  OBVIOUS
<1>1. ASSUME NEW g \in Getter, HandlerStep(g) PROVE GetterInv'
  BY <1>1, QueueStepKeeps, HandlerKeeps, HandlerEnds DEF HandlerStep
<1>2. CASE UNCHANGED getterVars
  BY <1>2, RunsDie DEF getterVars, envVars, GetterInv, GetterTypeOK, HoldInv
<1> QED BY <1>1, <1>2, QueueStepKeeps, EnvironmentKeeps DEF GetterNext

-----------------------------------------------------------------------------
(* The theorems.                                                           *)

\* The strengthening holds in every state the getters reach.
THEOREM GetterInvariant == GetterSpec => []GetterInv
BY InitInv, StepInv, PTL DEF GetterSpec

\* Every variable keeps its type, a getter works on a request only while it holds it,
\* and the queue keeps to MaxDeliver and MaxAckPending.
THEOREM GetterTypeCorrect == GetterSpec => []GetterTypeOK
<1>1. GetterInv => GetterTypeOK
  BY DEF GetterInv
<1> QED BY <1>1, GetterInvariant, PTL

\* COMPLETED without errors is said only of a scan whose blobs are all published, except
\* those a cat-file was in the middle of when it ended, at most one for each.
THEOREM GetterCleanIsWhole == GetterSpec => []CleanScanIsWhole
<1>1. GetterInv => CleanScanIsWhole
  BY DEF GetterInv
<1> QED BY <1>1, GetterInvariant, PTL

\* A request the dispatcher accepts leaves the queue with its blobs published, cut-off ones
\* excepted, or with errors reported, or with a last status that could not be sent.
THEOREM GetterAcked == GetterSpec => []AckedIsReported
<1>1. GetterInv => AckedIsReported
  BY DEF GetterInv
<1> QED BY <1>1, GetterInvariant, PTL

\* The last status of a scan does not get lost with a cancelled context.
THEOREM GetterEnds == GetterSpec => []EndIsReported
<1>1. GetterInv => EndIsReported
  BY DEF GetterInv, EndInv, EndIsReported
<1> QED BY <1>1, GetterInvariant, PTL

===============================================================================
