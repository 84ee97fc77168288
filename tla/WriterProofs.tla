------------------------------ MODULE WriterProofs ------------------------------
(***************************************************************************)
(* What ReportSink and WriterService promise for any number of findings,   *)
(* scans, workers, documents and tempfiles, any caps, options, faults and  *)
(* restarts.                                                               *)
(*                                                                         *)
(* First the report sink.  The invariants of its run are not inductive:    *)
(* SinkInv adds how documents, the open map, the finalized FIFO and the    *)
(* published reports hang together.  SinkTypeInv is what a crash leaves of *)
(* it.  Then the service: its types; that the order of the sinks in the    *)
(* handler's loop makes NDJSON the log that everything else is a part of;  *)
(* and that it uses its report sink as ReportSink says.  ProgressInv says  *)
(* what a worker that has come as far as the report sink has done.         *)
(***************************************************************************)
EXTENDS WriterService, SequenceTheorems, TLAPS

-----------------------------------------------------------------------------
(* The report sink.                                                        *)

\* The map holds live documents of its scans, none of them taken out or finalized.
OpenInv ==
  \A s \in Scan : open[s] # NoDoc =>
    /\ ~closed
    /\ doc[open[s]].scan = s
    /\ ~doc[open[s]].closed
    /\ open[s] \notin pending
    /\ s \notin Range(finalized)

\* A live document is in the map or on its way to be published.
LiveInv ==
  /\ \A d \in pending : d \in Live
  /\ \A d \in Live : d \in pending \/ open[doc[d].scan] = d

\* A scan whose document left the map is remembered, was forgotten by the FIFO, or
\* the whole sink is closed.
TakenInv ==
  \A d \in Doc : doc[d].scan # NoScan =>
    \/ open[doc[d].scan] = d
    \/ doc[d].scan \in Range(finalized) \cup evicted
    \/ closed

\* A document holds rows of its scan only; one that was never opened holds none.
RowsInv ==
  \A d \in Doc :
    /\ \A f \in Range(doc[d].rows) : ScanOf[f] = doc[d].scan
    /\ doc[d].scan = NoScan => doc[d] = Unopened

\* A Write between its sections holds a document of its finding's scan.
CallInv ==
  \A w \in Worker : call[w] # Idle =>
    /\ call[w].f \in Finding /\ call[w].d \in Doc
    /\ doc[call[w].d].scan = ScanOf[call[w].f]

\* A scan the FIFO has not forgotten had one document in the life of the sink, and
\* its report is empty until that document is closed.
SingleInv ==
  /\ \A d, e \in Doc : doc[d].scan = doc[e].scan =>
       d = e \/ doc[d].scan \in evicted \cup {NoScan}
  /\ \A s \in Scan : report[s] # {} =>
       \E d \in Doc : doc[d].scan = s /\ doc[d].closed

SinkInv ==
  /\ SinkTypeOK
  /\ OpenInv /\ LiveInv /\ TakenInv /\ RowsInv /\ CallInv /\ SingleInv
  /\ AckedAccounted

-----------------------------------------------------------------------------
(* Sequences and the FIFO.                                                 *)

\* Appending adds exactly one element to what a sequence holds.
LEMMA RangeAppend ==
  ASSUME NEW S, NEW q \in Seq(S), NEW x \in S
  PROVE  Range(Append(q, x)) = Range(q) \cup {x}
<1>1. Range(Append(q, x)) \subseteq Range(q) \cup {x}
  BY DEF Range
<1>2. \A y \in Range(q) : y \in Range(Append(q, x))
  <2> SUFFICES ASSUME NEW i \in 1 .. Len(q) PROVE q[i] \in Range(Append(q, x))
    BY DEF Range
  <2>1. i \in DOMAIN Append(q, x) /\ Append(q, x)[i] = q[i]
    OBVIOUS
  <2> QED BY <2>1 DEF Range
<1>3. x \in Range(Append(q, x))
  <2>1. Len(q) + 1 \in DOMAIN Append(q, x) /\ Append(q, x)[Len(q) + 1] = x
    OBVIOUS
  <2> QED BY <2>1 DEF Range
<1> QED BY <1>1, <1>2, <1>3

\* Dropping the head loses at most the head.
LEMMA RangeTail ==
  ASSUME NEW S, NEW q \in Seq(S), q # <<>>
  PROVE  /\ Range(Tail(q)) \subseteq Range(q)
         /\ Range(q) \subseteq Range(Tail(q)) \cup {Head(q)}
<1>1. Range(Tail(q)) \subseteq Range(q)
  <2> SUFFICES ASSUME NEW i \in 1 .. Len(Tail(q)) PROVE Tail(q)[i] \in Range(q)
    BY DEF Range
  <2>1. i + 1 \in DOMAIN q /\ Tail(q)[i] = q[i + 1]
    OBVIOUS
  <2> QED BY <2>1 DEF Range
<1>2. Range(q) \subseteq Range(Tail(q)) \cup {Head(q)}
  <2> SUFFICES ASSUME NEW i \in 1 .. Len(q), i # 1 PROVE q[i] \in Range(Tail(q))
    BY DEF Range
  <2>1. i - 1 \in DOMAIN Tail(q) /\ Tail(q)[i - 1] = q[i]
    OBVIOUS
  <2> QED BY <2>1 DEF Range
<1> QED BY <1>1, <1>2

\* markFinalizedLocked forgets nothing without recording it, and remembers no scan
\* but the one it is given.
LEMMA MarkFinalizedFacts ==
  ASSUME SinkTypeOK, NEW s \in Scan, MarkFinalized(s)
  PROVE  /\ finalized' \in Seq(Scan) /\ Len(finalized') <= FinalizedCap
         /\ evicted' \subseteq Scan /\ evicted \subseteq evicted'
         /\ Range(finalized') \subseteq Range(finalized) \cup {s}
         /\ Range(finalized) \cup evicted \cup {s}
              \subseteq Range(finalized') \cup evicted'
<1> DEFINE order == IF s \in Range(finalized) THEN finalized ELSE Append(finalized, s)
<1>1. order \in Seq(Scan) /\ Len(order) <= FinalizedCap + 1
  BY SinkAssumption DEF SinkTypeOK
<1>2. Range(order) = Range(finalized) \cup {s}
  BY RangeAppend DEF SinkTypeOK
<1>3. CASE Len(order) > FinalizedCap
  <2>1. finalized' = Tail(order) /\ evicted' = evicted \cup {Head(order)}
    BY <1>3 DEF MarkFinalized
  <2>2. order # <<>>
    BY <1>1, <1>3, SinkAssumption
  <2>3. Head(order) \in Scan /\ Tail(order) \in Seq(Scan)
        /\ Len(Tail(order)) = Len(order) - 1
    <3> HIDE DEF order
    <3> QED BY <1>1, <2>2
  <2>4. Len(Tail(order)) <= FinalizedCap
    <3> HIDE DEF order
    <3> QED BY <1>1, <2>3, SinkAssumption
  <2> HIDE DEF order
  <2> QED BY <1>1, <1>2, <2>1, <2>2, <2>3, <2>4, RangeTail DEF SinkTypeOK
<1>4. CASE ~(Len(order) > FinalizedCap)
  <2>1. finalized' = order /\ evicted' = evicted
    BY <1>4 DEF MarkFinalized
  <2> HIDE DEF order
  <2> QED BY <1>1, <1>2, <1>4, <2>1, SinkAssumption DEF SinkTypeOK
<1> QED BY <1>3, <1>4

\* The fields of a tempfile that was never opened.
LEMMA UnopenedFields ==
  Unopened.scan = NoScan /\ Unopened.rows = <<>> /\ Unopened.closed = FALSE
BY Zenon DEF Unopened

-----------------------------------------------------------------------------
(* The invariant holds initially and every action keeps it.                *)

LEMMA SinkInvInit == SinkInit => SinkInv
<1> SUFFICES ASSUME SinkInit PROVE SinkInv
  OBVIOUS
<1> USE SinkAssumption DEF SinkInit, Unopened, Idle
<1>1. SinkTypeOK
  <2>1. doc \in [Doc -> DocState] /\ \A d \in Doc : Len(doc[d].rows) <= MaxPerScan
    BY DEF DocState
  <2>2. call \in [Worker -> CallState]
    BY DEF CallState
  <2>3. finalized \in Seq(Scan) /\ Len(finalized) <= FinalizedCap
    OBVIOUS
  <2>4. report \in [Scan -> SUBSET Finding] /\ open \in [Scan -> Doc \cup {NoDoc}]
    OBVIOUS
  <2> QED BY <2>1, <2>2, <2>3, <2>4 DEF SinkTypeOK
<1>2. OpenInv /\ LiveInv /\ TakenInv /\ CallInv /\ AckedAccounted
  BY DEF OpenInv, LiveInv, TakenInv, CallInv, AckedAccounted, Live
<1>3. RowsInv /\ SingleInv
  BY DEF RowsInv, SingleInv, Range
<1> QED BY <1>1, <1>2, <1>3 DEF SinkInv

LEMMA JoinKeeps ==
  ASSUME SinkInv, NEW w \in Worker, NEW f \in Finding, WriteJoin(w, f)
  PROVE  SinkInv'
<1> USE SinkAssumption DEF SinkInv, WriteJoin
<1>1. SinkTypeOK'
  BY DEF SinkTypeOK, CallState, sinkHist
<1>2. CallInv'
  BY DEF CallInv, OpenInv, Idle, SinkTypeOK, CallState
<1>3. /\ OpenInv' /\ LiveInv' /\ TakenInv' /\ RowsInv' /\ SingleInv'
      /\ AckedAccounted'
  BY DEF OpenInv, LiveInv, TakenInv, RowsInv, SingleInv, AckedAccounted, Live, sinkHist
<1> QED BY <1>1, <1>2, <1>3

LEMMA OpenKeeps ==
  ASSUME SinkInv, NEW w \in Worker, NEW f \in Finding, WriteOpen(w, f)
  PROVE  SinkInv'
<1> DEFINE s == ScanOf[f]
           d == Fresh
<1> USE SinkAssumption, UnopenedFields DEF SinkInv
<1>1. d \in Doc /\ doc[d] = Unopened
  BY DEF WriteOpen, Fresh
<1>2. /\ s \in Scan /\ s \notin Range(finalized) /\ open[s] = NoDoc /\ ~closed
      /\ doc' = [doc EXCEPT ![d].scan = s]
      /\ open' = [open EXCEPT ![s] = d]
      /\ call' = [call EXCEPT ![w] = [f |-> f, d |-> d]]
      /\ UNCHANGED <<closed, finalized, pending, report, acked, lost, evicted>>
  BY DEF WriteOpen, sinkHist
<1> HIDE DEF d, s
<1>3. /\ doc'[d] \in DocState
      /\ doc'[d].scan = s /\ doc'[d].rows = doc[d].rows
      /\ doc'[d].closed = doc[d].closed /\ ~doc'[d].closed
      /\ \A e \in Doc \ {d} : doc'[e] = doc[e]
  <2>1. doc'[d] = [doc[d] EXCEPT !.scan = s]
    BY <1>1, <1>2 DEF SinkTypeOK
  <2>2. \A e \in Doc \ {d} : doc'[e] = doc[e]
    BY <1>1, <1>2 DEF SinkTypeOK
  <2>3. doc[d] \in DocState /\ ~doc[d].closed
    BY <1>1 DEF SinkTypeOK
  <2> QED BY <2>1, <2>2, <2>3, <1>2 DEF DocState
<1>4. \A e \in Doc : doc'[e].closed = doc[e].closed /\ doc'[e].rows = doc[e].rows
  BY <1>1, <1>3
<1>5. d \notin pending /\ d # NoDoc /\ \A t \in Scan : open[t] # d
  BY <1>1, <1>2 DEF LiveInv, Live, OpenInv
<1>6. SinkTypeOK'
  BY <1>1, <1>2, <1>3, <1>4 DEF SinkTypeOK, DocState, CallState
<1>7. OpenInv'
  BY <1>1, <1>2, <1>3, <1>5 DEF OpenInv, SinkTypeOK
<1>8. LiveInv'
  <2>1. \A e \in pending' : e \in Live'
    BY <1>1, <1>2, <1>3, <1>5 DEF LiveInv, Live
  <2>2. ASSUME NEW e \in Live' PROVE e \in pending' \/ open'[doc'[e].scan] = e
    BY <1>1, <1>2, <1>3, <1>5 DEF LiveInv, Live, SinkTypeOK, DocState
  <2> QED BY <2>1, <2>2 DEF LiveInv
<1>9. TakenInv'
  BY <1>1, <1>2, <1>3, <1>5 DEF TakenInv, SinkTypeOK, DocState
<1>10. RowsInv'
  <2>1. doc'[d].scan = s /\ Range(doc'[d].rows) = {} /\ s # NoScan
    BY <1>1, <1>2, <1>3 DEF Range
  <2> QED BY <2>1, <1>3 DEF RowsInv
<1>11. CallInv'
  <2> SUFFICES ASSUME NEW v \in Worker, call'[v] # Idle
               PROVE  /\ call'[v].f \in Finding /\ call'[v].d \in Doc
                      /\ doc'[call'[v].d].scan = ScanOf[call'[v].f]
    BY DEF CallInv
  <2>1. CASE v = w
    BY <2>1, <1>1, <1>2, <1>3 DEF s, SinkTypeOK
  <2>2. CASE v # w
    <3>1. call'[v] = call[v]
      BY <2>2, <1>2 DEF SinkTypeOK
    <3>2. call[v].d # d
      BY <3>1, <1>1 DEF CallInv
    <3> QED BY <3>1, <3>2, <1>3 DEF CallInv
  <2> QED BY <2>1, <2>2
<1>12. SingleInv'
  <2>1. ASSUME NEW e \in Doc \ {d}, doc[e].scan = s PROVE s \in evicted
    BY <2>1, <1>1, <1>2 DEF TakenInv, OpenInv
  <2>2. ASSUME NEW a \in Doc, NEW b \in Doc, doc'[a].scan = doc'[b].scan
        PROVE a = b \/ doc'[a].scan \in evicted' \cup {NoScan}
    BY <2>1, <2>2, <1>1, <1>2, <1>3 DEF SingleInv
  <2>3. ASSUME NEW t \in Scan, report'[t] # {}
        PROVE \E a \in Doc : doc'[a].scan = t /\ doc'[a].closed
    BY <2>3, <1>1, <1>2, <1>3 DEF SingleInv
  <2> QED BY <2>2, <2>3 DEF SingleInv
<1>13. AckedAccounted'
  <2> SUFFICES ASSUME NEW g \in acked
               PROVE \/ g \in report'[ScanOf[g]]
                     \/ \E e \in Live' : /\ g \in Range(doc'[e].rows)
                                         /\ e \in pending' \/ open'[ScanOf[g]] = e
                     \/ g \in lost'
                     \/ ScanOf[g] \in evicted'
    BY <1>2 DEF AckedAccounted
  <2>1. CASE \E e \in Live : /\ g \in Range(doc[e].rows)
                             /\ e \in pending \/ open[ScanOf[g]] = e
    <3>1. PICK e \in Live : /\ g \in Range(doc[e].rows)
                            /\ e \in pending \/ open[ScanOf[g]] = e
      BY <2>1
    <3>2. e # d
      BY <3>1, <1>1 DEF Live, Range
    <3>3. e \in Live' /\ g \in Range(doc'[e].rows)
      <4>1. e \in Doc /\ doc'[e] = doc[e]
        BY <3>2, <1>3 DEF Live
      <4> QED BY <3>1, <4>1 DEF Live
    <3>4. e \in Doc /\ (e \in pending \/ open'[ScanOf[g]] = e)
      BY <3>1, <1>2, NoDoc \notin Doc DEF Live, SinkTypeOK
    <3> QED BY <3>3, <3>4, <1>2
  <2> QED BY <2>1, <1>2 DEF AckedAccounted
<1> QED BY <1>6, <1>7, <1>8, <1>9, <1>10, <1>11, <1>12, <1>13

LEMMA RowFailsKeeps ==
  ASSUME SinkInv, NEW w \in Worker, RowFails(w)
  PROVE  SinkInv'
<1> USE SinkAssumption DEF SinkInv, RowFails, sinkHist
<1>1. SinkTypeOK'
  BY DEF SinkTypeOK, CallState, Idle
<1>2. CallInv'
  BY DEF CallInv, SinkTypeOK
<1>3. /\ OpenInv' /\ LiveInv' /\ TakenInv' /\ RowsInv' /\ SingleInv'
      /\ AckedAccounted'
  BY DEF OpenInv, LiveInv, TakenInv, RowsInv, SingleInv, AckedAccounted, Live
<1> QED BY <1>1, <1>2, <1>3

LEMMA RowAppendedKeeps ==
  ASSUME SinkInv, NEW w \in Worker, RowAppended(w)
  PROVE  SinkInv'
<1> DEFINE d == call[w].d
           f == call[w].f
<1> USE SinkAssumption DEF SinkInv
<1>1. /\ d \in Doc /\ f \in Finding /\ doc[d].scan = ScanOf[f] /\ ~doc[d].closed
      /\ Len(doc[d].rows) < MaxPerScan
      /\ doc' = [doc EXCEPT ![d].rows = Append(@, f)]
      /\ acked' = acked \cup {f}
      /\ call' = [call EXCEPT ![w] = Idle]
      /\ UNCHANGED <<closed, open, finalized, pending, report, lost, evicted>>
  BY DEF RowAppended, CallInv
<1> HIDE DEF d, f
<1>2. /\ doc'[d] = [doc[d] EXCEPT !.rows = Append(doc[d].rows, f)]
      /\ \A e \in Doc \ {d} : doc'[e] = doc[e]
      /\ doc[d] \in DocState /\ doc[d].rows \in Seq(Finding)
  BY <1>1 DEF SinkTypeOK, DocState
<1>3. /\ doc'[d] \in DocState
      /\ doc'[d].rows = Append(doc[d].rows, f)
      /\ \A e \in Doc : doc'[e].scan = doc[e].scan /\ doc'[e].closed = doc[e].closed
  <2>1. Append(doc[d].rows, f) \in Seq(Finding)
    BY <1>1, <1>2
  <2>2. /\ doc'[d] \in DocState /\ doc'[d].rows = Append(doc[d].rows, f)
        /\ doc'[d].scan = doc[d].scan
    BY <2>1, <1>2 DEF DocState
  <2>3. doc'[d].closed = doc[d].closed
    BY <1>2, Zenon DEF DocState
  <2> QED BY <2>2, <2>3, <1>2
<1>4. Range(doc'[d].rows) = Range(doc[d].rows) \cup {f}
  BY <1>1, <1>2, <1>3, RangeAppend
<1>5. Live' = Live
  BY <1>3 DEF Live
<1>6. SinkTypeOK'
  <2>1. doc' \in [Doc -> DocState]
    BY <1>1, <1>2, <1>3 DEF SinkTypeOK
  <2>2. Len(doc'[d].rows) <= MaxPerScan
    BY <1>1, <1>2, <1>3
  <2>3. call' \in [Worker -> CallState]
    BY <1>1 DEF SinkTypeOK, CallState, Idle
  <2> QED BY <2>1, <2>2, <2>3, <1>1, <1>2 DEF SinkTypeOK
<1>7. OpenInv'
  BY <1>1, <1>3 DEF OpenInv, SinkTypeOK
<1>8. LiveInv' /\ TakenInv'
  BY <1>1, <1>3, <1>5 DEF LiveInv, TakenInv, Live
<1>9. RowsInv'
  <2>1. ScanOf[f] # NoScan
    BY <1>1
  <2> QED BY <2>1, <1>1, <1>2, <1>3, <1>4 DEF RowsInv
<1>10. CallInv'
  BY <1>1, <1>3 DEF CallInv, SinkTypeOK
<1>11. SingleInv'
  BY <1>1, <1>3 DEF SingleInv
<1>12. AckedAccounted'
  <2>1. \A e \in Doc : Range(doc[e].rows) \subseteq Range(doc'[e].rows)
    BY <1>2, <1>4
  <2>2. d \in Live /\ (d \in pending \/ open[ScanOf[f]] = d)
    BY <1>1 DEF LiveInv, Live
  <2>3. ASSUME NEW g \in acked', g # f
        PROVE \/ g \in report'[ScanOf[g]]
              \/ \E e \in Live' : /\ g \in Range(doc'[e].rows)
                                  /\ e \in pending' \/ open'[ScanOf[g]] = e
              \/ g \in lost'
              \/ ScanOf[g] \in evicted'
    <3>1. Live \subseteq Doc
      BY DEF Live
    <3> QED BY <2>1, <2>3, <3>1, <1>1, <1>5 DEF AckedAccounted
  <2>4. f \in Range(doc'[d].rows)
    BY <1>4
  <2> QED BY <2>2, <2>3, <2>4, <1>1, <1>5 DEF AckedAccounted
<1> QED BY <1>6, <1>7, <1>8, <1>9, <1>10, <1>11, <1>12

\* Finalize and the idle sweeper take a document the same way.
LEMMA TakeKeeps ==
  ASSUME SinkInv, NEW s \in Scan, Take(s)
  PROVE  SinkInv'
<1> DEFINE d == open[s]
<1> USE SinkAssumption DEF SinkInv
<1>1. /\ ~closed /\ d \in Doc /\ d # NoDoc
      /\ open' = [open EXCEPT ![s] = NoDoc]
      /\ pending' = pending \cup {d}
      /\ UNCHANGED <<closed, doc, call, report, acked, lost>>
  BY DEF Take, SinkTypeOK
<1>2. /\ finalized' \in Seq(Scan) /\ Len(finalized') <= FinalizedCap
      /\ evicted' \subseteq Scan /\ evicted \subseteq evicted'
      /\ Range(finalized') \subseteq Range(finalized) \cup {s}
      /\ Range(finalized) \cup evicted \cup {s}
           \subseteq Range(finalized') \cup evicted'
  BY MarkFinalizedFacts DEF Take
<1>3. doc[d].scan = s /\ ~doc[d].closed /\ d \in Live
  BY <1>1 DEF OpenInv, Live
<1>4. \A t \in Scan \ {s} : open'[t] = open[t] /\ open[t] # d
  BY <1>1, <1>3 DEF SinkTypeOK, OpenInv
<1>5. open'[s] = NoDoc
  BY <1>1 DEF SinkTypeOK
<1> HIDE DEF d
<1>6. SinkTypeOK'
  BY <1>1, <1>2 DEF SinkTypeOK
<1>7. OpenInv'
  <2> SUFFICES ASSUME NEW t \in Scan \ {s}, open[t] # NoDoc
               PROVE  /\ ~closed' /\ doc'[open'[t]].scan = t
                      /\ ~doc'[open'[t]].closed
                      /\ open'[t] \notin pending' /\ t \notin Range(finalized')
    BY <1>4, <1>5 DEF OpenInv
  <2> QED BY <1>1, <1>2, <1>4 DEF OpenInv
<1>8. LiveInv'
  <2>1. Live' = Live
    BY <1>1 DEF Live
  <2>2. ASSUME NEW e \in Live, e # d PROVE e \in pending \/ open'[doc[e].scan] = e
    <3>1. doc[e].scan \in Scan
      BY DEF Live, SinkTypeOK, DocState
    <3>2. e \in pending \/ open[doc[e].scan] = e
      BY DEF LiveInv
    <3>3. CASE doc[e].scan = s
      BY <2>2, <3>2, <3>3 DEF d
    <3> QED BY <3>1, <3>2, <3>3, <1>4
  <2> QED BY <2>1, <2>2, <1>1, <1>3 DEF LiveInv
<1>9. TakenInv'
  <2> SUFFICES ASSUME NEW e \in Doc, doc[e].scan # NoScan
               PROVE  \/ open'[doc[e].scan] = e
                      \/ doc[e].scan \in Range(finalized') \cup evicted'
    BY <1>1 DEF TakenInv
  <2>1. doc[e].scan \in Scan
    BY DEF SinkTypeOK, DocState
  <2> QED BY <2>1, <1>1, <1>2, <1>4 DEF TakenInv
<1>10. RowsInv' /\ CallInv' /\ SingleInv'
  BY <1>1, <1>2 DEF RowsInv, CallInv, SingleInv
<1>11. AckedAccounted'
  <2> SUFFICES ASSUME NEW g \in acked
               PROVE \/ g \in report[ScanOf[g]]
                     \/ \E e \in Live' : /\ g \in Range(doc[e].rows)
                                         /\ e \in pending' \/ open'[ScanOf[g]] = e
                     \/ g \in lost
                     \/ ScanOf[g] \in evicted'
    BY <1>1 DEF AckedAccounted
  <2>1. Live' = Live
    BY <1>1 DEF Live
  <2>2. ASSUME NEW e \in Live, e \in pending \/ open[ScanOf[g]] = e
        PROVE  e \in pending' \/ open'[ScanOf[g]] = e
    <3>1. ScanOf[g] \in Scan
      BY DEF SinkTypeOK
    <3> QED BY <2>2, <3>1, <1>1, <1>4 DEF d
  <2> QED BY <2>1, <2>2, <1>2 DEF AckedAccounted
<1> QED BY <1>6, <1>7, <1>8, <1>9, <1>10, <1>11

LEMMA PublishKeeps ==
  ASSUME SinkInv, NEW d \in Doc, Publish(d)
  PROVE  /\ SinkInv'
         /\ \A s \in Scan : s \notin evicted => report[s] \subseteq report'[s]
<1> DEFINE s == doc[d].scan
<1> USE SinkAssumption DEF SinkInv
<1>1. /\ d \in pending /\ pending' = pending \ {d}
      /\ doc' = [doc EXCEPT ![d].closed = TRUE]
      /\ UNCHANGED <<closed, open, finalized, call, acked, evicted>>
  BY DEF Publish
<1>2. /\ d \in Live /\ s \in Scan
      /\ open[s] # d
      /\ report[s] # {} => s \in evicted
  <2>1. d \in Live /\ s \in Scan /\ ~doc[d].closed
    BY <1>1 DEF LiveInv, Live, SinkTypeOK, DocState
  <2>2. open[s] # d
    BY <1>1, <2>1 DEF OpenInv
  <2>3. ASSUME report[s] # {} PROVE s \in evicted
    <3>1. PICK e \in Doc : doc[e].scan = s /\ doc[e].closed
      BY <2>1, <2>3 DEF SingleInv
    <3> QED BY <3>1, <2>1 DEF SingleInv
  <2> QED BY <2>1, <2>2, <2>3
<1>3. \/ /\ report' = [report EXCEPT ![s] = Range(doc[d].rows)]
         /\ lost' = lost
      \/ /\ lost' = lost \cup Range(doc[d].rows)
         /\ report' = report
  BY DEF Publish
<1>4. /\ doc'[d] = [doc[d] EXCEPT !.closed = TRUE]
      /\ \A e \in Doc \ {d} : doc'[e] = doc[e]
      /\ doc[d] \in DocState
  BY <1>1 DEF SinkTypeOK
<1>5. /\ doc'[d] \in DocState
      /\ \A e \in Doc : doc'[e].scan = doc[e].scan /\ doc'[e].rows = doc[e].rows
  BY <1>4 DEF DocState
<1>6. doc'[d].closed = TRUE
  BY <1>4, Zenon DEF DocState
<1>7. Live' = Live \ {d}
  BY <1>4, <1>5, <1>6 DEF Live
<1>8. Range(doc[d].rows) \subseteq Finding
  BY <1>4 DEF DocState, Range
<1> HIDE DEF s
<1>9. SinkTypeOK'
  <2>1. doc' \in [Doc -> DocState]
    BY <1>1, <1>4, <1>5 DEF SinkTypeOK
  <2>2. report' \in [Scan -> SUBSET Finding] /\ lost' \subseteq Finding
    BY <1>2, <1>3, <1>8 DEF SinkTypeOK
  <2> QED BY <2>1, <2>2, <1>1, <1>5 DEF SinkTypeOK
<1>10. OpenInv'
  <2> SUFFICES ASSUME NEW t \in Scan, open[t] # NoDoc
               PROVE  /\ ~closed /\ doc'[open[t]].scan = t
                      /\ ~doc'[open[t]].closed
                      /\ open[t] \notin pending' /\ t \notin Range(finalized)
    BY <1>1 DEF OpenInv
  <2>1. open[t] \in Doc \ {d}
    BY <1>1 DEF SinkTypeOK, OpenInv
  <2> QED BY <2>1, <1>1, <1>4 DEF OpenInv
<1>11. LiveInv'
  BY <1>1, <1>5, <1>7 DEF LiveInv, Live
<1>12. TakenInv' /\ RowsInv'
  <2>1. TakenInv'
    BY <1>1, <1>5 DEF TakenInv
  <2>2. \A e \in Doc : doc'[e].scan = NoScan => doc'[e] = doc[e]
    BY <1>2, <1>4, <1>5 DEF s
  <2>3. RowsInv'
    BY <2>2, <1>5 DEF RowsInv
  <2> QED BY <2>1, <2>3
<1>13. CallInv'
  BY <1>1, <1>5 DEF CallInv
<1>14. SingleInv'
  <2>1. \A a, b \in Doc : doc'[a].scan = doc'[b].scan =>
          a = b \/ doc'[a].scan \in evicted' \cup {NoScan}
    BY <1>1, <1>5 DEF SingleInv
  <2>2. ASSUME NEW t \in Scan, report'[t] # {}
        PROVE  \E e \in Doc : doc'[e].scan = t /\ doc'[e].closed
    <3>1. CASE t = s
      BY <3>1, <1>5, <1>6 DEF s
    <3>2. CASE t # s
      <4>1. report[t] # {}
        BY <2>2, <3>2, <1>3 DEF SinkTypeOK
      <4>2. PICK e \in Doc : doc[e].scan = t /\ doc[e].closed
        BY <4>1 DEF SingleInv
      <4>3. e # d
        BY <4>2, <3>2 DEF s
      <4> QED BY <4>2, <4>3, <1>4
    <3> QED BY <3>1, <3>2
  <2> QED BY <2>1, <2>2 DEF SingleInv
<1>15. \A t \in Scan : t \notin evicted => report[t] \subseteq report'[t]
  BY <1>2, <1>3 DEF SinkTypeOK
<1>16. AckedAccounted'
  <2> SUFFICES ASSUME NEW g \in acked, ScanOf[g] \notin evicted
               PROVE \/ g \in report'[ScanOf[g]]
                     \/ \E e \in Live' : /\ g \in Range(doc'[e].rows)
                                         /\ e \in pending' \/ open[ScanOf[g]] = e
                     \/ g \in lost'
    BY <1>1 DEF AckedAccounted
  <2>1. ScanOf[g] \in Scan
    BY DEF SinkTypeOK
  <2>2. CASE g \in report[ScanOf[g]]
    BY <2>1, <2>2, <1>15
  <2>3. CASE g \in lost
    BY <2>3, <1>3
  <2>4. CASE g \in Range(doc[d].rows)
    <3>1. ScanOf[g] = s
      BY <2>4 DEF RowsInv, s
    <3> QED BY <2>4, <3>1, <1>2, <1>3 DEF SinkTypeOK
  <2>5. ASSUME NEW e \in Live, e # d, g \in Range(doc[e].rows),
               e \in pending \/ open[ScanOf[g]] = e
        PROVE  \E x \in Live' : /\ g \in Range(doc'[x].rows)
                                /\ x \in pending' \/ open[ScanOf[g]] = x
    <3>1. e \in Live' /\ g \in Range(doc'[e].rows)
      BY <2>5, <1>5, <1>7 DEF Live
    <3> QED BY <2>5, <3>1, <1>1
  <2> QED BY <2>2, <2>3, <2>4, <2>5 DEF AckedAccounted
<1> QED BY <1>9, <1>10, <1>11, <1>12, <1>13, <1>14, <1>15, <1>16

LEMMA CloseKeeps ==
  ASSUME SinkInv, CloseSink
  PROVE  SinkInv'
<1> USE SinkAssumption DEF SinkInv
<1>1. /\ ~closed /\ closed' = TRUE
      /\ open' = [s \in Scan |-> NoDoc]
      /\ pending' = pending \cup (Range(open) \ {NoDoc})
      /\ UNCHANGED <<finalized, doc, call, report, acked, lost, evicted>>
  BY DEF CloseSink, sinkHist
<1>2. Range(open) \ {NoDoc} \subseteq Live
  BY DEF SinkTypeOK, OpenInv, Live, Range
<1>3. \A s \in Scan : open[s] # NoDoc => open[s] \in pending'
  BY <1>1 DEF SinkTypeOK, Range
<1>4. Live' = Live /\ Live \subseteq Doc
  BY <1>1 DEF Live
<1>5. SinkTypeOK'
  BY <1>1, <1>2, <1>4 DEF SinkTypeOK
<1>6. OpenInv' /\ TakenInv'
  BY <1>1 DEF OpenInv, TakenInv
<1>7. LiveInv'
  <2>1. ASSUME NEW e \in Live PROVE e \in pending'
    <3>1. doc[e].scan \in Scan /\ e # NoDoc
      BY DEF Live, SinkTypeOK, DocState
    <3> QED BY <3>1, <1>1, <1>3 DEF LiveInv
  <2> QED BY <2>1, <1>1, <1>2, <1>4 DEF LiveInv
<1>8. RowsInv' /\ CallInv' /\ SingleInv'
  BY <1>1 DEF RowsInv, CallInv, SingleInv
<1>9. AckedAccounted'
  <2>1. ASSUME NEW g \in acked, NEW e \in Live, open[ScanOf[g]] = e
        PROVE  e \in pending'
    BY <2>1, <1>3, <1>4 DEF SinkTypeOK
  <2> QED BY <2>1, <1>1, <1>4 DEF AckedAccounted
<1> QED BY <1>5, <1>6, <1>7, <1>8, <1>9

-----------------------------------------------------------------------------
(* Types across crashes: what SinkInv says of a sink that never crashes is *)
(* gone after one, its types are not.                                      *)

\* A Write between its sections holds a finding and a document.
CallTyped ==
  \A w \in Worker : call[w] # Idle => call[w].f \in Finding /\ call[w].d \in Doc

SinkTypeInv == SinkTypeOK /\ CallTyped

LEMMA TypeInvInit == SinkInit => SinkTypeInv
BY SinkInvInit DEF SinkInv, SinkTypeInv, CallTyped, CallInv

LEMMA EnterTypes ==
  ASSUME SinkTypeInv, NEW w \in Worker, NEW f \in Finding, WriteJoin(w, f) \/ WriteOpen(w, f)
  PROVE  SinkTypeInv'
<1> USE SinkAssumption DEF SinkTypeInv
<1>1. PICK d \in Doc : call' = [call EXCEPT ![w] = [f |-> f, d |-> d]]
  <2>1. CASE WriteJoin(w, f)
    BY <2>1 DEF WriteJoin, SinkTypeOK
  <2>2. CASE WriteOpen(w, f)
    BY <2>2 DEF WriteOpen, Fresh
  <2> QED BY <2>1, <2>2
<1>2. CallTyped'
  BY <1>1 DEF CallTyped, SinkTypeOK, CallState
<1>3. call' \in [Worker -> CallState]
  BY <1>1 DEF SinkTypeOK, CallState
<1>4. CASE WriteJoin(w, f)
  BY <1>2, <1>3, <1>4 DEF WriteJoin, SinkTypeOK, sinkHist
<1>5. CASE WriteOpen(w, f)
  <2>1. /\ Fresh \in Doc /\ ScanOf[f] \in Scan
        /\ doc' = [doc EXCEPT ![Fresh].scan = ScanOf[f]]
        /\ open' = [open EXCEPT ![ScanOf[f]] = Fresh]
    BY <1>5 DEF WriteOpen, Fresh
  <2>2. doc' \in [Doc -> DocState] /\ \A e \in Doc : doc'[e].rows = doc[e].rows
    BY <2>1 DEF SinkTypeOK, DocState
  <2>3. open' \in [Scan -> Doc \cup {NoDoc}]
    BY <2>1 DEF SinkTypeOK
  <2> QED BY <1>2, <1>3, <1>5, <2>2, <2>3 DEF WriteOpen, SinkTypeOK, sinkHist
<1> QED BY <1>4, <1>5

LEMMA RowTypes ==
  ASSUME SinkTypeInv, NEW w \in Worker, RowFails(w) \/ RowAppended(w)
  PROVE  SinkTypeInv'
<1> USE SinkAssumption DEF SinkTypeInv
<1>1. call' = [call EXCEPT ![w] = Idle] /\ Idle \in CallState
  BY DEF RowFails, RowAppended, Idle, CallState
<1>2. CallTyped' /\ call' \in [Worker -> CallState]
  BY <1>1 DEF CallTyped, SinkTypeOK
<1>3. CASE RowFails(w)
  BY <1>2, <1>3 DEF RowFails, SinkTypeOK, sinkHist
<1>4. CASE RowAppended(w)
  <2>1. /\ call[w].d \in Doc /\ call[w].f \in Finding
        /\ Len(doc[call[w].d].rows) < MaxPerScan
        /\ doc' = [doc EXCEPT ![call[w].d].rows = Append(@, call[w].f)]
    BY <1>4 DEF RowAppended, CallTyped
  <2>2. doc[call[w].d].rows \in Seq(Finding)
    BY <2>1 DEF SinkTypeOK, DocState
  <2>3. /\ Append(doc[call[w].d].rows, call[w].f) \in Seq(Finding)
        /\ Len(Append(doc[call[w].d].rows, call[w].f)) = Len(doc[call[w].d].rows) + 1
    BY <2>1, <2>2
  <2>4. /\ doc' \in [Doc -> DocState]
        /\ \A d \in Doc : \/ doc'[d].rows = doc[d].rows
                          \/ d = call[w].d /\ doc'[d].rows = Append(doc[d].rows, call[w].f)
    <3> DEFINE e == call[w].d
               longer == Append(doc[e].rows, call[w].f)
    <3>1. e \in Doc /\ doc \in [Doc -> DocState] /\ doc' = [doc EXCEPT ![e].rows = longer]
      BY <2>1 DEF SinkTypeOK
    <3>2. longer \in Seq(Finding)
      BY <2>3
    <3> HIDE DEF e, longer
    <3>3. [doc[e] EXCEPT !.rows = longer] \in DocState
      BY <3>1, <3>2 DEF DocState
    <3>4. doc' = [doc EXCEPT ![e] = [doc[e] EXCEPT !.rows = longer]]
      BY <3>1
    <3>5. doc' \in [Doc -> DocState]
      BY <3>1, <3>3, <3>4
    <3>6. \A d \in Doc : doc'[d] = IF d = e THEN [doc[e] EXCEPT !.rows = longer] ELSE doc[d]
      BY <3>1, <3>4
    <3>7. [doc[e] EXCEPT !.rows = longer].rows = longer
      BY <3>1 DEF DocState
    <3>8. \A d \in Doc : doc'[d].rows = doc[d].rows \/ (d = e /\ doc'[d].rows = longer)
      BY <3>6, <3>7
    <3> QED BY <3>5, <3>8 DEF e, longer
  <2>5. \A d \in Doc : Len(doc'[d].rows) <= MaxPerScan
    BY <2>1, <2>2, <2>3, <2>4 DEF SinkTypeOK
  <2> QED BY <1>2, <1>4, <2>1, <2>4, <2>5 DEF RowAppended, SinkTypeOK
<1> QED BY <1>3, <1>4

LEMMA FinishTypes ==
  ASSUME SinkTypeInv,
         \/ \E s \in Scan : Take(s)
         \/ \E d \in Doc : Publish(d)
         \/ CloseSink
  PROVE  SinkTypeInv'
<1> USE SinkAssumption DEF SinkTypeInv
<1>1. CallTyped'
  BY DEF CallTyped, Take, Publish, CloseSink
<1>2. ASSUME NEW s \in Scan, Take(s) PROVE SinkTypeOK'
  <2>1. MarkFinalized(s) /\ open[s] \in Doc
    BY <1>2 DEF Take, SinkTypeOK
  <2>2. /\ finalized' \in Seq(Scan) /\ Len(finalized') <= FinalizedCap
        /\ evicted' \subseteq Scan
    BY <2>1, MarkFinalizedFacts
  <2>3. open' \in [Scan -> Doc \cup {NoDoc}] /\ pending' \subseteq Doc
    BY <1>2, <2>1 DEF Take, SinkTypeOK
  <2> QED BY <1>2, <2>2, <2>3 DEF Take, SinkTypeOK
<1>3. ASSUME NEW d \in Doc, Publish(d) PROVE SinkTypeOK'
  <2>1. Range(doc[d].rows) \subseteq Finding
    BY DEF SinkTypeOK, DocState, Range
  <2>2. /\ doc' \in [Doc -> DocState] /\ \A e \in Doc : doc'[e].rows = doc[e].rows
    BY <1>3, ZenonT(40) DEF Publish, SinkTypeOK, DocState
  <2>3. report' \in [Scan -> SUBSET Finding] /\ lost' \subseteq Finding
    BY <1>3, <2>1 DEF Publish, SinkTypeOK
  <2> QED BY <1>3, <2>2, <2>3 DEF Publish, SinkTypeOK
<1>4. ASSUME CloseSink PROVE SinkTypeOK'
  <2>1. Range(open) \subseteq Doc \cup {NoDoc}
    BY DEF SinkTypeOK, Range
  <2> QED BY <1>4, <2>1 DEF CloseSink, SinkTypeOK, sinkHist
<1> QED BY <1>1, <1>2, <1>3, <1>4

LEMMA CrashTypes ==
  ASSUME SinkTypeInv, Crash
  PROVE  SinkTypeInv'
<1> USE SinkAssumption DEF SinkTypeInv
<1>1. Idle \in CallState /\ Unopened \in DocState
  BY DEF Idle, CallState, Unopened, DocState
<1>2. CallTyped' /\ call' \in [Worker -> CallState]
  BY <1>1 DEF Crash, CallTyped
<1>3. doc' = [d \in Doc |-> IF doc[d] = Unopened THEN Unopened
                            ELSE [doc[d] EXCEPT !.closed = TRUE]]
  BY DEF Crash
<1>4. doc' \in [Doc -> DocState] /\ \A d \in Doc : doc'[d].rows = doc[d].rows
  BY <1>1, <1>3 DEF SinkTypeOK, DocState
<1>5. lost' \subseteq Finding
  <2>1. \A d \in Doc : Range(doc[d].rows) \subseteq Finding
    BY DEF SinkTypeOK, DocState, Range
  <2> QED BY <2>1 DEF Crash, SinkTypeOK
<1>6. finalized' \in Seq(Scan) /\ Len(finalized') <= FinalizedCap
  <2>1. finalized' = <<>>
    BY DEF Crash
  <2> QED BY <2>1
<1>7. \A d \in Doc : Len(doc'[d].rows) <= MaxPerScan
  BY <1>4 DEF SinkTypeOK
<1>8. closed' \in BOOLEAN
  BY Zenon DEF Crash
<1>9. /\ open' \in [Scan -> Doc \cup {NoDoc}] /\ pending' \subseteq Doc
      /\ UNCHANGED <<report, acked, evicted>>
  BY DEF Crash
<1> QED BY <1>2, <1>4, <1>5, <1>6, <1>7, <1>8, <1>9 DEF SinkTypeOK

LEMMA TypeInvNext == SinkTypeInv /\ [SinkNext \/ Crash]_sinkVars => SinkTypeInv'
<1> SUFFICES ASSUME SinkTypeInv, [SinkNext \/ Crash]_sinkVars PROVE SinkTypeInv'
  OBVIOUS
<1>1. CASE UNCHANGED sinkVars
  BY <1>1 DEF sinkVars, SinkTypeInv, SinkTypeOK, CallTyped
<1> QED BY <1>1, EnterTypes, RowTypes, FinishTypes, CrashTypes DEF SinkNext, Finalize, SweepIdle

-----------------------------------------------------------------------------
(* The theorems.                                                           *)

LEMMA SinkInvNext == SinkInv /\ [SinkNext]_sinkVars => SinkInv'
<1> SUFFICES ASSUME SinkInv, [SinkNext]_sinkVars PROVE SinkInv'
  OBVIOUS
<1>1. ASSUME NEW w \in Worker, NEW f \in Finding, WriteJoin(w, f) PROVE SinkInv'
  BY <1>1, JoinKeeps
<1>2. ASSUME NEW w \in Worker, NEW f \in Finding, WriteOpen(w, f) PROVE SinkInv'
  BY <1>2, OpenKeeps
<1>3. ASSUME NEW w \in Worker, RowFails(w) PROVE SinkInv'
  BY <1>3, RowFailsKeeps
<1>4. ASSUME NEW w \in Worker, RowAppended(w) PROVE SinkInv'
  BY <1>4, RowAppendedKeeps
<1>5. ASSUME NEW s \in Scan, Finalize(s) PROVE SinkInv'
  BY <1>5, TakeKeeps DEF Finalize
<1>6. ASSUME NEW s \in Scan, SweepIdle(s) PROVE SinkInv'
  BY <1>6, TakeKeeps DEF SweepIdle
<1>7. ASSUME NEW d \in Doc, Publish(d) PROVE SinkInv'
  BY <1>7, PublishKeeps
<1>8. CASE CloseSink
  BY <1>8, CloseKeeps
<1>9. CASE UNCHANGED sinkVars
  BY <1>9 DEF sinkVars, SinkInv, SinkTypeOK, OpenInv, LiveInv, TakenInv, RowsInv,
              CallInv, SingleInv, AckedAccounted, Live
<1> QED BY <1>1, <1>2, <1>3, <1>4, <1>5, <1>6, <1>7, <1>8, <1>9 DEF SinkNext

\* The strengthened invariant holds in every reachable state of a sink whose process
\* does not crash, however Write, Finalize, the sweeper and Close interleave.
THEOREM SinkInvariant == SinkSpec => []SinkInv
BY SinkInvInit, SinkInvNext, PTL DEF SinkSpec

\* Type correctness; the row cap and the FIFO cap of parquet.go are never exceeded.
THEOREM SinkTypeCorrect == SinkSpec => []SinkTypeOK
<1>1. SinkInv => SinkTypeOK
  BY DEF SinkInv
<1> QED BY <1>1, SinkInvariant, PTL

\* The types and both caps survive crashes of the process, at any step of any Write.
THEOREM SinkCrashTypeCorrect == SinkCrashSpec => []SinkTypeOK
<1>1. SinkTypeInv => SinkTypeOK
  BY DEF SinkTypeInv
<1> QED BY <1>1, TypeInvInit, TypeInvNext, PTL DEF SinkCrashSpec

\* A finding whose Write returned nil is in its report or in a document still to be
\* published: the second look at closed in Write, and the finalized FIFO, suffice.
THEOREM SinkAcked == SinkSpec => []AckedAccounted
<1>1. SinkInv => AckedAccounted
  BY DEF SinkInv
<1> QED BY <1>1, SinkInvariant, PTL

\* No two documents of a scan the FIFO remembers race onto the same report.
THEOREM SinkOneDocument == SinkSpec => []OneDocumentPerScan
<1>1. SinkInv => OneDocumentPerScan
  BY DEF SinkInv, SingleInv, OneDocumentPerScan, Live
<1> QED BY <1>1, SinkInvariant, PTL

\* A published report is never overwritten by a smaller one while the FIFO
\* remembers its scan.
THEOREM SinkReportKept == SinkSpec => ReportKept
<1>1. ASSUME SinkInv, [SinkNext]_sinkVars
      PROVE  [\A s \in Scan : s \notin evicted => report[s] \subseteq report'[s]]_sinkVars
  <2>1. ASSUME NEW d \in Doc, Publish(d)
        PROVE  \A s \in Scan : s \notin evicted => report[s] \subseteq report'[s]
    BY <1>1, <2>1, PublishKeeps, SMTT(30)
  <2>2. CASE \A d \in Doc : ~Publish(d)
    BY <1>1, <2>2 DEF SinkNext, WriteJoin, WriteOpen, RowFails, RowAppended,
                      Finalize, SweepIdle, Take, CloseSink, sinkVars
  <2> QED BY <1>1, <2>1, <2>2
<1> QED BY <1>1, SinkInvariant, PTL DEF SinkSpec, ReportKept

-----------------------------------------------------------------------------
(* The writer service.                                                     *)

InNDJSON(f) == Wants(f, "ndjson") => f \in ndjson

WriterTypes ==
  /\ state \in [Finding -> Queue!MsgState]
  /\ batch \in [Worker -> Seq(Finding)]
  /\ hand \in [Worker -> {"ndjson", "report"}]
  /\ call \in [Worker -> CallState]
  /\ open \in [Scan -> Doc \cup {NoDoc}]
  /\ doc \in [Doc -> DocState]
  /\ report \in [Scan -> SUBSET Finding]

\* A worker at the report sink has a finding in hand that NDJSON took, and one inside
\* the report sink's Write is there with that finding.
ProgressInv ==
  \A w \in Worker :
    /\ hand[w] = "report" => Queue!Busy(w) /\ InNDJSON(Queue!InHand(w))
    /\ call[w] # Idle => hand[w] = "report" /\ call[w].f = Queue!InHand(w)

WriterInv == WriterTypes /\ ProgressInv /\ AckedInNDJSON /\ ReportWithinNDJSON

-----------------------------------------------------------------------------
(* The queue, as far as NDJSON depends on it.                              *)

\* What is in hand is a finding.
LEMMA InHandIsFinding ==
  ASSUME WriterTypes, NEW w \in Worker, Queue!Busy(w)
  PROVE  Queue!InHand(w) \in Finding
<1>1. batch[w] \in Seq(Finding) /\ batch[w] # <<>>
  BY DEF WriterTypes, Queue!Busy
<1> QED BY <1>1, HeadTailProperties DEF Queue!InHand

\* The handler's end, whatever it tells the server: the worker starts its next finding
\* with NDJSON, and only an Ack acknowledges the one it had.
LEMMA HandlerEnds ==
  ASSUME WriterTypes, NEW w \in Worker, Done(w) \/ Fail(w)
  PROVE  /\ state' \in [Finding -> Queue!MsgState]
         /\ batch' \in [Worker -> Seq(Finding)]
         /\ hand' = [hand EXCEPT ![w] = "ndjson"]
         /\ \A v \in Worker \ {w} : batch'[v] = batch[v]
         /\ \A f \in Finding : state'[f] = "acked" =>
              state[f] = "acked" \/ (Done(w) /\ f = Queue!InHand(w))
<1>1. Queue!Busy(w) /\ batch' = [batch EXCEPT ![w] = Tail(@)]
  BY DEF Done, Fail, Queue!Ack, Queue!Nak, Queue!Unanswered, Queue!Settle
<1>2. Queue!InHand(w) \in Finding /\ Tail(batch[w]) \in Seq(Finding)
  BY <1>1, InHandIsFinding, HeadTailProperties DEF WriterTypes, Queue!Busy
<1>3. batch' \in [Worker -> Seq(Finding)] /\ \A v \in Worker \ {w} : batch'[v] = batch[v]
  BY <1>1, <1>2 DEF WriterTypes
<1>4. CASE Queue!Ack(w) /\ Done(w)
  BY <1>2, <1>3, <1>4 DEF Done, Queue!Ack, Queue!MsgState, WriterTypes
<1>5. CASE Queue!Nak(w) \/ Queue!Unanswered(w)
  BY <1>2, <1>3, <1>5
     DEF Done, Fail, Queue!Nak, Queue!Unanswered, Queue!AfterFailure, Queue!MsgState, WriterTypes
<1> QED BY <1>4, <1>5 DEF Done, Fail

-----------------------------------------------------------------------------
(* Kinds of steps.                                                         *)

\* What the report sink does to its documents and reports: a row that is new is one
\* of F, and a report that changes becomes a document's.
RowsFrom(F) ==
  /\ open' \in [Scan -> Doc \cup {NoDoc}]
  /\ doc' \in [Doc -> DocState] /\ report' \in [Scan -> SUBSET Finding]
  /\ \A d \in Doc : Range(doc'[d].rows) \subseteq Range(doc[d].rows) \cup F
  /\ \A s \in Scan : \/ report'[s] = report[s]
                     \/ \E d \in Doc : report'[s] = Range(doc[d].rows)

\* Reports and documents stay within NDJSON if what is added to them is there.
LEMMA RowsKeep ==
  ASSUME WriterTypes, ReportWithinNDJSON, ndjson \subseteq ndjson',
         NEW F, RowsFrom(F), \A f \in F : InNDJSON(f)
  PROVE  ReportWithinNDJSON'
<1>1. ASSUME NEW d \in Doc, NEW f \in Range(doc[d].rows), NEW s \in Scan PROVE InNDJSON(f)
  BY <1>1 DEF ReportWithinNDJSON, InNDJSON
<1>2. ASSUME NEW s \in Scan, NEW f \in report[s] PROVE InNDJSON(f)
  BY <1>2 DEF ReportWithinNDJSON, InNDJSON
<1>3. ASSUME NEW s \in Scan, NEW f \in report'[s] \cup UNION {Range(doc'[d].rows) : d \in Doc}
      PROVE  InNDJSON(f)
  <2>1. CASE f \in report'[s]
    BY <1>1, <1>2, <2>1 DEF RowsFrom
  <2>2. CASE f \in UNION {Range(doc'[d].rows) : d \in Doc}
    <3>1. PICK d \in Doc : f \in Range(doc'[d].rows)
      BY <2>2
    <3> QED BY <1>1, <3>1 DEF RowsFrom
  <2> QED BY <1>3, <2>1, <2>2
<1> QED BY <1>3 DEF ReportWithinNDJSON, InNDJSON, Wants

\* The report sink is left alone.
LEMMA NoRows ==
  ASSUME WriterTypes, UNCHANGED <<doc, report>>, open' \in [Scan -> Doc \cup {NoDoc}]
  PROVE  RowsFrom({})
BY DEF WriterTypes, RowsFrom

\* The handler of a worker's finding is over.
LEMMA OverKeeps ==
  ASSUME WriterInv, NEW w \in Worker, Done(w) \/ Fail(w),
         \/ call' = [call EXCEPT ![w] = Idle]
         \/ UNCHANGED call /\ call[w] = Idle,
         ndjson \subseteq ndjson',
         NEW F, RowsFrom(F), \A f \in F : InNDJSON(f),
         \/ \A f \in Finding : state'[f] = "acked" => state[f] = "acked"
         \/ Wants(Queue!InHand(w), "ndjson") => Queue!InHand(w) \in ndjson'
  PROVE  WriterInv'
<1>1. /\ state' \in [Finding -> Queue!MsgState] /\ batch' \in [Worker -> Seq(Finding)]
      /\ hand' = [hand EXCEPT ![w] = "ndjson"]
      /\ \A v \in Worker \ {w} : batch'[v] = batch[v]
      /\ \A f \in Finding : state'[f] = "acked" =>
           state[f] = "acked" \/ (Done(w) /\ f = Queue!InHand(w))
  BY HandlerEnds DEF WriterInv
<1>2. Idle \in CallState
  BY DEF Idle, CallState
<1>3. WriterTypes'
  BY <1>1, <1>2 DEF WriterInv, WriterTypes, RowsFrom
<1>4. /\ hand'[w] = "ndjson" /\ call'[w] = Idle
      /\ \A v \in Worker \ {w} : hand'[v] = hand[v] /\ call'[v] = call[v]
  BY <1>1 DEF WriterInv, WriterTypes
<1>5. ProgressInv'
  BY <1>1, <1>4 DEF WriterInv, ProgressInv, InNDJSON, Wants, Queue!Busy, Queue!InHand
<1>6. AckedInNDJSON'
  BY <1>1 DEF WriterInv, AckedInNDJSON, Wants
<1>7. ReportWithinNDJSON'
  BY RowsKeep DEF WriterInv
<1> QED BY <1>3, <1>5, <1>6, <1>7 DEF WriterInv

\* No worker moves.
LEMMA AsideKeeps ==
  ASSUME WriterInv, UNCHANGED <<batch, hand, call, ndjson>>, RowsFrom({}),
         state' \in [Finding -> Queue!MsgState],
         \A f \in Finding : state'[f] = "acked" => state[f] = "acked"
  PROVE  WriterInv'
<1>1. WriterTypes'
  BY DEF WriterInv, WriterTypes, RowsFrom
<1>2. ProgressInv'
  BY DEF WriterInv, ProgressInv, InNDJSON, Wants, Queue!Busy, Queue!InHand
<1>3. AckedInNDJSON'
  BY DEF WriterInv, AckedInNDJSON, Wants
<1>4. ReportWithinNDJSON'
  BY RowsKeep DEF WriterInv
<1> QED BY <1>1, <1>2, <1>3, <1>4 DEF WriterInv

-----------------------------------------------------------------------------
(* The steps.                                                              *)

LEMMA InitInv == WriterInit => WriterInv
<1> SUFFICES ASSUME WriterInit PROVE WriterInv
  OBVIOUS
<1>1. WriterTypes
  BY EmptySeq DEF WriterInit, SinkInit, Queue!QueueInit, WriterTypes, Queue!MsgState,
                  CallState, Idle, DocState, Unopened
<1>2. ProgressInv /\ AckedInNDJSON
  BY DEF WriterInit, SinkInit, Queue!QueueInit, ProgressInv, AckedInNDJSON
<1>3. \A d \in Doc : Range(doc[d].rows) = {}
  <2>1. Range(<<>>) = {}
    BY DEF Range
  <2> QED BY <2>1, UnopenedFields DEF WriterInit, SinkInit
<1>4. ReportWithinNDJSON
  BY <1>3 DEF WriterInit, SinkInit, ReportWithinNDJSON
<1> QED BY <1>1, <1>2, <1>4 DEF WriterInv

\* A worker that has nothing in hand is delivered a batch.
LEMMA FetchBatchKeeps ==
  ASSUME WriterInv, NEW w \in Worker, FetchBatch(w)
  PROVE  WriterInv'
<1>1. /\ ~Queue!Busy(w)
      /\ UNCHANGED <<open, doc, report, call, hand, ndjson>>
  BY DEF FetchBatch, Queue!Fetch, sinkVars
<1>2. PICK n \in 1 .. BatchSize :
         /\ n <= Queue!Room
         /\ \E msgs \in Queue!Injection(1 .. n, Queue!Ready) : Queue!Deliver(w, msgs)
  BY DEF FetchBatch, Queue!Fetch
<1>3. PICK msgs \in Queue!Injection(1 .. n, Queue!Ready) : Queue!Deliver(w, msgs)
  BY <1>2
<1>4. msgs \in Seq(Finding)
  BY <1>3 DEF Queue!Injection, Queue!Ready
<1>5. /\ batch' \in [Worker -> Seq(Finding)]
      /\ \A v \in Worker \ {w} : batch'[v] = batch[v]
  BY <1>3, <1>4, ConcatProperties DEF Queue!Deliver, WriterInv, WriterTypes
<1>6. /\ state' \in [Finding -> Queue!MsgState]
      /\ \A f \in Finding : state'[f] = "acked" => state[f] = "acked"
  BY <1>3 DEF Queue!Deliver, Queue!MsgState, WriterInv, WriterTypes
<1>7. hand[w] = "ndjson" /\ call[w] = Idle
  BY <1>1 DEF WriterInv, WriterTypes, ProgressInv
<1>8. WriterTypes'
  BY <1>1, <1>5, <1>6 DEF WriterInv, WriterTypes
<1>9. ProgressInv'
  BY <1>1, <1>5, <1>7 DEF WriterInv, ProgressInv, InNDJSON, Wants, Queue!Busy, Queue!InHand
<1>10. AckedInNDJSON'
  BY <1>1, <1>6 DEF WriterInv, AckedInNDJSON, Wants
<1>11. ReportWithinNDJSON'
  BY <1>1, NoRows, RowsKeep DEF WriterInv, WriterTypes
<1> QED BY <1>8, <1>9, <1>10, <1>11 DEF WriterInv

\* NDJSON is done with the finding in hand: the report sink is next, or the handler
\* is over.
LEMMA NDJSONKeeps ==
  ASSUME WriterInv, NEW w \in Worker, AtSink(w, "ndjson"), AfterNDJSON(w),
         UNCHANGED sinkVars, ndjson \subseteq ndjson',
         Wants(Queue!InHand(w), "ndjson") => Queue!InHand(w) \in ndjson'
  PROVE  WriterInv'
<1>1. Queue!Busy(w) /\ hand[w] = "ndjson" /\ call[w] = Idle
  BY DEF AtSink
<1>2. UNCHANGED <<call, open, doc, report>> /\ RowsFrom({})
  BY NoRows DEF sinkVars, WriterInv, WriterTypes
<1>3. CASE Done(w)
  BY <1>1, <1>2, <1>3, OverKeeps
<1>4. CASE hand' = [hand EXCEPT ![w] = "report"] /\ UNCHANGED queueVars
  <2>1. UNCHANGED <<state, batch>>
    BY <1>4 DEF queueVars
  <2>2. WriterTypes'
    BY <1>2, <1>4, <2>1 DEF WriterInv, WriterTypes
  <2>3. \A v \in Worker \ {w} : hand'[v] = hand[v]
    BY <1>4 DEF WriterInv, WriterTypes
  <2>4. ProgressInv'
    BY <1>1, <1>2, <2>1, <2>3
       DEF WriterInv, ProgressInv, InNDJSON, Wants, Queue!Busy, Queue!InHand
  <2>5. AckedInNDJSON'
    BY <2>1 DEF WriterInv, AckedInNDJSON, Wants
  <2>6. ReportWithinNDJSON'
    BY <1>2, RowsKeep DEF WriterInv
  <2> QED BY <2>2, <2>4, <2>5, <2>6 DEF WriterInv
<1> QED BY <1>3, <1>4 DEF AfterNDJSON

\* The report sink's Write finds or opens its document.
LEMMA EnterKeeps ==
  ASSUME WriterInv, NEW w \in Worker, EnterReport(w)
  PROVE  WriterInv'
<1> DEFINE f == Queue!InHand(w)
<1>1. /\ Queue!Busy(w) /\ hand[w] = "report"
      /\ UNCHANGED <<state, batch, hand, ndjson, report>>
  BY DEF EnterReport, AtSink, queueVars, WriteJoin, WriteOpen
<1>2. f \in Finding /\ ScanOf[f] \in Scan
  BY <1>1, InHandIsFinding, SinkAssumption DEF WriterInv
<1>3. PICK d \in Doc \cup {NoDoc} : call' = [call EXCEPT ![w] = [f |-> f, d |-> d]]
  <2>1. CASE WriteJoin(w, f)
    BY <1>2, <2>1 DEF WriteJoin, WriterInv, WriterTypes
  <2>2. CASE WriteOpen(w, f)
    BY <2>2 DEF WriteOpen, Fresh
  <2> QED BY <2>1, <2>2 DEF EnterReport
<1>4. RowsFrom({})
  <2>1. CASE WriteJoin(w, f)
    BY <2>1, NoRows DEF WriteJoin, WriterInv, WriterTypes
  <2>2. CASE WriteOpen(w, f)
    <3>1. /\ Fresh \in Doc /\ doc' = [doc EXCEPT ![Fresh].scan = ScanOf[f]]
          /\ open' = [open EXCEPT ![ScanOf[f]] = Fresh]
      BY <2>2 DEF WriteOpen, Fresh
    <3>2. /\ doc' \in [Doc -> DocState]
          /\ \A e \in Doc : doc'[e].rows = doc[e].rows
      BY <1>2, <3>1 DEF WriterInv, WriterTypes, DocState
    <3>3. open' \in [Scan -> Doc \cup {NoDoc}]
      BY <3>1 DEF WriterInv, WriterTypes
    <3> QED BY <1>1, <3>2, <3>3 DEF RowsFrom, WriterInv, WriterTypes
  <2> QED BY <2>1, <2>2 DEF EnterReport
<1>5. [f |-> f, d |-> d] \in CallState /\ [f |-> f, d |-> d].f = f
  BY <1>2 DEF CallState
<1>6. WriterTypes'
  BY <1>1, <1>3, <1>4, <1>5 DEF WriterInv, WriterTypes, RowsFrom
<1>7. call'[w].f = f /\ \A v \in Worker \ {w} : call'[v] = call[v]
  BY <1>3, <1>5 DEF WriterInv, WriterTypes
<1>8. ProgressInv'
  BY <1>1, <1>7 DEF WriterInv, ProgressInv, InNDJSON, Wants, Queue!Busy, Queue!InHand
<1>9. AckedInNDJSON'
  BY <1>1 DEF WriterInv, AckedInNDJSON, Wants
<1>10. ReportWithinNDJSON'
  BY <1>1, <1>4, RowsKeep DEF WriterInv
<1> QED BY <1>6, <1>8, <1>9, <1>10 DEF WriterInv

\* The row of a worker inside Write is appended, or is not.
LEMMA RowKeeps ==
  ASSUME WriterInv, NEW w \in Worker, ReportAppends(w) \/ ReportFails(w)
  PROVE  WriterInv'
<1>1. /\ call[w] # Idle /\ hand[w] = "report" /\ Queue!Busy(w)
      /\ call[w].f = Queue!InHand(w) /\ InNDJSON(Queue!InHand(w))
  BY DEF ReportAppends, ReportFails, RowAppended, RowFails, WriterInv, ProgressInv
<1>2. call[w].f \in Finding
  BY <1>1, InHandIsFinding DEF WriterInv
<1>3. /\ Done(w) \/ Fail(w)
      /\ call' = [call EXCEPT ![w] = Idle]
      /\ UNCHANGED <<open, report, ndjson>>
  BY DEF ReportAppends, ReportFails, RowAppended, RowFails
<1>4. RowsFrom({call[w].f})
  <2>1. CASE RowFails(w)
    BY <1>3, <2>1 DEF RowFails, RowsFrom, WriterInv, WriterTypes
  <2>2. CASE RowAppended(w)
    <3>1. doc' = [doc EXCEPT ![call[w].d].rows = Append(@, call[w].f)]
      BY <2>2 DEF RowAppended
    <3>2. ASSUME NEW d \in Doc
          PROVE  /\ Append(doc[d].rows, call[w].f) \in Seq(Finding)
                 /\ Range(Append(doc[d].rows, call[w].f))
                      = Range(doc[d].rows) \cup {call[w].f}
      <4>1. doc[d].rows \in Seq(Finding)
        BY DEF WriterInv, WriterTypes, DocState
      <4> QED BY <1>2, <4>1, RangeAppend, AppendProperties
    <3>3. doc' \in [Doc -> DocState]
      BY <3>1, <3>2 DEF WriterInv, WriterTypes, DocState
    <3>4. ASSUME NEW d \in Doc
          PROVE  doc'[d].rows \in {doc[d].rows, Append(doc[d].rows, call[w].f)}
      BY <3>1 DEF WriterInv, WriterTypes, DocState
    <3> QED BY <1>3, <3>2, <3>3, <3>4 DEF RowsFrom, WriterInv, WriterTypes
  <2> QED BY <2>1, <2>2 DEF ReportAppends, ReportFails
<1> QED BY <1>1, <1>3, <1>4, OverKeeps DEF InNDJSON

\* The steps of a worker with a finding in hand.
LEMMA WorkerKeeps ==
  ASSUME WriterInv, NEW w \in Worker, WorkerStep(w)
  PROVE  WriterInv'
<1>1. CASE SkipNDJSON(w)
  BY <1>1, NDJSONKeeps DEF SkipNDJSON
<1>2. CASE WriteNDJSON(w)
  BY <1>2, NDJSONKeeps DEF WriteNDJSON
<1>3. CASE EnterReport(w)
  BY <1>3, EnterKeeps
<1>4. CASE ReportAppends(w) \/ ReportFails(w)
  BY <1>4, RowKeeps
<1>5. CASE NDJSONFails(w)
  <2>1. /\ Fail(w) /\ call[w] = Idle
        /\ UNCHANGED <<open, doc, report, call, ndjson>>
    BY <1>5 DEF NDJSONFails, AtSink, sinkVars
  <2>2. RowsFrom({})
    BY <2>1, NoRows DEF WriterInv, WriterTypes
  <2>3. \A f \in Finding : state'[f] = "acked" => state[f] = "acked"
    BY <2>1 DEF Fail, Queue!Nak, Queue!Unanswered, Queue!AfterFailure, WriterInv, WriterTypes
  <2> QED BY <2>1, <2>2, <2>3, OverKeeps
<1>6. CASE ReportRefuses(w) \/ ReportSkips(w)
  <2>1. /\ Done(w) \/ Fail(w)
        /\ call[w] = Idle /\ UNCHANGED <<open, doc, report, call, ndjson>>
    BY <1>6 DEF ReportRefuses, ReportSkips, AtSink, sinkVars,
                WriteRejected, WriteOpenFails, WriteStraggler
  <2>2. InNDJSON(Queue!InHand(w))
    BY <1>6 DEF ReportRefuses, ReportSkips, AtSink, WriterInv, ProgressInv
  <2>3. RowsFrom({})
    BY <2>1, NoRows DEF WriterInv, WriterTypes
  <2> QED BY <2>1, <2>2, <2>3, OverKeeps DEF InNDJSON
<1> QED BY <1>1, <1>2, <1>3, <1>4, <1>5, <1>6 DEF WorkerStep

\* Documents are taken, closed and published.
LEMMA FinishingKeeps ==
  ASSUME WriterInv,
         \/ \E s \in Scan : TimerFires(s) \/ Sweep(s)
         \/ \E d \in Doc : PublishReport(d)
         \/ CloseSinks
  PROVE  WriterInv'
<1>1. UNCHANGED <<state, batch, hand, call, ndjson>>
  BY DEF TimerFires, Sweep, PublishReport, CloseSinks, Finalize, SweepIdle, Take, Publish,
         CloseSink, sinkVars, queueVars
<1>2. RowsFrom({})
  <2>1. ASSUME NEW s \in Scan, TimerFires(s) \/ Sweep(s) PROVE RowsFrom({})
    <3>1. UNCHANGED <<doc, report>> /\ open' \in [Scan -> Doc \cup {NoDoc}]
      BY <2>1 DEF TimerFires, Sweep, Finalize, SweepIdle, Take, sinkVars, WriterInv, WriterTypes
    <3> QED BY <3>1, NoRows DEF WriterInv
  <2>2. CASE CloseSinks
    <3>1. UNCHANGED <<doc, report>> /\ open' \in [Scan -> Doc \cup {NoDoc}]
      BY <2>2 DEF CloseSinks, CloseSink
    <3> QED BY <3>1, NoRows DEF WriterInv
  <2>3. ASSUME NEW d \in Doc, PublishReport(d) PROVE RowsFrom({})
    <3>1. /\ doc' = [doc EXCEPT ![d].closed = TRUE] /\ UNCHANGED open
          /\ \/ report' = [report EXCEPT ![doc[d].scan] = Range(doc[d].rows)]
             \/ UNCHANGED report
      BY <2>3 DEF PublishReport, Publish
    <3>2. Range(doc[d].rows) \subseteq Finding
      BY DEF Range, WriterInv, WriterTypes, DocState
    <3>3. /\ doc' \in [Doc -> DocState] /\ report' \in [Scan -> SUBSET Finding]
          /\ \A e \in Doc : doc'[e].rows = doc[e].rows
      BY <3>1, <3>2 DEF WriterInv, WriterTypes, DocState
    <3>4. \A s \in Scan : report'[s] \in {report[s], Range(doc[d].rows)}
      BY <3>1 DEF WriterInv, WriterTypes
    <3> QED BY <3>1, <3>3, <3>4 DEF RowsFrom, WriterInv, WriterTypes
  <2> QED BY <2>1, <2>2, <2>3
<1> QED BY <1>1, <1>2, AsideKeeps DEF WriterInv, WriterTypes

\* The process is gone and starts again: the files stay.
LEMMA RestartKeeps ==
  ASSUME WriterInv, Restart
  PROVE  WriterInv'
<1>1. /\ UNCHANGED <<state, ndjson, report>>
      /\ hand' = [w \in Worker |-> "ndjson"] /\ call' = [w \in Worker |-> Idle]
      /\ open' = [s \in Scan |-> NoDoc]
      /\ doc' = [d \in Doc |-> IF doc[d] = Unopened THEN Unopened
                               ELSE [doc[d] EXCEPT !.closed = TRUE]]
      /\ batch' = [w \in Worker |-> IF w \in Worker THEN <<>> ELSE batch[w]]
  BY DEF Restart, Crash, Queue!DropBatches
<1>2. Idle \in CallState /\ Unopened \in DocState
  BY EmptySeq DEF Idle, CallState, Unopened, DocState
<1>3. doc' \in [Doc -> DocState] /\ \A d \in Doc : doc'[d].rows = doc[d].rows
  BY <1>1, <1>2 DEF WriterInv, WriterTypes, DocState
<1>4. WriterTypes'
  BY <1>1, <1>2, <1>3, EmptySeq DEF WriterInv, WriterTypes
<1>5. ProgressInv'
  BY <1>1 DEF ProgressInv
<1>6. AckedInNDJSON'
  BY <1>1 DEF WriterInv, AckedInNDJSON, Wants
<1>7. RowsFrom({})
  BY <1>1, <1>3, <1>4 DEF RowsFrom, WriterTypes
<1>8. ReportWithinNDJSON'
  BY <1>1, <1>7, RowsKeep DEF WriterInv
<1> QED BY <1>4, <1>5, <1>6, <1>8 DEF WriterInv

LEMMA StepInv == WriterInv /\ [WriterNext]_writerVars => WriterInv'
<1> SUFFICES ASSUME WriterInv, [WriterNext]_writerVars PROVE WriterInv'
  OBVIOUS
<1>1. UNCHANGED <<open, doc, report>> => RowsFrom({})
  BY NoRows DEF WriterInv, WriterTypes
<1>2. ASSUME NEW f \in Finding, PublishFinding(f) \/ AckWaitExpires(f) PROVE WriterInv'
  <2>1. /\ UNCHANGED <<batch, hand, call, ndjson, open, doc, report>>
        /\ \/ state' = [state EXCEPT ![f] = "ready"]
           \/ state' = [state EXCEPT ![f] = Queue!AfterFailure(f)]
    BY <1>2 DEF PublishFinding, AckWaitExpires, Queue!Publish, Queue!Expire, sinkVars
  <2>2. Queue!AfterFailure(f) \in {"ready", "given_up"}
    BY DEF Queue!AfterFailure
  <2>3. /\ state' \in [Finding -> Queue!MsgState]
        /\ \A g \in Finding : state'[g] = "acked" => state[g] = "acked"
    BY <2>1, <2>2 DEF WriterInv, WriterTypes, Queue!MsgState
  <2> QED BY <1>1, <2>1, <2>3, AsideKeeps
<1>3. ASSUME NEW s \in Scan, Terminal(s) PROVE WriterInv'
  BY <1>1, <1>3, AsideKeeps DEF Terminal, sinkVars, queueVars, WriterInv, WriterTypes
<1>4. CASE Stop
  BY <1>1, <1>4, AsideKeeps DEF Stop, sinkVars, queueVars, WriterInv, WriterTypes
<1>5. CASE UNCHANGED writerVars
  BY <1>1, <1>5, AsideKeeps DEF writerVars, sinkVars, queueVars, WriterInv, WriterTypes
<1>6. CASE Exit \/ Killed
  BY <1>6, RestartKeeps DEF Exit, Killed
<1> QED BY <1>2, <1>3, <1>4, <1>5, <1>6, FetchBatchKeeps, WorkerKeeps, FinishingKeeps
       DEF WriterNext, OrderlyNext

-----------------------------------------------------------------------------
(* The report of a process that was never restarted.                       *)

\* What the queue acknowledged and the report sink was wanted for, the sink stored or
\* dropped as a straggler.
AckedIsHeld ==
  \A f \in Finding : state[f] = "acked" /\ Wants(f, "report") => f \in acked \cup skipped

\* Until the first restart, the sink is one that never crashes.
ReportInv ==
  /\ restarts \in Nat
  /\ AckedIsHeld
  /\ restarts = 0 => SinkInv

\* The writer only ever does to the sink what SinkNext does, or restarts.
LEMMA SinkStep ==
  ASSUME WriterInv, [WriterNext]_writerVars, ~Restart
  PROVE  [SinkNext]_sinkVars
<1>1. ASSUME NEW w \in Worker, FetchBatch(w) PROVE UNCHANGED sinkVars
  BY <1>1 DEF FetchBatch
<1>2. ASSUME NEW w \in Worker, EnterReport(w) PROVE SinkNext
  <2>1. Queue!InHand(w) \in Finding
    BY <1>2, InHandIsFinding DEF EnterReport, AtSink, WriterInv
  <2> QED BY <1>2, <2>1 DEF EnterReport, SinkNext
<1>3. ASSUME NEW w \in Worker, ReportAppends(w) \/ ReportFails(w) PROVE SinkNext
  BY <1>3 DEF ReportAppends, ReportFails, SinkNext
<1>4. ASSUME NEW w \in Worker,
             SkipNDJSON(w) \/ WriteNDJSON(w) \/ NDJSONFails(w) \/ ReportRefuses(w)
               \/ ReportSkips(w)
      PROVE  UNCHANGED sinkVars
  BY <1>4 DEF SkipNDJSON, WriteNDJSON, NDJSONFails, ReportRefuses, ReportSkips,
              WriteRejected, WriteOpenFails, WriteStraggler
<1>5. ASSUME NEW s \in Scan, TimerFires(s) \/ Sweep(s) PROVE [SinkNext]_sinkVars
  BY <1>5 DEF TimerFires, Sweep, SinkNext
<1>6. ASSUME NEW d \in Doc, PublishReport(d) PROVE SinkNext
  BY <1>6 DEF PublishReport, SinkNext
<1>7. CASE CloseSinks
  BY <1>7 DEF CloseSinks, SinkNext
<1>8. CASE \/ \E f \in Finding : PublishFinding(f) \/ AckWaitExpires(f)
           \/ \E s \in Scan : Terminal(s)
           \/ Stop \/ UNCHANGED writerVars
  BY <1>8 DEF PublishFinding, AckWaitExpires, Terminal, Stop, writerVars
<1> QED BY <1>1, <1>2, <1>3, <1>4, <1>5, <1>6, <1>7, <1>8
       DEF WriterNext, OrderlyNext, WorkerStep, Exit, Killed

\* Neither history is ever shortened.
LEMMA HistoryGrows ==
  ASSUME WriterInv, [WriterNext]_writerVars
  PROVE  acked \subseteq acked' /\ skipped \subseteq skipped'
<1>1. acked \subseteq acked'
  <2>1. CASE Restart
    BY <2>1 DEF Restart, Crash
  <2>2. CASE ~Restart
    BY <2>2, SinkStep
       DEF SinkNext, WriteJoin, WriteOpen, RowFails, RowAppended, Finalize, SweepIdle, Take,
           Publish, CloseSink, sinkVars, sinkHist
  <2> QED BY <2>1, <2>2
<1>2. skipped \subseteq skipped'
  BY DEF WriterNext, OrderlyNext, WorkerStep, PublishFinding, AckWaitExpires, FetchBatch,
         SkipNDJSON, WriteNDJSON, NDJSONFails, EnterReport, ReportRefuses, ReportSkips,
         ReportAppends, ReportFails, Terminal, TimerFires, Sweep, PublishReport, Stop,
         CloseSinks, Exit, Killed, Restart, writerVars
<1> QED BY <1>1, <1>2

\* A finding is acknowledged by a handler that is over, which wrote it, skipped it, or
\* did not want it in the report.
LEMMA AckedHeldKeeps ==
  ASSUME WriterInv, AckedIsHeld, [WriterNext]_writerVars
  PROVE  AckedIsHeld'
<1>0. acked \subseteq acked' /\ skipped \subseteq skipped'
  BY HistoryGrows
<1>1. CASE \A f \in Finding : state'[f] = "acked" => state[f] = "acked"
  BY <1>0, <1>1 DEF AckedIsHeld, Wants
<1>2. ASSUME NEW w \in Worker, Done(w) \/ Fail(w),
             \/ Fail(w)
             \/ ~Wants(Queue!InHand(w), "report")
             \/ Queue!InHand(w) \in acked' \cup skipped'
      PROVE  AckedIsHeld'
  <2>1. \A f \in Finding : state'[f] = "acked" =>
          state[f] = "acked" \/ (Done(w) /\ f = Queue!InHand(w))
    BY <1>2, HandlerEnds DEF WriterInv
  <2>2. Fail(w) => \A f \in Finding : state'[f] = "acked" => state[f] = "acked"
    BY DEF Fail, Queue!Nak, Queue!Unanswered, Queue!AfterFailure, WriterInv, WriterTypes
  <2> QED BY <1>0, <1>1, <1>2, <2>1, <2>2 DEF AckedIsHeld, Wants
<1>3. ASSUME NEW w \in Worker, WorkerStep(w) PROVE AckedIsHeld'
  <2>1. CASE SkipNDJSON(w) \/ WriteNDJSON(w)
    <3>1. \/ Done(w) /\ ~Wants(Queue!InHand(w), "report")
          \/ UNCHANGED state
      BY <2>1 DEF SkipNDJSON, WriteNDJSON, AfterNDJSON, queueVars
    <3> QED BY <1>1, <1>2, <3>1
  <2>2. CASE NDJSONFails(w) \/ ReportRefuses(w) \/ ReportFails(w)
    BY <1>2, <2>2 DEF NDJSONFails, ReportRefuses, ReportFails
  <2>3. CASE EnterReport(w)
    BY <1>1, <2>3 DEF EnterReport, queueVars
  <2>4. CASE ReportSkips(w)
    BY <1>2, <2>4 DEF ReportSkips
  <2>5. CASE ReportAppends(w)
    <3>1. Queue!InHand(w) \in acked'
      BY <2>5 DEF ReportAppends, RowAppended, WriterInv, ProgressInv
    <3> QED BY <1>2, <2>5, <3>1 DEF ReportAppends
  <2> QED BY <1>3, <2>1, <2>2, <2>3, <2>4, <2>5 DEF WorkerStep
<1>4. ASSUME NEW f \in Finding, PublishFinding(f) \/ AckWaitExpires(f) PROVE AckedIsHeld'
  BY <1>1, <1>4 DEF PublishFinding, AckWaitExpires, Queue!Publish, Queue!Expire,
                    Queue!AfterFailure, WriterInv, WriterTypes
<1>5. ASSUME NEW w \in Worker, FetchBatch(w) PROVE AckedIsHeld'
  <2>1. \A f \in Finding : state'[f] = "acked" => state[f] = "acked"
    BY <1>5 DEF FetchBatch, Queue!Fetch, Queue!Deliver
  <2> QED BY <1>1, <2>1
<1>6. CASE UNCHANGED state
  BY <1>1, <1>6
<1>7. CASE \/ \E s \in Scan : Terminal(s) \/ TimerFires(s) \/ Sweep(s)
           \/ \E d \in Doc : PublishReport(d)
           \/ Stop \/ CloseSinks \/ Exit \/ Killed \/ UNCHANGED writerVars
  BY <1>6, <1>7 DEF Terminal, TimerFires, Sweep, PublishReport, Stop, CloseSinks, Exit, Killed,
                    Restart, Queue!DropBatches, writerVars, queueVars
<1> QED BY <1>3, <1>4, <1>5, <1>7 DEF WriterNext, OrderlyNext

LEMMA ReportInitInv == WriterInit => ReportInv
BY SinkInvInit DEF WriterInit, Queue!QueueInit, ReportInv, AckedIsHeld

LEMMA ReportStepInv == WriterInv /\ ReportInv /\ [WriterNext]_writerVars => ReportInv'
<1> SUFFICES ASSUME WriterInv, ReportInv, [WriterNext]_writerVars PROVE ReportInv'
  OBVIOUS
<1>1. AckedIsHeld'
  BY AckedHeldKeeps DEF ReportInv
<1>2. CASE Restart
  BY <1>1, <1>2 DEF Restart, ReportInv
<1>3. CASE ~Restart
  <2>1. restarts' = restarts
    BY <1>3 DEF WriterNext, OrderlyNext, WorkerStep, PublishFinding, AckWaitExpires, FetchBatch,
         SkipNDJSON, WriteNDJSON, NDJSONFails, EnterReport, ReportRefuses, ReportSkips,
         ReportAppends, ReportFails, Terminal, TimerFires, Sweep, PublishReport, Stop,
         CloseSinks, Exit, Killed, writerVars, procVars
  <2>2. restarts = 0 => SinkInv'
    BY <1>3, SinkStep, SinkInvNext DEF ReportInv
  <2> QED BY <1>1, <2>1, <2>2 DEF ReportInv
<1> QED BY <1>2, <1>3

-----------------------------------------------------------------------------
(* Type correctness: the queue's part is WorkQueueProofs', the sink's part *)
(* ReportSinkProofs' across crashes; the writer adds its process.          *)

QP == INSTANCE WorkQueueProofs WITH Msg <- Finding

\* A process that is going down may be started again.
ProcInv ==
  /\ proc \in {"up", "stopping", "closing"}
  /\ restarts \in 0 .. MaxRestarts
  /\ proc # "up" => restarts < MaxRestarts
  /\ ended \subseteq Scan /\ timer \subseteq Scan
  /\ byTimer \subseteq pending

\* What the handlers keep.
HandlerInv ==
  /\ hand \in [Worker -> {"ndjson", "report"}]
  /\ ndjson \subseteq Finding /\ skipped \subseteq Finding

WriterTypeInv == SinkTypeInv /\ QP!QueueInv /\ ProcInv /\ HandlerInv

\* The options the queue is run with are a consumer's.
LEMMA FindingsQueue == QP!QueueOptions
<1>1. QP!IsFiniteSet(Finding) = IsFiniteSet(Finding)
  BY DEF QP!IsFiniteSet, IsFiniteSet
<1> QED BY <1>1, WriterAssumption DEF QP!QueueOptions

\* WriterService's instance of the queue and the one its lemmas are about.
LEMMA SameRoom == Queue!Room = QP!Room
<1>1. \A S : Queue!Cardinality(S) = QP!Cardinality(S)
  BY DEF Queue!Cardinality, QP!Cardinality
<1> QED BY <1>1 DEF Queue!Room, QP!Room

LEMMA SameFetch ==
  ASSUME NEW w \in Worker, Queue!Fetch(w)
  PROVE  QP!Fetch(w)
<1>1. ASSUME NEW n \in Nat
      PROVE  Queue!Injection(1 .. n, Queue!Ready) = QP!Injection(1 .. n, QP!Ready)
  BY DEF Queue!Ready, QP!Ready, Queue!Injection, QP!Injection, Queue!IsInjective, QP!IsInjective
<1>2. ASSUME NEW msgs PROVE Queue!Deliver(w, msgs) = QP!Deliver(w, msgs)
  BY DEF Queue!Deliver, QP!Deliver, Queue!Range, QP!Range
<1>3. Queue!Busy(w) = QP!Busy(w)
  BY DEF Queue!Busy, QP!Busy
<1> QED BY <1>1, <1>2, <1>3, SameRoom, WriterAssumption DEF Queue!Fetch, QP!Fetch

LEMMA SameSettling ==
  ASSUME NEW w \in Worker
  PROVE  /\ Queue!Ack(w) => QP!Ack(w)
         /\ Queue!Nak(w) => QP!Nak(w)
         /\ Queue!Unanswered(w) => QP!Unanswered(w)
BY DEF Queue!Ack, QP!Ack, Queue!Nak, QP!Nak, Queue!Unanswered, QP!Unanswered, Queue!Busy, QP!Busy,
       Queue!InHand, QP!InHand, Queue!Settle, QP!Settle, Queue!AfterFailure, QP!AfterFailure

\* What the writer does to its queue is one of the queue's operations.
QueueStep ==
  \/ UNCHANGED queueVars
  \/ \E f \in Finding : Queue!Publish(f) \/ \E C : Queue!Expire(f, C)
  \/ \E w \in Worker : Queue!Fetch(w) \/ Queue!Ack(w) \/ Queue!Nak(w) \/ Queue!Unanswered(w)
  \/ Queue!DropBatches(Worker)

LEMMA QueueKeeps ==
  ASSUME QP!QueueInv, QueueStep
  PROVE  QP!QueueInv'
<1>1. CASE UNCHANGED queueVars
  BY <1>1 DEF queueVars, QP!QueueInv, QP!QueueTypeOK, QP!DeliverableInv, QP!Room
<1>2. ASSUME NEW f \in Finding, Queue!Publish(f) PROVE QP!QueueInv'
  <2>1. QP!Publish(f)
    BY <1>2 DEF Queue!Publish, QP!Publish
  <2> QED BY <2>1, FindingsQueue, QP!PublishKeeps
<1>3. ASSUME NEW f \in Finding, NEW C, Queue!Expire(f, C) PROVE QP!QueueInv'
  <2>1. QP!Expire(f, C)
    BY <1>3 DEF Queue!Expire, QP!Expire, Queue!AfterFailure, QP!AfterFailure,
                Queue!Busy, QP!Busy, Queue!InHand, QP!InHand
  <2> QED BY <2>1, FindingsQueue, QP!ExpireKeeps
<1>4. ASSUME NEW w \in Worker, Queue!Fetch(w) PROVE QP!QueueInv'
  BY <1>4, SameFetch, FindingsQueue, QP!FetchKeeps
<1>5. ASSUME NEW w \in Worker, Queue!Ack(w) PROVE QP!QueueInv'
  BY <1>5, SameSettling, FindingsQueue, QP!AckKeeps
<1>6. ASSUME NEW w \in Worker, Queue!Nak(w) \/ Queue!Unanswered(w) PROVE QP!QueueInv'
  BY <1>6, SameSettling, FindingsQueue, QP!NakKeeps
<1>7. CASE Queue!DropBatches(Worker)
  <2>1. QP!DropBatches(Worker)
    BY <1>7 DEF Queue!DropBatches, QP!DropBatches
  <2> QED BY <2>1, FindingsQueue, QP!DropKeeps
<1> QED BY <1>1, <1>2, <1>3, <1>4, <1>5, <1>6, <1>7 DEF QueueStep

LEMMA StepOfQueue == [WriterNext]_writerVars => QueueStep
<1> SUFFICES ASSUME [WriterNext]_writerVars PROVE QueueStep
  OBVIOUS
<1>1. ASSUME NEW w \in Worker, FetchBatch(w) PROVE QueueStep
  BY <1>1 DEF FetchBatch, QueueStep
<1>2. ASSUME NEW w \in Worker, WorkerStep(w) PROVE QueueStep
  BY <1>2 DEF WorkerStep, SkipNDJSON, WriteNDJSON, NDJSONFails, EnterReport, ReportRefuses,
              ReportSkips, ReportAppends, ReportFails, AfterNDJSON, Done, Fail, QueueStep
<1>3. ASSUME NEW f \in Finding, PublishFinding(f) \/ AckWaitExpires(f) PROVE QueueStep
  BY <1>3 DEF PublishFinding, AckWaitExpires, QueueStep
<1>4. CASE \/ \E s \in Scan : Terminal(s) \/ TimerFires(s) \/ Sweep(s)
           \/ \E d \in Doc : PublishReport(d)
           \/ Stop \/ CloseSinks \/ Exit \/ Killed \/ UNCHANGED writerVars
  BY <1>4 DEF Terminal, TimerFires, Sweep, PublishReport, Stop, CloseSinks, Exit, Killed,
              Restart, writerVars, QueueStep
<1> QED BY <1>1, <1>2, <1>3, <1>4 DEF WriterNext, OrderlyNext

LEMMA SinkTypesKeep ==
  ASSUME WriterInv, SinkTypeInv, [WriterNext]_writerVars
  PROVE  SinkTypeInv'
<1>1. CASE Restart
  BY <1>1, TypeInvNext DEF Restart
<1> QED BY <1>1, SinkStep, TypeInvNext

\* The sink keeps what a timer took until it is published.
LEMMA ProcKeeps ==
  ASSUME ProcInv, [WriterNext]_writerVars
  PROVE  ProcInv'
<1>1. CASE \/ \E f \in Finding : PublishFinding(f) \/ AckWaitExpires(f)
           \/ \E w \in Worker : FetchBatch(w) \/ WorkerStep(w)
           \/ UNCHANGED writerVars
  <2>1. UNCHANGED <<procVars, pending>>
    BY <1>1 DEF PublishFinding, AckWaitExpires, FetchBatch, WorkerStep, SkipNDJSON, WriteNDJSON,
         NDJSONFails, EnterReport, ReportRefuses, ReportSkips, ReportAppends, ReportFails,
         WriteJoin, WriteOpen, WriteRejected, WriteOpenFails, WriteStraggler, RowAppended,
         RowFails, sinkVars, writerVars
  <2> QED BY <2>1, SMTT(30) DEF ProcInv, procVars
<1>2. ASSUME NEW s \in Scan, Terminal(s) PROVE ProcInv'
  BY <1>2 DEF Terminal, ProcInv, sinkVars
<1>3. ASSUME NEW s \in Scan, TimerFires(s) PROVE ProcInv'
  BY <1>3 DEF TimerFires, Finalize, Take, ProcInv, sinkVars
<1>4. ASSUME NEW s \in Scan, Sweep(s) PROVE ProcInv'
  BY <1>4 DEF Sweep, SweepIdle, Take, ProcInv, procVars
<1>5. ASSUME NEW d \in Doc, PublishReport(d) PROVE ProcInv'
  BY <1>5 DEF PublishReport, Publish, ProcInv
<1>6. CASE Stop
  BY <1>6 DEF Stop, ProcInv, sinkVars
<1>7. CASE CloseSinks
  BY <1>7 DEF CloseSinks, CloseSink, ProcInv
<1>8. CASE Exit \/ Killed
  <2>1. restarts < MaxRestarts /\ Restart
    BY <1>8 DEF Exit, Killed, ProcInv
  <2> QED BY <2>1, WriterAssumption DEF Restart, Crash, ProcInv
<1> QED BY <1>1, <1>2, <1>3, <1>4, <1>5, <1>6, <1>7, <1>8 DEF WriterNext, OrderlyNext

LEMMA HandlerKeeps ==
  ASSUME WriterInv, HandlerInv, [WriterNext]_writerVars
  PROVE  HandlerInv'
<1>1. hand' \in [Worker -> {"ndjson", "report"}]
  BY StepInv DEF WriterInv, WriterTypes
<1>2. ASSUME NEW w \in Worker, WorkerStep(w)
      PROVE  ndjson' \subseteq Finding /\ skipped' \subseteq Finding
  <2>1. CASE WriteNDJSON(w) \/ ReportSkips(w)
    <3>1. Queue!InHand(w) \in Finding
      BY <2>1, InHandIsFinding DEF WriteNDJSON, ReportSkips, AtSink, WriterInv
    <3> QED BY <2>1, <3>1 DEF WriteNDJSON, ReportSkips, HandlerInv
  <2>2. CASE ~(WriteNDJSON(w) \/ ReportSkips(w))
    BY <1>2, <2>2 DEF WorkerStep, SkipNDJSON, NDJSONFails, EnterReport, ReportRefuses,
                      ReportAppends, ReportFails, HandlerInv
  <2> QED BY <2>1, <2>2
<1>3. ASSUME ~ \E w \in Worker : WorkerStep(w)
      PROVE  ndjson' \subseteq Finding /\ skipped' \subseteq Finding
  <2>1. UNCHANGED <<ndjson, skipped>>
    BY <1>3 DEF WriterNext, OrderlyNext, PublishFinding, AckWaitExpires, FetchBatch, Terminal,
                TimerFires, Sweep, PublishReport, Stop, CloseSinks, Exit, Killed, Restart, writerVars
  <2> QED BY <2>1 DEF HandlerInv
<1> QED BY <1>1, <1>2, <1>3 DEF HandlerInv

LEMMA TypesStart == WriterInit => WriterTypeInv
<1> SUFFICES ASSUME WriterInit PROVE WriterTypeInv
  OBVIOUS
<1>1. SinkTypeInv
  BY TypeInvInit DEF WriterInit
<1>2. QP!QueueInv
  <2>1. QP!QueueInit
    BY DEF WriterInit, Queue!QueueInit, QP!QueueInit
  <2> QED BY <2>1, FindingsQueue, QP!QueueStarts
<1>3. ProcInv /\ HandlerInv
  BY WriterAssumption DEF WriterInit, ProcInv, HandlerInv
<1> QED BY <1>1, <1>2, <1>3 DEF WriterTypeInv

LEMMA TypesKeep == WriterInv /\ WriterTypeInv /\ [WriterNext]_writerVars => WriterTypeInv'
BY StepOfQueue, QueueKeeps, SinkTypesKeep, ProcKeeps, HandlerKeeps DEF WriterTypeInv

-----------------------------------------------------------------------------
(* The theorems.                                                           *)

\* The strengthening holds in every state the writer reaches, kills included.
THEOREM WriterInvariant == WriterSpec => []WriterInv
BY InitInv, StepInv, PTL DEF WriterSpec

\* Type correctness of the writer, kills included: no message is delivered too often, no
\* more are outstanding than the consumer allows, the sink's caps hold, and a timer
\* publishes only what it took.
THEOREM WriterTypeCorrect == WriterSpec => []WriterTypeOK
<1>1. WriterTypeInv => WriterTypeOK
  <2>1. QP!QueueTypeOK => Queue!QueueTypeOK
    BY SameRoom DEF Queue!QueueTypeOK, QP!QueueTypeOK, Queue!MsgState, QP!MsgState
  <2> QED BY <2>1 DEF WriterTypeInv, SinkTypeInv, QP!QueueInv, ProcInv, HandlerInv, WriterTypeOK
<1>2. WriterSpec => []WriterTypeInv
  BY TypesStart, TypesKeep, WriterInvariant, PTL DEF WriterSpec
<1> QED BY <1>1, <1>2, PTL

\* An acknowledged finding that wants NDJSON is in its file for good.
THEOREM WriterAcked == WriterSpec => []AckedInNDJSON
<1>1. WriterInv => AckedInNDJSON
  BY DEF WriterInv
<1> QED BY <1>1, WriterInvariant, PTL

\* No report, published or open, shows a finding the NDJSON file misses.
THEOREM WriterReports == WriterSpec => []ReportWithinNDJSON
<1>1. WriterInv => ReportWithinNDJSON
  BY DEF WriterInv
<1> QED BY <1>1, WriterInvariant, PTL

\* Whatever the handlers, the timers and the shutdown do, the report sink sees the calls
\* ReportSink allows and nothing else, or the death of its process.
THEOREM WriterRunsSink == WriterSpec => SinkCrashSpec
<1>1. WriterInit => SinkInit
  BY DEF WriterInit
<1>2. WriterInv /\ [WriterNext]_writerVars => [SinkNext \/ Crash]_sinkVars
  BY SinkStep DEF Restart
<1> QED BY <1>1, <1>2, WriterInvariant, PTL DEF WriterSpec, SinkCrashSpec

\* A finding acknowledged by a process that was never restarted is in its report or on
\* its way there, or one of the losses AckedReported names.
THEOREM WriterReported == WriterSpec => []AckedReported
<1>1. ReportInv => AckedReported
  BY DEF ReportInv, AckedIsHeld, AckedReported, SinkInv, AckedAccounted
<1>2. WriterSpec => []ReportInv
  BY ReportInitInv, ReportStepInv, WriterInvariant, PTL DEF WriterSpec
<1> QED BY <1>1, <1>2, PTL

===============================================================================
