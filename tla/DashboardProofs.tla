---------------------------- MODULE DashboardProofs ----------------------------
(***************************************************************************)
(* What CliSession promises of `harporis watch`, for any stream of events, *)
(* any keys, any failures of the seed, the tail and the loads, and any     *)
(* order in which their results arrive.                                    *)
(*                                                                         *)
(* The dashboard and `harporis history` keep their tables with different   *)
(* code, and the dashboard folds what the seed counted a second time.      *)
(* TableInv says what a table has in common with every event it was made   *)
(* from, which makes a second fold harmless; FleetInv says how far the     *)
(* pump is (Seeding, then Streaming) and how each row compares with the    *)
(* history's at that point.  PanelInv says the same of the open panel and  *)
(* the loads on their way.                                                 *)
(***************************************************************************)
EXTENDS CliSession, FiniteSetTheorems, SequenceTheorems, WellFoundedInduction, TLAPS

-----------------------------------------------------------------------------
(* Tables.                                                                 *)

\* Induction over the natural numbers, for a set: library facts that take an operator do
\* not reach the provers.
LEMMA Induction ==
  ASSUME NEW S, S \subseteq Nat, 0 \in S, \A n \in S : n + 1 \in S
  PROVE  S = Nat
<1> DEFINE T == Nat \ S
           R == OpToRel(<, Nat)
<1> SUFFICES ASSUME T # {} PROVE FALSE
  OBVIOUS
<1>1. IsWellFoundedOn(R, Nat)
  BY NatLessThanWellFounded
<1>2. PICK x \in T : \A y \in T : <<y, x>> \notin R
  <2> HIDE DEF R, T
  <2>1. T \subseteq Nat
    BY DEF T
  <2> QED BY <1>1, <2>1, WFMin
<1>3. x # 0 /\ x - 1 \in Nat /\ x \in Nat
  BY DEF T
<1>4. x - 1 \in T
  BY <1>3
<1>5. <<x - 1, x>> \in R
  BY <1>3 DEF OpToRel
<1> QED BY <1>2, <1>4, <1>5

\* The rows after each of the first N events.
AreTables(rows, events, N) ==
  rows = [n \in 0..N |-> IF n = 0 THEN <<>> ELSE Tabled(rows[n - 1], events[n])]

\* HistoryTable's recursion has a function that satisfies it.
LEMMA TablesExist ==
  ASSUME NEW events
  PROVE  \A N \in Nat : \E rows : AreTables(rows, events, N)
<1> DEFINE S == {N \in Nat : \E rows : AreTables(rows, events, N)}
<1>1. 0 \in S
  <2> DEFINE r == [n \in 0..0 |-> <<>>]
  <2>1. AreTables(r, events, 0)
    BY DEF AreTables
  <2> QED BY <2>1
<1>2. ASSUME NEW N \in S PROVE N + 1 \in S
  <2>1. N \in Nat
    OBVIOUS
  <2>2. PICK r : AreTables(r, events, N)
    OBVIOUS
  <2> DEFINE q == [n \in 0..(N + 1) |-> IF n <= N THEN r[n] ELSE Tabled(r[N], events[N + 1])]
  <2>3. \A n \in 0..N : r[n] = IF n = 0 THEN <<>> ELSE Tabled(r[n - 1], events[n])
    BY <2>2 DEF AreTables
  <2>4. \A n \in 0..(N + 1) : q[n] = IF n = 0 THEN <<>> ELSE Tabled(q[n - 1], events[n])
    <3> TAKE n \in 0..(N + 1)
    <3>1. CASE n = N + 1
      <4>1. n - 1 = N /\ n # 0 /\ N \in 0..(N + 1)
        BY <3>1, <2>1
      <4> QED BY <4>1, <3>1, <2>1
    <3>2. CASE n <= N /\ n # 0
      BY <2>1, <2>3, <3>2
    <3>3. CASE n = 0
      BY <2>1, <2>3, <3>3
    <3> QED BY <3>1, <3>2, <3>3, <2>1
  <2>5. q = [n \in 0..(N + 1) |-> IF n = 0 THEN <<>> ELSE Tabled(q[n - 1], events[n])]
    BY <2>4, Zenon
  <2> HIDE DEF q
  <2>6. AreTables(q, events, N + 1)
    BY <2>5 DEF AreTables
  <2> QED BY <2>1, <2>6
<1> HIDE DEF S
<1>3. S \subseteq Nat
  BY DEF S
<1>4. S = Nat
  BY <1>1, <1>2, <1>3, Induction
<1> QED BY <1>4 DEF S

\* Two such functions agree where the events do.
LEMMA TablesAgree ==
  ASSUME NEW a, NEW b, NEW M \in Nat, NEW N \in Nat, M <= N, NEW f, NEW g,
         \A n \in 1..M : a[n] = b[n],
         AreTables(f, a, M), AreTables(g, b, N)
  PROVE  f[M] = g[M]
<1> DEFINE S == {n \in Nat : n <= M => f[n] = g[n]}
<1>1. \A n \in 0..M : f[n] = IF n = 0 THEN <<>> ELSE Tabled(f[n - 1], a[n])
  BY DEF AreTables
<1>2. \A n \in 0..N : g[n] = IF n = 0 THEN <<>> ELSE Tabled(g[n - 1], b[n])
  BY DEF AreTables
<1>3. 0 \in S
  BY <1>1, <1>2
<1>4. ASSUME NEW n \in S PROVE n + 1 \in S
  <2> SUFFICES ASSUME n + 1 <= M PROVE f[n + 1] = g[n + 1]
    OBVIOUS
  <2>1. n \in Nat /\ f[n] = g[n] /\ n + 1 \in 1..M /\ n + 1 \in 0..M /\ n + 1 \in 0..N
        /\ (n + 1) - 1 = n
    OBVIOUS
  <2>2. f[n + 1] = Tabled(f[n], a[n + 1])
    BY <2>1, <1>1
  <2>3. g[n + 1] = Tabled(g[n], b[n + 1])
    BY <2>1, <1>2
  <2> QED BY <2>1, <2>2, <2>3
<1> HIDE DEF S
<1>5. S = Nat
  <2>1. S \subseteq Nat
    BY DEF S
  <2> QED BY <2>1, <1>3, <1>4, Induction
<1> QED BY <1>5 DEF S

\* HistoryTable is the last value of one.
LEMMA TableOfPrefix ==
  ASSUME NEW events, NEW n \in Nat, Len(events) = n
  PROVE  \E rows : AreTables(rows, events, n) /\ HistoryTable(events) = rows[n]
<1> DEFINE rows == CHOOSE r : AreTables(r, events, n)
<1>1. AreTables(rows, events, n)
  <2>1. \E r : AreTables(r, events, n)
    BY TablesExist
  <2> QED BY <2>1, Zenon
<1>2. HistoryTable(events) = rows[n]
  BY DEF HistoryTable, AreTables
<1> QED BY <1>1, <1>2

\* ListHistory has no row before the first event.
LEMMA TableEmpty == HistoryTable(<<>>) = <<>>
<1>1. Len(<<>>) = 0 /\ 0 \in Nat
  OBVIOUS
<1>2. PICK r : AreTables(r, <<>>, 0) /\ HistoryTable(<<>>) = r[0]
  BY <1>1, TableOfPrefix, Zenon
<1> QED BY <1>2 DEF AreTables

\* One event more is one turn of ListHistory's loop.
LEMMA TableAppend ==
  ASSUME NEW E, NEW q \in Seq(E), NEW e \in E
  PROVE  HistoryTable(Append(q, e)) = Tabled(HistoryTable(q), e)
<1> DEFINE n == Len(q)
           b == Append(q, e)
<1>1. n \in Nat /\ Len(b) = n + 1 /\ b[n + 1] = e /\ \A i \in 1..n : q[i] = b[i]
  OBVIOUS
<1>2. PICK f : AreTables(f, q, n) /\ HistoryTable(q) = f[n]
  BY <1>1, TableOfPrefix
<1> HIDE DEF b
<1>3. PICK g : AreTables(g, b, n + 1) /\ HistoryTable(b) = g[n + 1]
  BY <1>1, TableOfPrefix
<1> HIDE DEF n
<1>4. f[n] = g[n]
  BY <1>1, <1>2, <1>3, TablesAgree
<1>5. g[n + 1] = Tabled(g[n], b[n + 1])
  <2>1. n + 1 \in 0..(n + 1) /\ n + 1 # 0 /\ (n + 1) - 1 = n
    BY <1>1
  <2> QED BY <2>1, <1>3 DEF AreTables
<1> QED BY <1>1, <1>2, <1>3, <1>4, <1>5 DEF b

-----------------------------------------------------------------------------

\* What the metrics of an event may be.
SomeMetrics == Metrics \cup {NoMetrics}

\* scanmetrics.Merge returns metrics.
LEMMA MergeType ==
  ASSUME NEW a \in SomeMetrics, NEW b \in SomeMetrics
  PROVE  Merge(a, b) \in SomeMetrics
BY TextAssumption DEF Merge, Larger, SomeMetrics, Metrics

\* Merging the same counters again changes nothing.
LEMMA MergeTwice ==
  ASSUME NEW a \in SomeMetrics, NEW b \in SomeMetrics
  PROVE  Merge(Merge(a, b), b) = Merge(a, b)
BY TextAssumption DEF Merge, Larger, SomeMetrics, Metrics

\* What was merged stays merged.
LEMMA MergeKeeps ==
  ASSUME NEW a \in SomeMetrics, NEW b \in SomeMetrics, NEW c \in SomeMetrics, Merge(a, c) = a
  PROVE  Merge(Merge(a, b), c) = Merge(a, b)
BY TextAssumption DEF Merge, Larger, SomeMetrics, Metrics

\* Whether an event ends its scan.
Kind(ev) == IsTerminal(ev.state)

\* IsTerminal is a truth value.
LEMMA KindType == \A ev : Kind(ev) \in BOOLEAN
BY DEF Kind, IsTerminal

\* What a row shows of an event.
Shows(row, ev) == row.ts = ev.ts /\ row.state = ev.state /\ row.source = ev.source

\* ListHistory's rule in terms of kinds.
LEMMA SupersedesKind ==
  ASSUME NEW ev, NEW prev
  PROVE  Supersedes(ev, prev) <=> (Kind(prev) => Kind(ev)) /\ ev.ts >= prev.ts
BY DEF Supersedes, Kind

\* A row whose metrics are replaced.
LEMMA RowType ==
  ASSUME NEW row \in Event, NEW m \in SomeMetrics
  PROVE  LET new == [row EXCEPT !.metrics = m]
         IN  /\ new \in Event /\ new.scan = row.scan /\ new.metrics = m
             /\ Shows(new, row) /\ Kind(new) = Kind(row)
BY DEF Event, SomeMetrics, Shows, Kind

\* The fields of an event.
LEMMA EventType ==
  ASSUME NEW ev \in Event
  PROVE  /\ ev.scan \in Text /\ ev.ts \in Int /\ ev.metrics \in SomeMetrics
BY DEF Event, SomeMetrics

\* The table T describes the events q: each event's counters are in it, and one that would
\* still replace its scan's row is of the same second and kind as the row, which shows it or a
\* later one.
TableInv(q, T) ==
  /\ DOMAIN T = {q[i].scan : i \in DOMAIN q}
  /\ \A s \in DOMAIN T : T[s] \in Event /\ T[s].scan = s
  /\ \A i \in DOMAIN q : Merge(T[q[i].scan].metrics, q[i].metrics) = T[q[i].scan].metrics
  /\ \A i \in DOMAIN q : Supersedes(q[i], T[q[i].scan]) =>
       /\ q[i].ts = T[q[i].scan].ts
       /\ Kind(q[i]) = Kind(T[q[i].scan])
       /\ \E w \in DOMAIN q : i <= w /\ q[w].scan = q[i].scan /\ Shows(T[q[i].scan], q[w])

\* R is what becomes of the table T with ev.
Follows(T, ev, R) ==
  /\ DOMAIN R = DOMAIN T \cup {ev.scan}
  /\ \A s \in DOMAIN T : s # ev.scan => R[s] = T[s]
  /\ ev.scan \notin DOMAIN T => R[ev.scan] = ev
  /\ R[ev.scan] \in Event /\ R[ev.scan].scan = ev.scan
  /\ ev.scan \in DOMAIN T =>
       /\ R[ev.scan].metrics = Merge(T[ev.scan].metrics, ev.metrics)
       /\ Supersedes(ev, T[ev.scan]) => Shows(R[ev.scan], ev) /\ Kind(R[ev.scan]) = Kind(ev)
       /\ ~Supersedes(ev, T[ev.scan]) =>
            Shows(R[ev.scan], T[ev.scan]) /\ Kind(R[ev.scan]) = Kind(T[ev.scan])

\* A turn of ListHistory's loop makes the table Follows describes.
LEMMA TabledRow ==
  ASSUME NEW T, NEW ev \in Event,
         \A s \in DOMAIN T : T[s] \in Event /\ T[s].scan = s
  PROVE  Follows(T, ev, Tabled(T, ev))
<1> DEFINE R == Tabled(T, ev)
           s == ev.scan
           base == IF Supersedes(ev, T[s]) THEN ev ELSE T[s]
           m == Merge(T[s].metrics, ev.metrics)
<1>1. /\ DOMAIN R = DOMAIN T \cup {s}
      /\ \A t \in DOMAIN T : t # s => R[t] = T[t]
      /\ s \notin DOMAIN T => R[s] = ev
      /\ s \in DOMAIN T => R[s] = [base EXCEPT !.metrics = m]
  BY DEF Tabled
<1> SUFFICES Follows(T, ev, R)
  OBVIOUS
<1> HIDE DEF R
<1>2. CASE s \notin DOMAIN T
  BY <1>1, <1>2 DEF Follows
<1>3. CASE s \in DOMAIN T
  <2>1. base \in Event /\ base.scan = s
    BY <1>3
  <2>2. m \in SomeMetrics
    BY <1>3, EventType, MergeType
  <2> HIDE DEF base, m
  <2>3. LET new == [base EXCEPT !.metrics = m]
        IN  /\ new \in Event /\ new.scan = base.scan /\ new.metrics = m
            /\ Shows(new, base) /\ Kind(new) = Kind(base)
    BY <2>1, <2>2, RowType
  <2>4. /\ R[s] \in Event /\ R[s].scan = s /\ R[s].metrics = m
        /\ Shows(R[s], base) /\ Kind(R[s]) = Kind(base)
    BY <1>1, <1>3, <2>1, <2>3
  <2> QED BY <1>1, <1>3, <2>4 DEF base, m, Follows
<1> QED BY <1>2, <1>3

\* A table goes on describing its events.
LEMMA TableInvStep ==
  ASSUME NEW q \in Seq(Event), NEW T, NEW ev \in Event, TableInv(q, T)
  PROVE  TableInv(Append(q, ev), Tabled(T, ev))
<1> DEFINE b == Append(q, ev)
           R == Tabled(T, ev)
           n == Len(q)
           s == ev.scan
<1>1. /\ n \in Nat /\ DOMAIN q = 1..n /\ DOMAIN b = 1..(n + 1) /\ b[n + 1] = ev
      /\ \A i \in DOMAIN q : b[i] = q[i] /\ q[i] \in Event
  OBVIOUS
<1> HIDE DEF b, n
<1>2. \A t \in DOMAIN T : T[t] \in Event /\ T[t].scan = t
  BY DEF TableInv
<1>3. /\ DOMAIN R = DOMAIN T \cup {s}
      /\ \A t \in DOMAIN T : t # s => R[t] = T[t]
      /\ s \notin DOMAIN T => R[s] = ev
      /\ R[s] \in Event /\ R[s].scan = s
      /\ s \in DOMAIN T =>
           /\ R[s].metrics = Merge(T[s].metrics, ev.metrics)
           /\ Supersedes(ev, T[s]) =>
                Shows(R[s], ev) /\ Kind(R[s]) = Kind(ev)
           /\ ~Supersedes(ev, T[s]) =>
                Shows(R[s], T[s]) /\ Kind(R[s]) = Kind(T[s])
  <2>1. Follows(T, ev, R)
    BY <1>2, TabledRow
  <2> HIDE DEF R
  <2> QED BY <2>1 DEF Follows
<1> HIDE DEF R
<1>4. \A i \in DOMAIN q : q[i].scan \in DOMAIN T
  BY DEF TableInv
<1>5. DOMAIN R = {b[i].scan : i \in DOMAIN b}
  <2>1. DOMAIN T = {q[i].scan : i \in DOMAIN q}
    BY DEF TableInv
  <2> QED BY <1>1, <1>3, <2>1
<1>6. \A t \in DOMAIN R : R[t] \in Event /\ R[t].scan = t
  BY <1>2, <1>3
<1>7. ASSUME NEW i \in DOMAIN b
      PROVE  Merge(R[b[i].scan].metrics, b[i].metrics) = R[b[i].scan].metrics
  <2>1. CASE i = n + 1 /\ s \in DOMAIN T
    <3>1. T[s].metrics \in SomeMetrics /\ ev.metrics \in SomeMetrics
      BY <2>1, <1>2, EventType
    <3> QED BY <2>1, <3>1, <1>1, <1>3, MergeTwice
  <2>2. CASE i = n + 1 /\ s \notin DOMAIN T
    <3>1. ev.metrics \in SomeMetrics
      BY EventType
    <3>2. Merge(ev.metrics, ev.metrics) = ev.metrics
      BY <3>1, TextAssumption DEF Merge, Larger, SomeMetrics, Metrics
    <3> QED BY <2>2, <3>2, <1>1, <1>3
  <2>3. CASE i \in DOMAIN q /\ q[i].scan = s
    <3>1. s \in DOMAIN T /\ b[i] = q[i]
      BY <2>3, <1>4, <1>1
    <3>2. T[s].metrics \in SomeMetrics /\ ev.metrics \in SomeMetrics /\ q[i].metrics \in SomeMetrics
      BY <3>1, <2>3, <1>1, <1>2, EventType
    <3>3. Merge(T[s].metrics, q[i].metrics) = T[s].metrics
      BY <2>3 DEF TableInv
    <3> QED BY <2>3, <3>1, <3>2, <3>3, <1>3, MergeKeeps
  <2>4. CASE i \in DOMAIN q /\ q[i].scan # s
    <3>1. Merge(T[q[i].scan].metrics, q[i].metrics) = T[q[i].scan].metrics
      BY <2>4 DEF TableInv
    <3> QED BY <2>4, <3>1, <1>1, <1>3, <1>4
  <2> QED BY <2>1, <2>2, <2>3, <2>4, <1>1
<1>8. ASSUME NEW i \in DOMAIN b, Supersedes(b[i], R[b[i].scan])
      PROVE  /\ b[i].ts = R[b[i].scan].ts
             /\ Kind(b[i]) = Kind(R[b[i].scan])
             /\ \E w \in DOMAIN b : i <= w /\ b[w].scan = b[i].scan /\ Shows(R[b[i].scan], b[w])
  <2> USE KindType
  <2>1. CASE i = n + 1
    <3>1. b[i] = ev /\ b[i].scan = s /\ i <= n + 1
      BY <2>1, <1>1
    <3>2. CASE s \notin DOMAIN T
      BY <3>1, <3>2, <1>3, <2>1 DEF Shows
    <3>3. CASE s \in DOMAIN T /\ Supersedes(ev, T[s])
      BY <3>1, <3>3, <1>3, <2>1 DEF Shows
    <3>4. CASE s \in DOMAIN T /\ ~Supersedes(ev, T[s])
      <4>1. T[s].ts = R[s].ts /\ Kind(R[s]) = Kind(T[s])
        BY <3>4, <1>3 DEF Shows
      <4> QED BY <4>1, <3>1, <3>4, <1>8, SupersedesKind
    <3> QED BY <3>2, <3>3, <3>4
  <2>2. CASE i \in DOMAIN q /\ q[i].scan # s
    <3>1. R[b[i].scan] = T[q[i].scan] /\ b[i] = q[i]
      BY <2>2, <1>1, <1>3, <1>4
    <3>2. /\ q[i].ts = T[q[i].scan].ts
          /\ Kind(q[i]) = Kind(T[q[i].scan])
          /\ \E w \in DOMAIN q : i <= w /\ q[w].scan = q[i].scan /\ Shows(T[q[i].scan], q[w])
      BY <3>1, <2>2, <1>8 DEF TableInv
    <3> QED BY <3>1, <3>2, <1>1
  <2>3. CASE i \in DOMAIN q /\ q[i].scan = s
    <3>1. b[i] = q[i] /\ s \in DOMAIN T
      BY <2>3, <1>1, <1>4
    <3>2. T[s].ts \in Int /\ q[i].ts \in Int /\ ev.ts \in Int
      BY <3>1, <1>1, <1>2, <2>3, EventType
    <3>3. CASE Supersedes(ev, T[s])
      <4>1. R[s].ts = ev.ts /\ Kind(R[s]) = Kind(ev)
        BY <3>1, <3>3, <1>3 DEF Shows
      <4>2. Supersedes(q[i], T[s])
        BY <4>1, <3>1, <3>2, <3>3, <2>3, <1>8, SupersedesKind
      <4>3. q[i].ts = T[s].ts /\ Kind(q[i]) = Kind(T[s])
        BY <4>2, <2>3 DEF TableInv
      <4>4. q[i].ts = R[s].ts /\ Kind(q[i]) = Kind(R[s])
        BY <4>1, <4>3, <3>1, <3>2, <3>3, <2>3, <1>8, SupersedesKind
      <4>5. i <= n + 1 /\ b[n + 1].scan = s /\ Shows(R[s], b[n + 1])
        BY <3>1, <3>3, <1>1, <1>3, <2>3
      <4> QED BY <4>4, <4>5, <3>1, <2>3, <1>1
    <3>4. CASE ~Supersedes(ev, T[s])
      <4>1. Shows(R[s], T[s]) /\ Kind(R[s]) = Kind(T[s])
        BY <3>1, <3>4, <1>3
      <4>2. Supersedes(q[i], T[s])
        BY <4>1, <3>1, <2>3, <1>8, SupersedesKind DEF Shows
      <4>3. /\ q[i].ts = T[s].ts /\ Kind(q[i]) = Kind(T[s])
            /\ \E w \in DOMAIN q : i <= w /\ q[w].scan = s /\ Shows(T[s], q[w])
        BY <4>2, <2>3 DEF TableInv
      <4>4. PICK w \in DOMAIN q : i <= w /\ q[w].scan = s /\ Shows(T[s], q[w])
        BY <4>3
      <4>5. b[w].scan = s /\ Shows(R[s], b[w]) /\ w \in DOMAIN b
        BY <4>1, <4>4, <1>1 DEF Shows
      <4> QED BY <4>1, <4>3, <4>4, <4>5, <3>1, <2>3 DEF Shows
    <3> QED BY <3>3, <3>4
  <2> QED BY <2>1, <2>2, <2>3, <1>1
<1> HIDE DEF s
<1> QED BY <1>5, <1>6, <1>7, <1>8 DEF TableInv, R, b

\* ListHistory's table describes the events it was made from.
LEMMA TableDescribes ==
  ASSUME NEW events \in Seq(Event)
  PROVE  TableInv(events, HistoryTable(events))
<1> DEFINE S == {n \in Nat : \A q \in Seq(Event) : Len(q) = n => TableInv(q, HistoryTable(q))}
<1>1. 0 \in S
  <2> SUFFICES ASSUME NEW q \in Seq(Event), Len(q) = 0 PROVE TableInv(q, HistoryTable(q))
    OBVIOUS
  <2>1. q = <<>>
    BY EmptySeq
  <2>2. DOMAIN <<>> = {}
    OBVIOUS
  <2>3. TableInv(<<>>, <<>>)
    BY <2>2 DEF TableInv
  <2> QED BY <2>1, <2>3, TableEmpty
<1>2. ASSUME NEW n \in S PROVE n + 1 \in S
  <2>1. n \in Nat
    OBVIOUS
  <2>2. SUFFICES ASSUME NEW q \in Seq(Event), Len(q) = n + 1 PROVE TableInv(q, HistoryTable(q))
    BY <2>1
  <2> DEFINE p == SubSeq(q, 1, n)
  <2>3. p \in Seq(Event) /\ Len(p) = n /\ q[n + 1] \in Event /\ q = Append(p, q[n + 1])
    BY <2>1, <2>2
  <2>4. TableInv(p, HistoryTable(p))
    BY <2>3
  <2> HIDE DEF p
  <2> QED BY <2>3, <2>4, TableAppend, TableInvStep
<1> HIDE DEF S
<1>3. S = Nat
  <2>1. S \subseteq Nat
    BY DEF S
  <2> QED BY <2>1, <1>1, <1>2, Induction
<1>4. Len(events) \in S
  BY <1>3
<1> QED BY <1>4 DEF S

-----------------------------------------------------------------------------

\* The record of NewFleetModel.
FleetFields ==
  {"scans", "activeOnly", "quit", "cursor", "sortCol", "sortRev", "sortExplicit", "filter",
   "filtering", "input", "filterErr", "view", "detail", "height"}

\* Rows under their own scan.
IsTable(T) == \A s \in DOMAIN T : T[s] \in Event /\ T[s].scan = s

\* The types of the variables.
TypeInv ==
  /\ stream \in Seq(Event) /\ sending \in Seq(Event)
  /\ config \in Config
  /\ from \in Nat /\ next \in Nat /\ from <= next /\ next <= Len(stream)
  /\ DOMAIN model = FleetFields
  /\ IsTable(model.scans)

\* Where the events begin that the dashboard was meant to show.
Origin == IF seeded THEN 0 ELSE from
\* What `harporis history` would say of them at position k.
TableAt(k) == HistoryTable(SubSeq(stream, Origin + 1, k))

\* What FleetAgrees asks of a row in any case.
Same(row, old) ==
  /\ row.ts = old.ts /\ row.metrics = old.metrics
  /\ Kind(row) = Kind(old)

\* The pump has sent nothing.
NotStarted ==
  /\ pump = "off" => from = 0
  /\ next = from /\ sending = <<>> /\ ~seeded /\ again = {}
  /\ DOMAIN model.scans = {} /\ evicted = {}

\* The seed is being sent: it was read when the stream had L events.
Seeding(L) ==
  LET T == TableAt(L) IN
  /\ seeded /\ next = from /\ again = {}
  /\ \A i \in DOMAIN sending :
       /\ sending[i].scan \in DOMAIN T \ (DOMAIN model.scans \cup evicted)
       /\ sending[i] = T[sending[i].scan]
  /\ \A i, j \in DOMAIN sending : i # j => sending[i].scan # sending[j].scan
  /\ DOMAIN T = DOMAIN model.scans \cup evicted \cup {sending[i].scan : i \in DOMAIN sending}
  /\ \A s \in DOMAIN model.scans \ evicted : model.scans[s] = T[s]

\* What is to be sent are the events behind p, or one that came before.
Sends(p) ==
  \/ sending = SubSeq(stream, p + 1, next)
  \/ p = next /\ \E i \in (from + 1)..next : sending = <<stream[i]>> /\ again = {stream[i].scan}

\* The events up to p were sent after a seed of L events: a row may still show less than the
\* history says, if the seed has counted an event that is yet to come and says so.
Streaming(L, p) ==
  LET T == TableAt(Larger(L, p)) IN
  /\ ~seeded => L = from
  /\ Sends(p)
  /\ DOMAIN T = DOMAIN model.scans \cup evicted
  /\ \A s \in DOMAIN model.scans \ evicted :
       /\ Same(model.scans[s], T[s])
       /\ \/ Shows(model.scans[s], T[s])
          \/ s \in again /\ Ambiguous(s)
          \/ \E w \in (p + 1)..L : stream[w].scan = s /\ Shows(T[s], stream[w])

\* The invariant of the pump and the table.
FleetInv ==
  /\ pump \in {"off", "seed", "tail", "gone"}
  /\ pump \in {"off", "seed"} => NotStarted
  /\ pump = "tail" =>
       \/ \E L \in from..Len(stream) : Seeding(L)
       \/ \E L \in from..Len(stream), p \in from..next : Streaming(L, p)

-----------------------------------------------------------------------------
(* What Update leaves alone.                                               *)

\* clampCursor leaves the rows alone.
LEMMA ClampModel ==
  ASSUME NEW m, DOMAIN m = FleetFields
  PROVE  DOMAIN ClampCursor(m) = FleetFields /\ ClampCursor(m).scans = m.scans
BY DEF ClampCursor, FleetFields

\* So does the filter line.
LEMMA FilterKeyModel ==
  ASSUME NEW m, NEW k, DOMAIN m = FleetFields
  PROVE  DOMAIN FleetFilterKey(m, k) = FleetFields /\ FleetFilterKey(m, k).scans = m.scans
<1> DEFINE typed == [m EXCEPT !.filter = ParseFilter(m.input), !.filtering = FALSE,
                              !.filterErr = FALSE]
<1>1. DOMAIN typed = FleetFields /\ typed.scans = m.scans
  BY DEF FleetFields
<1>2. DOMAIN ClampCursor(typed) = FleetFields /\ ClampCursor(typed).scans = m.scans
  BY <1>1, ClampModel
<1> QED BY <1>2 DEF FleetFilterKey, FleetFields

\* So do the keys of the list.
LEMMA ListKeyModel ==
  ASSUME NEW m, NEW k, DOMAIN m = FleetFields
  PROVE  DOMAIN ListKey(m, k) = FleetFields /\ ListKey(m, k).scans = m.scans
<1> DEFINE f == [m EXCEPT !.activeOnly = ~@]
           s == [m EXCEPT !.sortExplicit = TRUE,
                          !.sortCol = IF m.sortExplicit THEN NextColumn(Columns, @) ELSE "scan"]
<1>1. /\ DOMAIN f = FleetFields /\ f.scans = m.scans
      /\ DOMAIN s = FleetFields /\ s.scans = m.scans
  BY DEF FleetFields
<1>2. /\ DOMAIN ClampCursor(f) = FleetFields /\ ClampCursor(f).scans = m.scans
      /\ DOMAIN ClampCursor(s) = FleetFields /\ ClampCursor(s).scans = m.scans
  BY <1>1, ClampModel
<1>3. DOMAIN OpenPanel(m) = FleetFields /\ OpenPanel(m).scans = m.scans
  BY DEF OpenPanel, FleetFields
<1> QED BY <1>2, <1>3 DEF ListKey, FleetFields

\* So do the keys of the panel.
LEMMA DetailKeyModel ==
  ASSUME NEW m, NEW k, DOMAIN m = FleetFields
  PROVE  DOMAIN DetailKey(m, k) = FleetFields /\ DetailKey(m, k).scans = m.scans
<1>1. DOMAIN ClosePanel(m) = FleetFields /\ ClosePanel(m).scans = m.scans
  BY DEF ClosePanel, FleetFields
<1>2. DOMAIN FindingsTabKey(m, k) = FleetFields /\ FindingsTabKey(m, k).scans = m.scans
  BY <1>1 DEF FindingsTabKey, FleetFields
<1>3. DOMAIN StatusTabKey(m, k) = FleetFields /\ StatusTabKey(m, k).scans = m.scans
  BY <1>1 DEF StatusTabKey, FleetFields
<1>4. DOMAIN SwitchTab(m) = FleetFields /\ SwitchTab(m).scans = m.scans
  BY DEF SwitchTab, FleetFields
<1> QED BY <1>2, <1>3, <1>4 DEF DetailKey, FleetFields

\* No key changes a row.
LEMMA KeyModel ==
  ASSUME NEW m, NEW k, DOMAIN m = FleetFields
  PROVE  DOMAIN UpdateKey(m, k) = FleetFields /\ UpdateKey(m, k).scans = m.scans
BY FilterKeyModel, ListKeyModel, DetailKeyModel DEF UpdateKey

\* Nor does the result of a load.
LEMMA LoadModel ==
  ASSUME NEW m, NEW scan, NEW result, DOMAIN m = FleetFields
  PROVE  /\ DOMAIN ShowLoadedHistory(m, scan, result) = FleetFields
         /\ ShowLoadedHistory(m, scan, result).scans = m.scans
         /\ DOMAIN ShowLoadedFindings(m, scan, result) = FleetFields
         /\ ShowLoadedFindings(m, scan, result).scans = m.scans
BY DEF ShowLoadedHistory, ShowLoadedFindings, FleetFields

\* Update's table grows as ListHistory's does.
LEMMA GrownIsTabled ==
  ASSUME NEW scans, NEW ev
  PROVE  [s \in DOMAIN scans \cup {ev.scan} |->
            IF s = ev.scan THEN Snapshot(scans, ev) ELSE scans[s]] = Tabled(scans, ev)
BY DEF Tabled, Snapshot, Displays, Supersedes

\* What is left of the table after an eviction.
LEMMA FoldModel ==
  ASSUME NEW m, NEW ev, NEW n \in FoldEvent(m, ev), DOMAIN m = FleetFields
  PROVE  /\ DOMAIN n = FleetFields
         /\ DOMAIN n.scans \subseteq DOMAIN m.scans \cup {ev.scan}
         /\ \A s \in DOMAIN n.scans : n.scans[s] = Tabled(m.scans, ev)[s]
<1> DEFINE grown == [s \in DOMAIN m.scans \cup {ev.scan} |->
                       IF s = ev.scan THEN Snapshot(m.scans, ev) ELSE m.scans[s]]
           maps == IF ev.scan \in DOMAIN m.scans THEN {grown} ELSE EvictIfOver(grown)
<1>1. PICK scans \in maps : n = [m EXCEPT !.scans = scans, !.detail = DetailAfter(m, ev)]
  BY DEF FoldEvent
<1>2. DOMAIN n = FleetFields /\ n.scans = scans
  <2> HIDE DEF maps
  <2> QED BY <1>1 DEF FleetFields
<1>3. grown = Tabled(m.scans, ev)
  BY GrownIsTabled
<1>4. DOMAIN grown = DOMAIN m.scans \cup {ev.scan}
  OBVIOUS
<1> HIDE DEF grown
<1>5. DOMAIN scans \subseteq DOMAIN grown /\ \A s \in DOMAIN scans : scans[s] = grown[s]
  BY <1>1 DEF EvictIfOver
<1> QED BY <1>2, <1>3, <1>4, <1>5

-----------------------------------------------------------------------------
(* Steps that leave the pump and the table alone.                          *)

\* What these steps keep.
Quiet ==
  /\ UNCHANGED <<config, stream, pump, next, sending, from, seeded, again, evicted>>
  /\ DOMAIN model' = FleetFields /\ model'.scans = model.scans

\* The operator, the loads and the waiters are quiet.
LEMMA QuietSteps ==
  ASSUME DOMAIN model = FleetFields,
         Key \/ Resize \/ LoadReads \/ LoadArrives \/ Waiting \/ UNCHANGED vars
  PROVE  Quiet
<1>1. CASE Key
  <2>1. PICK k : model' = UpdateKey(model, k)
    BY <1>1 DEF Key
  <2> QED BY <1>1, <2>1, KeyModel DEF Key, panelSame, Quiet
<1>2. CASE Resize
  <2>1. PICK h : model' = [model EXCEPT !.height = h]
    BY <1>2 DEF Resize
  <2> QED BY <1>2, <2>1 DEF Resize, panelSame, Quiet, FleetFields
<1>3. CASE LoadReads
  BY <1>3 DEF LoadReads, panelSame, Quiet
<1>4. CASE LoadArrives
  <2>1. PICK scan, result : \/ model' = ShowLoadedHistory(model, scan, result)
                            \/ model' = ShowLoadedFindings(model, scan, result)
    BY <1>4 DEF LoadArrives
  <2>2. DOMAIN model' = FleetFields /\ model'.scans = model.scans
    BY <2>1, LoadModel
  <2>3. UNCHANGED panelSame
    BY <1>4 DEF LoadArrives
  <2> QED BY <2>2, <2>3 DEF panelSame, Quiet
<1>5. CASE Waiting
  <2>1. fleetSame' = fleetSame
    BY <1>5 DEF Waiting
  <2>2. stream' = stream
    <3>1. CASE \E w \in Waiter : WaiterStep(w)
      BY <3>1 DEF WaiterStep, Submit, CommandFails, SubscribeStatus, Fetch, FetchNothing,
                  FetchFails, IdleTimeout, Interrupt, WatchUpdate, Quit, Cleanup, Probe,
                  CopyFile, CopyFails
    <3>2. CASE PublishReport \/ RemoveReport
      BY <3>2 DEF PublishReport, RemoveReport
    <3> QED BY <1>5, <3>1, <3>2, SMTT(30) DEF Waiting
  <2> QED BY <2>1, <2>2 DEF fleetSame, fleetVars, Quiet
<1>6. CASE UNCHANGED vars
  BY <1>6 DEF vars, fleetVars, Quiet
<1> QED BY <1>1, <1>2, <1>3, <1>4, <1>5, <1>6

\* A quiet step keeps the invariant.
LEMMA QuietKeeps ==
  ASSUME TypeInv, FleetInv, Quiet
  PROVE  TypeInv' /\ FleetInv'
<1>1. TypeInv'
  BY DEF TypeInv, Quiet, IsTable
<1>2. /\ config' = config /\ stream' = stream /\ pump' = pump /\ next' = next
      /\ sending' = sending /\ from' = from /\ seeded' = seeded /\ again' = again
      /\ evicted' = evicted /\ model'.scans = model.scans
  BY DEF Quiet
<1>3. \A k : TableAt(k)' = TableAt(k)
  BY <1>2 DEF TableAt, Origin
<1>4. \A s : Ambiguous(s)' = Ambiguous(s)
  BY <1>2 DEF Ambiguous
<1>5. \A L : Seeding(L)' = Seeding(L)
  BY <1>2, <1>3 DEF Seeding
<1>6. \A p : Sends(p)' = Sends(p)
  BY <1>2 DEF Sends
<1>7. \A L, p : Streaming(L, p)' = Streaming(L, p)
  BY <1>2, <1>3, <1>4, <1>6 DEF Streaming
<1>8. NotStarted' = NotStarted
  BY <1>2 DEF NotStarted
<1>9. FleetInv'
  BY <1>2, <1>5, <1>7, <1>8 DEF FleetInv
<1> QED BY <1>1, <1>9

-----------------------------------------------------------------------------
(* Steps of the pump.                                                      *)

\* The larger of two numbers.
LEMMA LargerNat ==
  ASSUME NEW a \in Nat, NEW b \in Nat
  PROVE  Larger(a, b) \in Nat /\ (a >= b => Larger(a, b) = a) /\ (a <= b => Larger(a, b) = b)
BY DEF Larger

\* What is published later changes no earlier part of the stream.
LEMMA PartOfAppend ==
  ASSUME NEW E, NEW q \in Seq(E), NEW e \in E, NEW m \in Nat, NEW k \in Nat, k <= Len(q)
  PROVE  SubSeq(Append(q, e), m + 1, k) = SubSeq(q, m + 1, k)
OBVIOUS

\* What ConfigType says of a configuration.
LEMMA ConfigScript ==
  ASSUME config \in Config
  PROVE  /\ config.script \in Seq(Event) /\ config.already \in 0..Len(config.script)
         /\ config.reports \in Seq(Report)
BY SessionAssumption DEF ConfigType

\* A publish.
LEMMA PublishKeeps ==
  ASSUME TypeInv, FleetInv, Publish
  PROVE  TypeInv' /\ FleetInv'
<1>1. /\ stream \in Seq(Event) /\ Len(stream) \in Nat /\ from \in Nat /\ next \in Nat
      /\ from <= next /\ next <= Len(stream)
  BY DEF TypeInv
<1>2. /\ config' = config /\ pump' = pump /\ next' = next
      /\ sending' = sending /\ from' = from /\ seeded' = seeded /\ again' = again
      /\ evicted' = evicted /\ model' = model
  BY DEF Publish, fleetVars
<1>3. PICK ev \in Event : stream' = Append(stream, ev)
  <2>1. config.script \in Seq(Event)
    BY ConfigScript DEF TypeInv
  <2>2. Len(stream) + 1 \in 1..Len(config.script)
    BY <1>1, <2>1 DEF Publish
  <2>3. config.script[Len(stream) + 1] \in Event
    BY <2>1, <2>2
  <2> QED BY <2>3 DEF Publish
<1>4. /\ stream' \in Seq(Event) /\ Len(stream') = Len(stream) + 1
      /\ \A i \in 1..Len(stream) : stream'[i] = stream[i]
      /\ DOMAIN stream = 1..Len(stream) /\ DOMAIN stream' = 1..Len(stream')
  BY <1>1, <1>3
<1>5. \A m, k \in Nat : k <= Len(stream) => SubSeq(stream', m + 1, k) = SubSeq(stream, m + 1, k)
  BY <1>1, <1>3, PartOfAppend
<1>6. Origin' = Origin /\ Origin \in Nat
  BY <1>1, <1>2 DEF Origin
<1>7. \A k \in Nat : k <= Len(stream) => TableAt(k)' = TableAt(k)
  BY <1>5, <1>6 DEF TableAt
<1>8. \A s : Ambiguous(s) => Ambiguous(s)'
  BY <1>1, <1>4 DEF Ambiguous
<1>9. TypeInv'
  BY <1>1, <1>2, <1>4 DEF TypeInv, IsTable
<1>10. ASSUME NEW L \in from..Len(stream), Seeding(L) PROVE Seeding(L)'
  <2>1. TableAt(L)' = TableAt(L)
    BY <1>1, <1>7
  <2> QED BY <2>1, <1>2, <1>10 DEF Seeding
<1>11. ASSUME NEW p \in from..next, Sends(p) PROVE Sends(p)'
  <2>1. SubSeq(stream', p + 1, next) = SubSeq(stream, p + 1, next)
    BY <1>1, <1>5
  <2>2. \A i \in (from + 1)..next : stream'[i] = stream[i]
    BY <1>1, <1>4
  <2> QED BY <2>1, <2>2, <1>2, <1>11 DEF Sends
<1>12. ASSUME NEW L \in from..Len(stream), NEW p \in from..next, Streaming(L, p)
       PROVE  Streaming(L, p)'
  <2>1. TableAt(Larger(L, p))' = TableAt(Larger(L, p))
    BY <1>1, <1>7 DEF Larger
  <2>2. Sends(p)'
    BY <1>11, <1>12 DEF Streaming
  <2>3. \A w \in (p + 1)..L : stream'[w] = stream[w]
    BY <1>1, <1>4
  <2> QED BY <2>1, <2>2, <2>3, <1>2, <1>8, <1>12 DEF Streaming
<1>13. from..Len(stream) \subseteq from..Len(stream')
  BY <1>1, <1>4
<1>14. NotStarted' = NotStarted
  BY <1>2 DEF NotStarted
<1>15. FleetInv'
  BY <1>2, <1>10, <1>12, <1>13, <1>14 DEF FleetInv
<1> QED BY <1>9, <1>15

\* With nothing to send the pump is at the end of what its consumer delivered.
LEMMA Rested ==
  ASSUME TypeInv, FleetInv, pump = "tail", sending = <<>>
  PROVE  \E L \in from..Len(stream) : Streaming(L, next)
<1>1. /\ stream \in Seq(Event) /\ Len(stream) \in Nat /\ from \in Nat /\ next \in Nat
      /\ from <= next /\ next <= Len(stream)
  BY DEF TypeInv
<1>2. ASSUME NEW L \in from..Len(stream), Seeding(L) PROVE Streaming(L, next)
  <2>1. Larger(L, next) = L
    BY <1>1, <1>2, LargerNat DEF Seeding
  <2>2. sending = SubSeq(stream, next + 1, next)
    BY <1>1
  <2>3. DOMAIN sending = {}
    OBVIOUS
  <2>4. DOMAIN TableAt(L) = DOMAIN model.scans \cup evicted
    <3>1. {sending[i].scan : i \in DOMAIN sending} = {}
      BY <2>3
    <3> QED BY <1>2, <3>1 DEF Seeding
  <2>5. \A s \in DOMAIN model.scans \ evicted : model.scans[s] = TableAt(L)[s]
    BY <1>2 DEF Seeding
  <2>6. seeded
    BY <1>2 DEF Seeding
  <2> QED BY <2>1, <2>2, <2>4, <2>5, <2>6 DEF Streaming, Sends, Same, Shows
<1>3. ASSUME NEW L \in from..Len(stream), NEW p \in from..next, Streaming(L, p)
      PROVE  p = next
  <2>1. CASE sending = SubSeq(stream, p + 1, next)
    <3>1. Len(SubSeq(stream, p + 1, next)) = next - p
      BY <1>1
    <3> QED BY <2>1, <3>1, <1>1
  <2>2. CASE \E i \in (from + 1)..next : sending = <<stream[i]>>
    BY <2>2
  <2> QED BY <1>3, <2>1, <2>2 DEF Streaming, Sends
<1> QED BY <1>2, <1>3 DEF FleetInv

\* The subscription.
LEMMA SubscribeKeeps ==
  ASSUME TypeInv, FleetInv, SubscribeStatusAll
  PROVE  TypeInv' /\ FleetInv'
<1>1. /\ pump' = "seed" /\ next' = Len(stream) /\ from' = Len(stream) /\ config' = config
      /\ stream' = stream /\ sending' = sending /\ model' = model /\ seeded' = seeded
      /\ again' = again /\ evicted' = evicted /\ pump = "off"
  BY DEF SubscribeStatusAll, pumpSame
<1>2. TypeInv'
  BY <1>1 DEF TypeInv, IsTable
<1>3. FleetInv'
  BY <1>1 DEF FleetInv, NotStarted
<1> QED BY <1>2, <1>3

\* A seed that fails.
LEMMA SeedFailsKeeps ==
  ASSUME TypeInv, FleetInv, SeedFails
  PROVE  TypeInv' /\ FleetInv'
<1>1. /\ pump' = "tail" /\ next' = next /\ from' = from /\ config' = config
      /\ stream' = stream /\ sending' = sending /\ model' = model /\ seeded' = seeded
      /\ again' = again /\ evicted' = evicted /\ pump = "seed"
  BY DEF SeedFails, pumpSame
<1>2. TypeInv'
  BY <1>1 DEF TypeInv, IsTable
<1>3. NotStarted /\ stream \in Seq(Event) /\ from \in Nat /\ from <= Len(stream)
  BY <1>1 DEF FleetInv, TypeInv
<1>4. SubSeq(stream, from + 1, from) = <<>>
  BY <1>3
<1>5. Larger(from, from) = from
  BY DEF Larger
<1>6. DOMAIN HistoryTable(<<>>) = {}
  <2>1. DOMAIN <<>> = {}
    OBVIOUS
  <2> QED BY <2>1, TableEmpty
<1>7. DOMAIN TableAt(from)' = {}
  BY <1>1, <1>3, <1>4, <1>6 DEF TableAt, Origin, NotStarted
<1>8. Streaming(from, from)'
  <2>1. sending' = SubSeq(stream', from' + 1, next')
    BY <1>1, <1>3, <1>4 DEF NotStarted
  <2>2. DOMAIN model'.scans = {} /\ evicted' = {}
    BY <1>1, <1>3 DEF NotStarted
  <2> QED BY <2>1, <2>2, <1>1, <1>5, <1>7 DEF Streaming, Sends
<1>9. from' \in from'..Len(stream') /\ from' \in from'..next'
  BY <1>1, <1>3 DEF TypeInv
<1>10. FleetInv'
  BY <1>1, <1>8, <1>9 DEF FleetInv
<1> QED BY <1>2, <1>10

\* A fetched batch.
LEMMA TailBatchKeeps ==
  ASSUME TypeInv, FleetInv, TailBatch
  PROVE  TypeInv' /\ FleetInv'
<1>1. /\ pump' = "tail" /\ from' = from /\ config' = config
      /\ stream' = stream /\ model' = model /\ seeded' = seeded
      /\ again' = again /\ evicted' = evicted /\ pump = "tail" /\ sending = <<>>
  BY DEF TailBatch, pumpSame
<1>2. PICK n \in 1..FetchBatch :
        /\ next + n <= Len(stream) /\ sending' = SubSeq(stream, next + 1, next + n)
        /\ next' = next + n
  BY DEF TailBatch
<1>3. /\ stream \in Seq(Event) /\ Len(stream) \in Nat /\ from \in Nat /\ next \in Nat
      /\ from <= next /\ n \in Nat
  BY DEF TypeInv
<1>4. sending' \in Seq(Event)
  BY <1>2, <1>3
<1>5. TypeInv'
  BY <1>1, <1>2, <1>3, <1>4 DEF TypeInv, IsTable
<1>6. PICK L \in from..Len(stream) : Streaming(L, next)
  BY <1>1, Rested
<1>7. \A k : TableAt(k)' = TableAt(k)
  BY <1>1 DEF TableAt, Origin
<1>8. \A s : Ambiguous(s)' = Ambiguous(s)
  BY <1>1 DEF Ambiguous
<1>9. \A p \in Nat : sending' = SubSeq(stream', p + 1, next') => Sends(p)'
  BY DEF Sends
<1>10. \E p \in from'..next' : Streaming(L, p)'
  <2>1. next \in from'..next'
    BY <1>1, <1>2, <1>3
  <2>2. sending' = SubSeq(stream', next + 1, next')
    BY <1>1, <1>2
  <2>3. \A p \in Nat : p = next => Streaming(L, p)'
    BY <1>1, <1>6, <1>7, <1>8, <1>9, <2>2 DEF Streaming
  <2> QED BY <2>1, <2>3, <1>3
<1>11. FleetInv'
  BY <1>1, <1>6, <1>10 DEF FleetInv
<1> QED BY <1>5, <1>11

\* An event that comes again.
LEMMA RedeliverKeeps ==
  ASSUME TypeInv, FleetInv, Redeliver
  PROVE  TypeInv' /\ FleetInv'
<1>1. /\ pump' = "tail" /\ from' = from /\ config' = config /\ next' = next
      /\ stream' = stream /\ model' = model /\ seeded' = seeded
      /\ again = {} /\ evicted' = evicted /\ pump = "tail" /\ sending = <<>>
  BY DEF Redeliver, pumpSame
<1>2. PICK i \in (from + 1)..next : sending' = <<stream[i]>> /\ again' = {stream[i].scan}
  BY DEF Redeliver
<1>3. /\ stream \in Seq(Event) /\ Len(stream) \in Nat /\ from \in Nat /\ next \in Nat
      /\ from <= next /\ next <= Len(stream)
  BY DEF TypeInv
<1>4. sending' \in Seq(Event)
  BY <1>2, <1>3
<1>5. TypeInv'
  BY <1>1, <1>3, <1>4 DEF TypeInv, IsTable
<1>6. PICK L \in from..Len(stream) : Streaming(L, next)
  BY <1>1, Rested
<1>7. \A k : TableAt(k)' = TableAt(k)
  BY <1>1 DEF TableAt, Origin
<1>8. Sends(next)'
  BY <1>1, <1>2 DEF Sends
<1>9. Streaming(L, next)'
  BY <1>1, <1>6, <1>7, <1>8 DEF Streaming
<1>10. next' \in from'..next'
  BY <1>1, <1>3
<1>11. FleetInv'
  BY <1>1, <1>6, <1>9, <1>10 DEF FleetInv
<1> QED BY <1>5, <1>11

\* A fetch that fails.
LEMMA TailFailsKeeps ==
  ASSUME TypeInv, FleetInv, TailFails
  PROVE  TypeInv' /\ FleetInv'
<1>1. /\ pump' = "gone" /\ from' = from /\ config' = config /\ next' = next
      /\ stream' = stream /\ sending' = sending /\ model' = [model EXCEPT !.quit = TRUE]
  BY DEF TailFails, pumpSame
<1>2. DOMAIN model' = FleetFields /\ model'.scans = model.scans
  BY <1>1 DEF TypeInv, FleetFields
<1>3. TypeInv'
  BY <1>1, <1>2 DEF TypeInv, IsTable
<1> QED BY <1>1, <1>3 DEF FleetInv

-----------------------------------------------------------------------------
(* The seed.                                                               *)

\* A sequence of a finite set's elements, without repetitions, has them all.
LEMMA Listing ==
  ASSUME NEW S, IsFiniteSet(S), NEW f \in SetToSeqs(S)
  PROVE  /\ f \in Seq(S) /\ Len(f) = Cardinality(S) /\ DOMAIN f = 1..Cardinality(S)
         /\ \A i, j \in DOMAIN f : i # j => f[i] # f[j]
         /\ \A x \in S : \E i \in DOMAIN f : f[i] = x
<1> DEFINE n == Cardinality(S)
<1>1. n \in Nat
  BY FS_CardinalityType
<1>2. f \in [1..n -> S] /\ \A i, j \in 1..n : i # j => f[i] # f[j]
  BY DEF SetToSeqs
<1> HIDE DEF n
<1>3. f \in Seq(S) /\ Len(f) = n /\ DOMAIN f = 1..n
  BY <1>1, <1>2
<1>4. IsFiniteSet(1..n) /\ Cardinality(1..n) = n
  BY <1>1, FS_Interval
<1>5. f \in Injection(1..n, S)
  BY <1>2 DEF Injection, IsInjective
<1>6. f \in Surjection(1..n, S)
  BY <1>4, <1>5, FS_Injection DEF n
<1>7. \A x \in S : \E i \in 1..n : f[i] = x
  BY <1>6 DEF Surjection
<1> QED BY <1>2, <1>3, <1>7 DEF n

\* A history has finitely many rows.
LEMMA HistoryIsFinite ==
  ASSUME NEW events \in Seq(Event)
  PROVE  IsFiniteSet(HistoryRows(events))
<1> DEFINE T == HistoryTable(events)
           D == DOMAIN events
           f == [i \in D |-> T[events[i].scan]]
<1>1. D = 1..Len(events) /\ Len(events) \in Nat
  OBVIOUS
<1>2. IsFiniteSet(D)
  BY <1>1, FS_Interval
<1>3. DOMAIN T = {events[i].scan : i \in D}
  BY TableDescribes DEF TableInv
<1> HIDE DEF T, D
<1>4. f \in Surjection(D, {T[s] : s \in DOMAIN T})
  BY <1>3 DEF Surjection
<1> HIDE DEF f
<1>5. IsFiniteSet({T[s] : s \in DOMAIN T})
  BY <1>2, <1>4, FS_Surjection
<1> QED BY <1>5 DEF HistoryRows, T

\* The seed has every row of the history once.
LEMMA SeedRows ==
  ASSUME NEW events \in Seq(Event), NEW rows \in ListHistory(events, 0)
  PROVE  LET T == HistoryTable(events)
         IN  /\ rows \in Seq(Event)
             /\ \A i \in DOMAIN rows : rows[i].scan \in DOMAIN T /\ rows[i] = T[rows[i].scan]
             /\ \A i, j \in DOMAIN rows : i # j => rows[i].scan # rows[j].scan
             /\ DOMAIN T = {rows[i].scan : i \in DOMAIN rows}
<1> DEFINE T == HistoryTable(events)
           S == {T[s] : s \in DOMAIN T}
<1>1. \A s \in DOMAIN T : T[s] \in Event /\ T[s].scan = s
  BY TableDescribes DEF TableInv
<1>2. S = HistoryRows(events)
  BY DEF HistoryRows
<1>3. rows \in SetToSeqs(S)
  <2>1. ~(0 > 0)
    OBVIOUS
  <2> QED BY <1>2, <2>1 DEF ListHistory
<1>4. IsFiniteSet(S)
  BY <1>2, HistoryIsFinite
<1>5. /\ rows \in Seq(S)
      /\ \A i, j \in DOMAIN rows : i # j => rows[i] # rows[j]
      /\ \A x \in S : \E i \in DOMAIN rows : rows[i] = x
  <2> HIDE DEF S
  <2> QED BY <1>3, <1>4, Listing
<1> HIDE DEF T
<1>6. S \subseteq Event
  BY <1>1
<1>7. rows \in Seq(Event)
  BY <1>5, <1>6
<1>8. \A i \in DOMAIN rows : rows[i] \in S
  <2> HIDE DEF S
  <2> QED BY <1>5
<1>9. \A i \in DOMAIN rows : rows[i].scan \in DOMAIN T /\ rows[i] = T[rows[i].scan]
  BY <1>1, <1>8
<1>10. \A i, j \in DOMAIN rows : i # j => rows[i].scan # rows[j].scan
  BY <1>5, <1>9
<1>11. DOMAIN T = {rows[i].scan : i \in DOMAIN rows}
  <2>1. ASSUME NEW s \in DOMAIN T PROVE \E i \in DOMAIN rows : rows[i].scan = s
    BY <1>1, <1>5
  <2> QED BY <1>9, <2>1
<1> QED BY <1>7, <1>9, <1>10, <1>11 DEF T

\* The seed.
LEMMA SeedKeeps ==
  ASSUME TypeInv, FleetInv, Seed
  PROVE  TypeInv' /\ FleetInv'
<1>1. /\ pump' = "tail" /\ next' = next /\ from' = from /\ config' = config
      /\ stream' = stream /\ sending' \in ListHistory(stream, 0) /\ model' = model /\ seeded'
      /\ again' = again /\ evicted' = evicted /\ pump = "seed"
  BY DEF Seed, pumpSame
<1>2. NotStarted /\ stream \in Seq(Event) /\ from \in Nat /\ from <= Len(stream)
  BY <1>1 DEF FleetInv, TypeInv
<1> DEFINE T == HistoryTable(stream)
           L == Len(stream)
<1>3. /\ sending' \in Seq(Event)
      /\ \A i \in DOMAIN sending' :
           sending'[i].scan \in DOMAIN T /\ sending'[i] = T[sending'[i].scan]
      /\ \A i, j \in DOMAIN sending' : i # j => sending'[i].scan # sending'[j].scan
      /\ DOMAIN T = {sending'[i].scan : i \in DOMAIN sending'}
  BY <1>1, <1>2, SeedRows
<1>4. TypeInv'
  BY <1>1, <1>3 DEF TypeInv, IsTable
<1>5. TableAt(L)' = T
  <2>1. SubSeq(stream, 1, L) = stream
    BY <1>2
  <2>2. Origin' + 1 = 1
    BY <1>1 DEF Origin
  <2>3. SubSeq(stream', Origin' + 1, L') = stream
    BY <1>1, <2>1, <2>2
  <2> HIDE DEF L
  <2> QED BY <2>3 DEF TableAt
<1>6. DOMAIN model'.scans = {} /\ evicted' = {} /\ again' = {} /\ next' = from'
  BY <1>1, <1>2 DEF NotStarted
<1> HIDE DEF T
<1>7. Seeding(L)'
  BY <1>1, <1>3, <1>5, <1>6 DEF Seeding
<1>8. L \in from'..Len(stream)'
  BY <1>1, <1>2
<1>9. FleetInv'
  BY <1>1, <1>7, <1>8 DEF FleetInv
<1> QED BY <1>4, <1>9

-----------------------------------------------------------------------------
(* An event is shown.                                                      *)

\* What a row becomes with an event its table has counted: the table's row, or that event.
LEMMA CountedAgain ==
  ASSUME NEW q \in Seq(Event), NEW T, TableInv(q, T), NEW i \in DOMAIN q,
         NEW scans, NEW R, IsTable(scans), Follows(scans, q[i], R), q[i].scan \in DOMAIN scans,
         Same(scans[q[i].scan], T[q[i].scan])
  PROVE  LET s == q[i].scan IN
         /\ Same(R[s], T[s])
         /\ Supersedes(q[i], scans[s]) =>
              /\ Shows(R[s], q[i]) /\ q[i].ts = T[s].ts /\ Kind(q[i]) = Kind(T[s])
              /\ \E w \in DOMAIN q : i <= w /\ q[w].scan = s /\ Shows(T[s], q[w])
         /\ ~Supersedes(q[i], scans[s]) => Shows(R[s], scans[s]) /\ ~Shows(T[s], q[i])
<1> DEFINE ev == q[i]
           s == ev.scan
           x == scans[s]
<1> USE KindType
<1>1. ev \in Event /\ s \in DOMAIN T /\ T[s] \in Event /\ x \in Event
  BY DEF TableInv, IsTable
<1>2. x.ts = T[s].ts /\ x.metrics = T[s].metrics /\ Kind(x) = Kind(T[s])
  BY DEF Same
<1>3. R[s].metrics = T[s].metrics
  <2>1. R[s].metrics = Merge(x.metrics, ev.metrics)
    BY DEF Follows
  <2>2. Merge(T[s].metrics, ev.metrics) = T[s].metrics
    BY DEF TableInv
  <2> QED BY <1>2, <2>1, <2>2
<1>4. ev.ts \in Int /\ T[s].ts \in Int
  BY <1>1, EventType
<1>5. CASE Supersedes(ev, x)
  <2>1. Shows(R[s], ev) /\ Kind(R[s]) = Kind(ev)
    BY <1>5 DEF Follows
  <2>2. Supersedes(ev, T[s])
    BY <1>2, <1>5, SupersedesKind
  <2>3. /\ ev.ts = T[s].ts /\ Kind(ev) = Kind(T[s])
        /\ \E w \in DOMAIN q : i <= w /\ q[w].scan = s /\ Shows(T[s], q[w])
    BY <2>2 DEF TableInv
  <2> QED BY <1>3, <1>5, <2>1, <2>3 DEF Same, Shows
<1>6. CASE ~Supersedes(ev, x)
  <2>1. Shows(R[s], x) /\ Kind(R[s]) = Kind(x)
    BY <1>6 DEF Follows
  <2>2. ASSUME Shows(T[s], ev) PROVE FALSE
    <3>1. Kind(ev) = Kind(x) /\ ev.ts = x.ts
      BY <1>2, <2>2 DEF Shows, Kind
    <3> QED BY <1>2, <1>4, <1>6, <3>1, SupersedesKind
  <2> QED BY <1>2, <1>3, <1>6, <2>1, <2>2 DEF Same, Shows
<1> QED BY <1>5, <1>6

\* What a row and the table's row become with an event that is new to both.
LEMMA CountedFirst ==
  ASSUME NEW T, NEW ev \in Event, NEW scans, NEW R, NEW U, IsTable(scans), IsTable(T),
         Follows(scans, ev, R), Follows(T, ev, U),
         ev.scan \in DOMAIN scans, ev.scan \in DOMAIN T,
         Same(scans[ev.scan], T[ev.scan])
  PROVE  LET s == ev.scan IN
         /\ Same(R[s], U[s])
         /\ \/ Shows(R[s], U[s])
            \/ Shows(R[s], scans[s]) /\ Shows(U[s], T[s])
<1> DEFINE s == ev.scan
           x == scans[s]
<1> USE KindType
<1>1. x.ts = T[s].ts /\ x.metrics = T[s].metrics /\ Kind(x) = Kind(T[s])
  BY DEF Same
<1>2. R[s].metrics = U[s].metrics
  BY <1>1 DEF Follows
<1>3. Supersedes(ev, x) = Supersedes(ev, T[s])
  BY <1>1, SupersedesKind DEF Supersedes
<1>4. CASE Supersedes(ev, x)
  <2>1. Shows(R[s], ev) /\ Kind(R[s]) = Kind(ev) /\ Shows(U[s], ev) /\ Kind(U[s]) = Kind(ev)
    BY <1>3, <1>4 DEF Follows
  <2> QED BY <1>2, <2>1 DEF Same, Shows
<1>5. CASE ~Supersedes(ev, x)
  <2>1. Shows(R[s], x) /\ Kind(R[s]) = Kind(x) /\ Shows(U[s], T[s]) /\ Kind(U[s]) = Kind(T[s])
    BY <1>3, <1>5 DEF Follows
  <2> QED BY <1>1, <1>2, <2>1 DEF Same, Shows
<1> QED BY <1>4, <1>5

\* The table after the program has taken ev.
Took(ev) ==
  LET R == Tabled(model.scans, ev) IN
  /\ ev \in Event /\ ev = sending[1] /\ sending # <<>>
  /\ Follows(model.scans, ev, R)
  /\ DOMAIN model'.scans \cup evicted' = DOMAIN model.scans \cup evicted \cup {ev.scan}
  /\ \A s \in DOMAIN model'.scans \ evicted' :
       /\ s \notin evicted /\ s \in DOMAIN model.scans \cup {ev.scan}
       /\ model'.scans[s] = R[s]
  /\ sending' = Tail(sending)
  /\ UNCHANGED <<config, stream, pump, next, from, seeded, again>>

\* Update takes the event that is next.
LEMMA ReceiveTakes ==
  ASSUME TypeInv, Receive
  PROVE  TypeInv' /\ \E ev : Took(ev)
<1> DEFINE ev == Head(sending)
           R == Tabled(model.scans, ev)
<1>1. sending \in Seq(Event) /\ sending # <<>>
  BY DEF TypeInv, Receive
<1>2. ev \in Event /\ ev = sending[1] /\ Tail(sending) \in Seq(Event)
  BY <1>1
<1>3. /\ model' \in FoldEvent(model, ev)
      /\ evicted' = evicted \cup ((DOMAIN model.scans \cup {ev.scan}) \ DOMAIN model'.scans)
      /\ sending' = Tail(sending)
      /\ UNCHANGED <<config, stream, pump, next, from, seeded, again>>
  BY DEF Receive, pumpSame
<1>4. /\ DOMAIN model' = FleetFields
      /\ DOMAIN model'.scans \subseteq DOMAIN model.scans \cup {ev.scan}
      /\ \A s \in DOMAIN model'.scans : model'.scans[s] = R[s]
  BY <1>3, FoldModel DEF TypeInv
<1>5. Follows(model.scans, ev, R)
  BY <1>2, TabledRow DEF TypeInv, IsTable
<1> HIDE DEF R, ev
<1>6. IsTable(model'.scans)
  BY <1>4, <1>5 DEF IsTable, Follows, TypeInv
<1>7. TypeInv'
  BY <1>2, <1>3, <1>4, <1>6 DEF TypeInv
<1>8. /\ DOMAIN model'.scans \cup evicted' = DOMAIN model.scans \cup evicted \cup {ev.scan}
      /\ \A s \in DOMAIN model'.scans \ evicted' :
           /\ s \notin evicted /\ s \in DOMAIN model.scans \cup {ev.scan}
           /\ model'.scans[s] = R[s]
  BY <1>3, <1>4
<1>9. Took(ev)
  BY <1>1, <1>2, <1>3, <1>5, <1>8 DEF Took, R
<1> QED BY <1>7, <1>9

\* The table of a part of the stream describes it.
LEMMA TableAtDescribes ==
  ASSUME TypeInv, NEW k \in Nat, k <= Len(stream)
  PROVE  /\ TableInv(SubSeq(stream, Origin + 1, k), TableAt(k))
         /\ SubSeq(stream, Origin + 1, k) \in Seq(Event)
         /\ Origin \in Nat /\ Origin <= from
         /\ Origin <= k => Len(SubSeq(stream, Origin + 1, k)) = k - Origin
         /\ \A i \in 1..(k - Origin) : SubSeq(stream, Origin + 1, k)[i] = stream[Origin + i]
<1>1. stream \in Seq(Event) /\ Origin \in Nat /\ Origin <= from
  BY DEF TypeInv, Origin
<1>2. SubSeq(stream, Origin + 1, k) \in Seq(Event)
  BY <1>1
<1>3. TableInv(SubSeq(stream, Origin + 1, k), TableAt(k))
  BY <1>2, TableDescribes DEF TableAt
<1> QED BY <1>1, <1>2, <1>3

\* The table of one event more.
LEMMA TableAtNext ==
  ASSUME TypeInv, NEW p \in Nat, from <= p, p < Len(stream)
  PROVE  Follows(TableAt(p), stream[p + 1], TableAt(p + 1)) /\ stream[p + 1] \in Event
         /\ IsTable(TableAt(p))
<1> DEFINE q == SubSeq(stream, Origin + 1, p)
           e == stream[p + 1]
<1>1. /\ stream \in Seq(Event) /\ Origin \in Nat /\ Origin <= p
  BY DEF TypeInv, Origin
<1>2. q \in Seq(Event) /\ e \in Event /\ SubSeq(stream, Origin + 1, p + 1) = Append(q, e)
  BY <1>1
<1>3. TableInv(q, TableAt(p))
  BY <1>2, TableDescribes DEF TableAt
<1> HIDE DEF q, e
<1>4. TableAt(p + 1) = Tabled(TableAt(p), e)
  BY <1>2, TableAppend DEF TableAt, q
<1>5. IsTable(TableAt(p))
  BY <1>3 DEF TableInv, IsTable
<1>6. Follows(TableAt(p), e, TableAt(p + 1))
  BY <1>2, <1>4, <1>5, TabledRow DEF IsTable
<1> QED BY <1>2, <1>5, <1>6 DEF e

\* An event of the seed.
LEMMA SeedingTakes ==
  ASSUME TypeInv, NEW L \in from..Len(stream), Seeding(L), NEW ev, Took(ev)
  PROVE  Seeding(L)'
<1> DEFINE T == TableAt(L)
           n == Len(sending)
<1>1. /\ T' = T /\ seeded' = seeded /\ next' = next /\ from' = from /\ again' = again
  BY DEF Took, TableAt, Origin
<1>2. /\ sending \in Seq(Event) /\ n \in Nat \ {0} /\ DOMAIN sending = 1..n
      /\ DOMAIN sending' = 1..(n - 1) /\ \A i \in 1..(n - 1) : sending'[i] = sending[i + 1]
  BY EmptySeq DEF TypeInv, Took
<1> HIDE DEF T, n
<1>3. /\ seeded /\ next = from /\ again = {}
      /\ \A i \in 1..n :
           /\ sending[i].scan \in DOMAIN T \ (DOMAIN model.scans \cup evicted)
           /\ sending[i] = T[sending[i].scan]
      /\ \A i, j \in 1..n : i # j => sending[i].scan # sending[j].scan
      /\ DOMAIN T = DOMAIN model.scans \cup evicted \cup {sending[i].scan : i \in 1..n}
      /\ \A s \in DOMAIN model.scans \ evicted : model.scans[s] = T[s]
  BY <1>2 DEF Seeding, T
<1>4. /\ ev = sending[1] /\ ev.scan \notin DOMAIN model.scans
      /\ ev = T[ev.scan]
      /\ DOMAIN model'.scans \cup evicted' = DOMAIN model.scans \cup evicted \cup {ev.scan}
  BY <1>2, <1>3 DEF Took
<1>5. \A i \in 1..(n - 1) :
        /\ sending'[i].scan \in DOMAIN T \ (DOMAIN model'.scans \cup evicted')
        /\ sending'[i] = T[sending'[i].scan]
  <2> TAKE i \in 1..(n - 1)
  <2>1. i + 1 \in 1..n /\ 1 \in 1..n /\ i + 1 # 1 /\ sending'[i] = sending[i + 1]
    BY <1>2
  <2>2. sending[i + 1].scan # ev.scan
    BY <2>1, <1>3, <1>4
  <2> QED BY <2>1, <2>2, <1>3, <1>4
<1>6. \A i, j \in 1..(n - 1) : i # j => sending'[i].scan # sending'[j].scan
  <2> TAKE i, j \in 1..(n - 1)
  <2>1. i + 1 \in 1..n /\ j + 1 \in 1..n /\ (i # j => i + 1 # j + 1)
    BY <1>2
  <2> QED BY <1>2, <1>3, <2>1
<1>7. {sending[i].scan : i \in 1..n} = {ev.scan} \cup {sending'[i].scan : i \in 1..(n - 1)}
  <2>1. \A i \in 1..n : i = 1 \/ (i - 1 \in 1..(n - 1) /\ sending'[i - 1] = sending[i])
    BY <1>2
  <2>2. \A i \in 1..(n - 1) : i + 1 \in 1..n /\ sending'[i] = sending[i + 1]
    BY <1>2
  <2>3. 1 \in 1..n
    BY <1>2
  <2> QED BY <1>4, <2>1, <2>2, <2>3
<1>8. DOMAIN T = DOMAIN model'.scans \cup evicted' \cup {sending'[i].scan : i \in 1..(n - 1)}
  BY <1>3, <1>4, <1>7
<1>9. ASSUME NEW s \in DOMAIN model'.scans \ evicted' PROVE model'.scans[s] = T[s]
  <2>1. /\ s \notin evicted /\ s \in DOMAIN model.scans \cup {ev.scan}
        /\ model'.scans[s] = Tabled(model.scans, ev)[s]
    BY DEF Took
  <2>2. CASE s = ev.scan
    BY <2>1, <2>2, <1>4 DEF Took, Follows
  <2>3. CASE s # ev.scan
    BY <2>1, <2>3, <1>3 DEF Took, Follows
  <2> QED BY <2>2, <2>3
<1> QED BY <1>1, <1>2, <1>3, <1>5, <1>6, <1>8, <1>9 DEF Seeding, T

\* How a row of the dashboard compares with the table T, when the pump is at p.
Matches(T, s, row, p, L) ==
  /\ Same(row, T[s])
  /\ \/ Shows(row, T[s])
     \/ s \in again /\ Ambiguous(s)
     \/ \E w \in (p + 1)..L : stream[w].scan = s /\ Shows(T[s], stream[w])

\* The next event of the stream, which the seed has counted.
LEMMA ReplayTakes ==
  ASSUME TypeInv, NEW L \in from..Len(stream), NEW p \in from..next, p < L,
         Streaming(L, p), NEW ev, Took(ev), ev = stream[p + 1]
  PROVE  /\ DOMAIN TableAt(L) = DOMAIN model'.scans \cup evicted'
         /\ \A s \in DOMAIN model'.scans \ evicted' :
              Matches(TableAt(L), s, model'.scans[s], p + 1, L)
<1> DEFINE T == TableAt(L)
           q == SubSeq(stream, Origin + 1, L)
           i == p + 1 - Origin
           R == Tabled(model.scans, ev)
<1>1. /\ from \in Nat /\ L \in Nat /\ p \in Nat /\ from <= p /\ L <= Len(stream)
  BY DEF TypeInv
<1>2. Larger(L, p) = L
  BY <1>1, LargerNat
<1>3. /\ DOMAIN T = DOMAIN model.scans \cup evicted
      /\ \A s \in DOMAIN model.scans \ evicted : Matches(T, s, model.scans[s], p, L)
  BY <1>2 DEF Streaming, Matches
<1>4. /\ TableInv(q, T) /\ q \in Seq(Event) /\ Origin \in Nat /\ Origin <= p
      /\ Len(q) = L - Origin /\ \A k \in 1..(L - Origin) : q[k] = stream[Origin + k]
  <2>1. Origin <= from
    BY <1>1, TableAtDescribes
  <2>2. Origin <= L
    BY <2>1, <1>1, TableAtDescribes
  <2> QED BY <2>1, <2>2, <1>1, TableAtDescribes, SMTT(30)
<1> HIDE DEF T, q
<1>5. i \in DOMAIN q /\ q[i] = ev /\ DOMAIN q = 1..(L - Origin)
  <2>1. DOMAIN q = 1..(L - Origin)
    BY <1>4
  <2>2. i \in 1..(L - Origin) /\ Origin + i = p + 1
    BY <1>1, <1>4
  <2> QED BY <2>1, <2>2, <1>4
<1> HIDE DEF i
<1>6. ev.scan \in DOMAIN T
  BY <1>4, <1>5 DEF TableInv
<1>7. DOMAIN T = DOMAIN model'.scans \cup evicted'
  BY <1>3, <1>6 DEF Took
<1>8. ASSUME NEW s \in DOMAIN model'.scans \ evicted'
      PROVE  Matches(T, s, model'.scans[s], p + 1, L)
  <2>1. /\ s \notin evicted /\ s \in DOMAIN model.scans \cup {ev.scan}
        /\ model'.scans[s] = R[s] /\ Follows(model.scans, ev, R)
    BY DEF Took
  <2>2. s \in DOMAIN model.scans
    BY <2>1, <1>3, <1>6
  <2>3. Matches(T, s, model.scans[s], p, L)
    BY <2>1, <2>2, <1>3
  <2> HIDE DEF R
  <2>4. CASE s # ev.scan
    <3>1. R[s] = model.scans[s]
      BY <2>1, <2>2, <2>4 DEF Follows
    <3>2. \A w \in (p + 1)..L : stream[w].scan = s => w \in (p + 2)..L
      BY <2>4, <1>1
    <3>3. (p + 1) + 1 = p + 2
      BY <1>1
    <3> QED BY <2>1, <2>3, <3>1, <3>2, <3>3 DEF Matches
  <2>5. CASE s = ev.scan
    <3>1. /\ Same(R[s], T[s])
          /\ Supersedes(ev, model.scans[s]) =>
               /\ Shows(R[s], ev)
               /\ \E w \in DOMAIN q : i <= w /\ q[w].scan = s /\ Shows(T[s], q[w])
          /\ ~Supersedes(ev, model.scans[s]) =>
               Shows(R[s], model.scans[s]) /\ ~Shows(T[s], ev)
      <4>1. IsTable(model.scans) /\ Same(model.scans[s], T[s])
        BY <2>3 DEF Matches, TypeInv
      <4>2. /\ TableInv(q, T) /\ q \in Seq(Event) /\ i \in DOMAIN q
            /\ Follows(model.scans, q[i], R) /\ IsTable(model.scans)
            /\ q[i].scan \in DOMAIN model.scans
            /\ Same(model.scans[q[i].scan], T[q[i].scan])
        BY <4>1, <2>1, <2>2, <2>5, <1>4, <1>5
      <4>3. /\ Same(R[q[i].scan], T[q[i].scan])
            /\ Supersedes(q[i], model.scans[q[i].scan]) =>
                 /\ Shows(R[q[i].scan], q[i])
                 /\ \E w \in DOMAIN q : i <= w /\ q[w].scan = q[i].scan /\ Shows(T[q[i].scan], q[w])
            /\ ~Supersedes(q[i], model.scans[q[i].scan]) =>
                 Shows(R[q[i].scan], model.scans[q[i].scan]) /\ ~Shows(T[q[i].scan], q[i])
        BY <4>2, CountedAgain
      <4>4. q[i].scan = s /\ q[i] = ev
        BY <2>5, <1>5
      <4> QED BY <4>3, <4>4
    <3>2. CASE Supersedes(ev, model.scans[s])
      <4>1. PICK w \in DOMAIN q : i <= w /\ q[w].scan = s /\ Shows(T[s], q[w])
        BY <3>1, <3>2
      <4>2. CASE w = i
        BY <4>1, <4>2, <3>1, <3>2, <2>1, <1>5 DEF Matches, Shows
      <4>3. CASE w # i
        <5>1. Origin + w \in ((p + 1) + 1)..L /\ q[w] = stream[Origin + w]
          BY <4>1, <4>3, <1>1, <1>4, <1>5, SMTT(30) DEF i
        <5> QED BY <5>1, <4>1, <3>1, <2>1 DEF Matches
      <4> QED BY <4>2, <4>3
    <3>3. CASE ~Supersedes(ev, model.scans[s])
      <4>1. Shows(R[s], model.scans[s]) /\ ~Shows(T[s], ev)
        BY <3>1, <3>3
      <4>2. CASE Shows(model.scans[s], T[s]) \/ (s \in again /\ Ambiguous(s))
        BY <4>1, <4>2, <3>1, <2>1 DEF Matches, Shows
      <4>3. CASE \E w \in (p + 1)..L : stream[w].scan = s /\ Shows(T[s], stream[w])
        <5>1. PICK w \in (p + 1)..L : stream[w].scan = s /\ Shows(T[s], stream[w])
          BY <4>3
        <5>2. w # p + 1
          BY <5>1, <4>1
        <5>3. w \in ((p + 1) + 1)..L
          BY <5>2, <1>1
        <5> QED BY <5>1, <5>3, <3>1, <2>1 DEF Matches
      <4> QED BY <4>2, <4>3, <2>3 DEF Matches
    <3> QED BY <3>2, <3>3
  <2> QED BY <2>4, <2>5
<1> QED BY <1>7, <1>8 DEF T

\* The next event of the stream, which is new to the dashboard.
LEMMA NewTakes ==
  ASSUME TypeInv, NEW L \in from..Len(stream), NEW p \in from..next, p >= L, p < next,
         Streaming(L, p), NEW ev, Took(ev), ev = stream[p + 1]
  PROVE  /\ DOMAIN TableAt(p + 1) = DOMAIN model'.scans \cup evicted'
         /\ \A s \in DOMAIN model'.scans \ evicted' :
              Matches(TableAt(p + 1), s, model'.scans[s], p + 1, L)
<1> DEFINE T == TableAt(p)
           U == TableAt(p + 1)
           R == Tabled(model.scans, ev)
<1>1. /\ from \in Nat /\ L \in Nat /\ p \in Nat /\ from <= p /\ p < Len(stream)
  BY DEF TypeInv
<1>2. Larger(L, p) = p
  BY <1>1, LargerNat
<1>3. /\ DOMAIN T = DOMAIN model.scans \cup evicted
      /\ \A s \in DOMAIN model.scans \ evicted : Matches(T, s, model.scans[s], p, L)
  BY <1>2 DEF Streaming, Matches
<1>4. Follows(T, ev, U) /\ ev \in Event /\ IsTable(T)
  BY <1>1, TableAtNext
<1> HIDE DEF T, U
<1>5. DOMAIN U = DOMAIN model'.scans \cup evicted'
  BY <1>3, <1>4 DEF Took, Follows
<1>6. ASSUME NEW s \in DOMAIN model'.scans \ evicted'
      PROVE  Matches(U, s, model'.scans[s], p + 1, L)
  <2>1. /\ s \notin evicted /\ s \in DOMAIN model.scans \cup {ev.scan}
        /\ model'.scans[s] = R[s] /\ Follows(model.scans, ev, R)
    BY DEF Took
  <2> HIDE DEF R
  <2>2. CASE s \notin DOMAIN model.scans
    <3>1. s = ev.scan /\ s \notin DOMAIN T
      BY <2>1, <2>2, <1>3
    <3>2. R[s] = ev /\ U[s] = ev
      BY <2>1, <2>2, <3>1, <1>4 DEF Follows
    <3> QED BY <2>1, <3>2 DEF Matches, Same, Shows
  <2>3. CASE s \in DOMAIN model.scans
    <3>1. Matches(T, s, model.scans[s], p, L) /\ s \in DOMAIN T
      BY <2>1, <2>3, <1>3
    <3>2. /\ Same(model.scans[s], T[s])
          /\ Shows(model.scans[s], T[s]) \/ (s \in again /\ Ambiguous(s))
      <4>1. (p + 1)..L = {}
        BY <1>1
      <4> QED BY <3>1, <4>1 DEF Matches
    <3>3. CASE s # ev.scan
      <4>1. R[s] = model.scans[s] /\ U[s] = T[s]
        BY <2>1, <2>3, <3>1, <3>3, <1>4 DEF Follows
      <4> QED BY <2>1, <3>2, <4>1 DEF Matches
    <3>4. CASE s = ev.scan
      <4>1. IsTable(model.scans)
        BY DEF TypeInv
      <4>2. /\ Same(R[s], U[s])
            /\ \/ Shows(R[s], U[s])
               \/ Shows(R[s], model.scans[s]) /\ Shows(U[s], T[s])
        BY <2>1, <2>3, <3>1, <3>2, <3>4, <4>1, <1>4, CountedFirst
      <4> QED BY <2>1, <3>2, <4>2 DEF Matches, Shows
    <3> QED BY <3>3, <3>4
  <2> QED BY <2>2, <2>3
<1> QED BY <1>5, <1>6 DEF U

\* An event that came before.
LEMMA AgainTakes ==
  ASSUME TypeInv, NEW L \in from..Len(stream), Streaming(L, next), NEW ev, Took(ev),
         NEW e \in (from + 1)..next, ev = stream[e], again = {ev.scan}
  PROVE  /\ DOMAIN TableAt(Larger(L, next)) = DOMAIN model'.scans \cup evicted'
         /\ \A s \in DOMAIN model'.scans \ evicted' :
              Matches(TableAt(Larger(L, next)), s, model'.scans[s], next, L)
<1> DEFINE M == Larger(L, next)
           T == TableAt(M)
           q == SubSeq(stream, Origin + 1, M)
           i == e - Origin
           R == Tabled(model.scans, ev)
<1>1. /\ stream \in Seq(Event) /\ from \in Nat /\ L \in Nat /\ next \in Nat /\ e \in Nat
      /\ M \in Nat /\ M <= Len(stream) /\ from < e /\ e <= M
  <2>1. /\ stream \in Seq(Event) /\ from \in Nat /\ next \in Nat
        /\ from <= next /\ next <= Len(stream) /\ Len(stream) \in Nat
    BY DEF TypeInv
  <2> QED BY <2>1 DEF Larger
<1> HIDE DEF M
<1>2. /\ DOMAIN T = DOMAIN model.scans \cup evicted
      /\ \A s \in DOMAIN model.scans \ evicted : Matches(T, s, model.scans[s], next, L)
  BY DEF Streaming, Matches, M
<1>3. /\ TableInv(q, T) /\ q \in Seq(Event) /\ Origin \in Nat /\ Origin < e
      /\ Len(q) = M - Origin /\ \A k \in 1..(M - Origin) : q[k] = stream[Origin + k]
  <2>1. Origin <= from /\ Origin \in Nat
    BY <1>1, TableAtDescribes
  <2>2. Origin <= M
    BY <2>1, <1>1
  <2> QED BY <2>1, <2>2, <1>1, TableAtDescribes, SMTT(30)
<1> HIDE DEF T, q
<1>4. i \in DOMAIN q /\ q[i] = ev /\ DOMAIN q = 1..(M - Origin)
  <2>1. DOMAIN q = 1..(M - Origin)
    BY <1>3
  <2>2. i \in 1..(M - Origin) /\ Origin + i = e
    BY <1>1, <1>3
  <2> QED BY <2>1, <2>2, <1>3
<1> HIDE DEF i
<1>5. ev.scan \in DOMAIN T
  BY <1>3, <1>4 DEF TableInv
<1>6. DOMAIN T = DOMAIN model'.scans \cup evicted'
  BY <1>2, <1>5 DEF Took
<1>7. ASSUME NEW s \in DOMAIN model'.scans \ evicted'
      PROVE  Matches(T, s, model'.scans[s], next, L)
  <2>1. /\ s \notin evicted /\ s \in DOMAIN model.scans \cup {ev.scan}
        /\ model'.scans[s] = R[s] /\ Follows(model.scans, ev, R)
    BY DEF Took
  <2>2. s \in DOMAIN model.scans
    BY <2>1, <1>2, <1>5
  <2>3. Matches(T, s, model.scans[s], next, L)
    BY <2>1, <2>2, <1>2
  <2> HIDE DEF R
  <2>4. CASE s # ev.scan
    BY <2>1, <2>2, <2>3, <2>4 DEF Follows
  <2>5. CASE s = ev.scan
    <3>1. /\ TableInv(q, T) /\ q \in Seq(Event) /\ i \in DOMAIN q
          /\ Follows(model.scans, q[i], R) /\ IsTable(model.scans)
          /\ q[i].scan \in DOMAIN model.scans
          /\ Same(model.scans[q[i].scan], T[q[i].scan])
      BY <2>1, <2>2, <2>3, <2>5, <1>3, <1>4 DEF Matches, TypeInv
    <3>2. /\ Same(R[q[i].scan], T[q[i].scan])
          /\ Supersedes(q[i], model.scans[q[i].scan]) =>
               /\ Shows(R[q[i].scan], q[i])
               /\ q[i].ts = T[q[i].scan].ts /\ Kind(q[i]) = Kind(T[q[i].scan])
               /\ \E w \in DOMAIN q : i <= w /\ q[w].scan = q[i].scan /\ Shows(T[q[i].scan], q[w])
          /\ ~Supersedes(q[i], model.scans[q[i].scan]) =>
               Shows(R[q[i].scan], model.scans[q[i].scan])
      BY <3>1, CountedAgain
    <3>3. q[i].scan = s /\ q[i] = ev
      BY <2>5, <1>4
    <3>4. CASE ~Supersedes(ev, model.scans[s])
      BY <2>1, <2>3, <3>2, <3>3, <3>4 DEF Matches, Shows
    <3>5. CASE Supersedes(ev, model.scans[s])
      <4>1. Shows(R[s], ev) /\ ev.ts = T[s].ts /\ Kind(ev) = Kind(T[s])
        BY <3>2, <3>3, <3>5
      <4>2. PICK w \in DOMAIN q : q[w].scan = s /\ Shows(T[s], q[w])
        BY <3>2, <3>3, <3>5
      <4>3. CASE Shows(ev, T[s])
        BY <2>1, <3>2, <3>3, <4>1, <4>3 DEF Matches, Shows
      <4>4. CASE ~Shows(ev, T[s])
        <5>1. /\ Origin + w \in DOMAIN stream /\ e \in DOMAIN stream
              /\ stream[Origin + w] = q[w]
          BY <1>1, <1>3, <1>4, SMTT(30)
        <5>2. /\ stream[e].ts = q[w].ts /\ Kind(stream[e]) = Kind(q[w])
              /\ <<stream[e].state, stream[e].source>> # <<q[w].state, q[w].source>>
              /\ stream[e].scan = s
          BY <4>1, <4>2, <4>4, <2>5 DEF Shows, Kind
        <5>3. Ambiguous(s)
          BY <5>1, <5>2, <4>2 DEF Ambiguous, Kind
        <5> QED BY <2>1, <2>5, <3>2, <3>3, <5>3 DEF Matches
      <4> QED BY <4>3, <4>4
    <3> QED BY <3>4, <3>5
  <2> QED BY <2>4, <2>5
<1> QED BY <1>6, <1>7 DEF T, M

\* An event after the seed.
LEMMA StreamingTakes ==
  ASSUME TypeInv, NEW L \in from..Len(stream), NEW p \in from..next, Streaming(L, p),
         NEW ev, Took(ev)
  PROVE  \E r \in from..next : Streaming(L, r)'
<1>1. /\ stream \in Seq(Event) /\ Len(stream) \in Nat /\ from \in Nat /\ next \in Nat
      /\ next <= Len(stream) /\ L \in Nat /\ p \in Nat /\ from <= p /\ p <= next
  BY DEF TypeInv
<1>2. /\ stream' = stream /\ next' = next /\ from' = from /\ seeded' = seeded /\ again' = again
      /\ sending' = Tail(sending) /\ ev = sending[1] /\ sending # <<>>
  BY DEF Took
<1>3. \A k : TableAt(k)' = TableAt(k)
  BY <1>2 DEF TableAt, Origin
<1>4. \A s : Ambiguous(s)' = Ambiguous(s)
  BY <1>2 DEF Ambiguous
<1>5. ASSUME NEW r \in from..next, Sends(r)',
             DOMAIN TableAt(Larger(L, r)) = DOMAIN model'.scans \cup evicted',
             \A s \in DOMAIN model'.scans \ evicted' :
               Matches(TableAt(Larger(L, r)), s, model'.scans[s], r, L)
      PROVE  Streaming(L, r)'
  BY <1>2, <1>3, <1>4, <1>5 DEF Streaming, Matches
<1>6. CASE sending = SubSeq(stream, p + 1, next)
  <2>1. p < next /\ ev = stream[p + 1] /\ Tail(sending) = SubSeq(stream, p + 2, next)
    BY <1>1, <1>2, <1>6
  <2>2. Sends(p + 1)'
    <3>1. (p + 1) + 1 = p + 2
      BY <1>1
    <3> QED BY <1>2, <2>1, <3>1 DEF Sends
  <2>3. p + 1 \in from..next
    BY <1>1, <2>1
  <2>4. CASE p < L
    <3>1. Larger(L, p + 1) = L
      BY <1>1, <2>4, LargerNat
    <3> QED BY <2>1, <2>2, <2>3, <2>4, <3>1, <1>5, ReplayTakes
  <2>5. CASE p >= L
    <3>1. Larger(L, p + 1) = p + 1
      BY <1>1, <2>5, LargerNat
    <3> QED BY <2>1, <2>2, <2>3, <2>5, <3>1, <1>5, NewTakes
  <2> QED BY <2>4, <2>5, <1>1
<1>7. CASE p = next /\ \E i \in (from + 1)..next :
                         sending = <<stream[i]>> /\ again = {stream[i].scan}
  <2>1. PICK e \in (from + 1)..next : sending = <<stream[e]>> /\ again = {stream[e].scan}
    BY <1>7
  <2>2. ev = stream[e] /\ Tail(sending) = <<>> /\ SubSeq(stream, next + 1, next) = <<>>
    BY <1>1, <1>2, <2>1
  <2>3. PICK r \in from..next : r = next
    BY <1>1
  <2>4. Sends(r)'
    BY <1>2, <2>2, <2>3 DEF Sends
  <2>5. Streaming(L, next) /\ again = {ev.scan}
    BY <1>7, <2>1, <2>2
  <2>6. /\ DOMAIN TableAt(Larger(L, next)) = DOMAIN model'.scans \cup evicted'
        /\ \A s \in DOMAIN model'.scans \ evicted' :
             Matches(TableAt(Larger(L, next)), s, model'.scans[s], next, L)
    BY <2>1, <2>2, <2>5, AgainTakes
  <2>7. Streaming(L, r)'
    BY <1>5, <2>3, <2>4, <2>6
  <2> QED BY <2>7
<1> QED BY <1>6, <1>7 DEF Streaming, Sends

\* The program takes an event.
LEMMA ReceiveKeeps ==
  ASSUME TypeInv, FleetInv, Receive
  PROVE  TypeInv' /\ FleetInv'
<1>1. TypeInv' /\ \E ev : Took(ev)
  BY ReceiveTakes
<1>2. PICK ev : Took(ev)
  BY <1>1
<1>3. sending # <<>> /\ UNCHANGED <<config, stream, pump, next, from, seeded, again>>
  BY <1>2 DEF Took
<1>4. pump \in {"tail", "gone"}
  BY <1>3 DEF FleetInv, NotStarted
<1>5. CASE pump = "gone"
  BY <1>1, <1>3, <1>5 DEF FleetInv
<1>6. CASE pump = "tail"
  <2>1. CASE \E L \in from..Len(stream) : Seeding(L)
    BY <1>1, <1>2, <1>3, <1>6, <2>1, SeedingTakes DEF FleetInv
  <2>2. CASE \E L \in from..Len(stream), p \in from..next : Streaming(L, p)
    BY <1>1, <1>2, <1>3, <1>6, <2>2, StreamingTakes DEF FleetInv
  <2> QED BY <1>6, <2>1, <2>2 DEF FleetInv
<1> QED BY <1>1, <1>4, <1>5, <1>6

-----------------------------------------------------------------------------
(* The dashboard agrees with the history.                                  *)

\* The first states satisfy the invariant.
LEMMA InitInv ==
  ASSUME Init
  PROVE  TypeInv /\ FleetInv
<1>1. config \in Config /\ stream = SubSeq(config.script, 1, config.already)
  BY DEF Init
<1>2. stream \in Seq(Event)
  BY <1>1, ConfigScript
<1>3. model = NewFleet /\ DOMAIN <<>> = {}
  BY DEF Init
<1>4. DOMAIN model = FleetFields /\ DOMAIN model.scans = {}
  BY <1>3 DEF NewFleet, FleetFields
<1>5. TypeInv
  BY <1>1, <1>2, <1>4 DEF Init, TypeInv, IsTable
<1>6. FleetInv
  BY <1>4 DEF Init, FleetInv, NotStarted
<1> QED BY <1>5, <1>6

\* Every step keeps it.
LEMMA NextInv ==
  ASSUME TypeInv, FleetInv, [Next]_vars
  PROVE  TypeInv' /\ FleetInv'
<1>1. CASE Publish
  BY <1>1, PublishKeeps
<1>2. CASE SubscribeStatusAll
  BY <1>2, SubscribeKeeps
<1>3. CASE Seed
  BY <1>3, SeedKeeps
<1>4. CASE SeedFails
  BY <1>4, SeedFailsKeeps
<1>5. CASE TailBatch
  BY <1>5, TailBatchKeeps
<1>6. CASE Redeliver
  BY <1>6, RedeliverKeeps
<1>7. CASE TailFails
  BY <1>7, TailFailsKeeps
<1>8. CASE Receive
  BY <1>8, ReceiveKeeps
<1>9. CASE Key \/ Resize \/ LoadReads \/ LoadArrives \/ Waiting \/ UNCHANGED vars
  <2>1. DOMAIN model = FleetFields
    BY DEF TypeInv
  <2> QED BY <1>9, <2>1, QuietSteps, QuietKeeps
<1> QED BY <1>1, <1>2, <1>3, <1>4, <1>5, <1>6, <1>7, <1>8, <1>9 DEF Next, Dashboard

\* It implies FleetAgrees.
LEMMA InvAgrees ==
  ASSUME TypeInv, FleetInv
  PROVE  FleetAgrees
<1> SUFFICES ASSUME UpToDate PROVE FleetAgrees
  BY DEF FleetAgrees
<1>1. /\ pump = "tail" /\ sending = <<>> /\ next = Len(stream)
  BY DEF UpToDate
<1>2. /\ stream \in Seq(Event) /\ Len(stream) \in Nat /\ from \in Nat /\ from <= Len(stream)
  BY DEF TypeInv
<1>3. PICK L \in from..Len(stream) : Streaming(L, next)
  BY <1>1, Rested
<1>4. Larger(L, next) = Len(stream)
  BY <1>1, <1>2 DEF Larger
<1> DEFINE n == Len(stream)
           T == TableAt(n)
<1>5. /\ DOMAIN T = DOMAIN model.scans \cup evicted
      /\ \A s \in DOMAIN model.scans \ evicted :
           /\ Same(model.scans[s], T[s])
           /\ Shows(model.scans[s], T[s]) \/ (s \in again /\ Ambiguous(s))
  <2>1. (next + 1)..L = {}
    BY <1>1, <1>2
  <2> QED BY <1>3, <1>4, <2>1 DEF Streaming
<1>6. Meant = SubSeq(stream, Origin + 1, n)
  <2>1. CASE seeded
    <3>1. SubSeq(stream, 1, n) = stream
      BY <1>2
    <3>2. Origin + 1 = 1
      BY <2>1 DEF Origin
    <3> QED BY <2>1, <3>1, <3>2 DEF Meant
  <2>2. CASE ~seeded
    BY <2>2 DEF Meant, Origin
  <2> QED BY <2>1, <2>2
<1>7. T = HistoryTable(Meant)
  BY <1>6 DEF TableAt
<1>8. TableInv(Meant, T)
  <2>1. n \in Nat /\ n <= Len(stream)
    BY <1>2
  <2> HIDE DEF n
  <2> QED BY <1>6, <2>1, TableAtDescribes
<1> HIDE DEF T, n
<1>9. DOMAIN model.scans \cup evicted = {Meant[i].scan : i \in DOMAIN Meant}
  BY <1>5, <1>8 DEF TableInv
<1>10. ASSUME NEW s \in DOMAIN model.scans \ evicted
       PROVE  LET row == model.scans[s]
                  old == HistoryTable(Meant)[s]
              IN  /\ row.ts = old.ts /\ row.metrics = old.metrics
                  /\ IsTerminal(row.state) = IsTerminal(old.state)
                  /\ \/ row.state = old.state /\ row.source = old.source
                     \/ s \in again /\ Ambiguous(s)
  BY <1>5, <1>7 DEF Same, Shows, Kind
<1> QED BY <1>9, <1>10 DEF FleetAgrees

\* Whatever is published, seeded, lost with a failed seed or delivered twice: once the pump
\* has nothing left to send, the dashboard shows of every scan it never evicted what
\* `harporis history` says.
THEOREM DashboardAgrees == Spec => []FleetAgrees
<1>1. Init => TypeInv /\ FleetInv
  BY InitInv
<1>2. TypeInv /\ FleetInv /\ [Next]_vars => TypeInv' /\ FleetInv'
  BY NextInv
<1>3. TypeInv /\ FleetInv => FleetAgrees
  BY InvAgrees
<1> QED BY <1>1, <1>2, <1>3, PTL DEF Spec

-----------------------------------------------------------------------------
(* The invariant of the panel.                                             *)

\* The columns of the list.
ColumnNames == {"scan", "state", "source", "chunks", "secrets", "ts"}

\* The fields of detailState.
DetailFields == {"scan", "latest", "history", "err", "loading", "offset", "tab", "findings"}

\* The fields of findingsState.
FindingsFields ==
  {"loaded", "loading", "loadedOnce", "err", "cursor", "offset", "sortCol", "sortRev",
   "sortExplicit", "filter", "filtering", "input", "filterErr"}

\* A load, as loadHistoryCmd and loadFindingsCmd start it.
Load ==
  [kind : {"history", "findings"}, scan : Text, at : {"asked", "read", "over"},
   result : [err : BOOLEAN, rows : Seq(Event) \cup Seq(Finding)]]

\* A load's rows are its scan's.
LoadsOwn(list) ==
  \A i \in DOMAIN list :
    /\ \A k \in DOMAIN list[i].result.rows : list[i].result.rows[k].scan = list[i].scan
    /\ list[i].kind = "history" => list[i].result.rows \in Seq(Event)

\* The types of the dashboard's model.
FleetType(m) ==
  /\ DOMAIN m = FleetFields /\ DOMAIN m.detail = DetailFields
  /\ DOMAIN m.detail.findings = FindingsFields
  /\ m.cursor \in Nat /\ m.sortCol \in ColumnNames /\ m.view \in {"list", "detail"}
  /\ m.detail.loading \in BOOLEAN /\ m.detail.findings.loading \in BOOLEAN
  /\ m.detail.history \in Seq(Event)
  /\ IsTable(m.scans) /\ IsFiniteSet(DOMAIN m.scans)

\* A load of the scan that is not over.
Awaited(list, kind, scan) ==
  \E i \in DOMAIN list : list[i].kind = kind /\ list[i].at # "over" /\ list[i].scan = scan

\* The open panel of the dashboard m, with the loads of list, the scans of gone evicted and
\* the events of took taken.
OpenPanelInv(m, list, gone, took) ==
  LET d == m.detail IN
  /\ d.scan \in Text /\ d.scan \in DOMAIN m.scans \cup gone
  /\ d.scan \notin gone => d.latest = <<m.scans[d.scan]>>
  /\ \A i \in DOMAIN d.history : d.history[i].scan = d.scan
  /\ \A i \in DOMAIN d.findings.loaded : d.findings.loaded[i].scan = d.scan
  /\ d.loading => Awaited(list, "history", d.scan)
  /\ d.findings.loading => Awaited(list, "findings", d.scan)
  /\ took # {} => ~Awaited(list, "history", d.scan)
  /\ \A ev \in took : \E i \in DOMAIN d.history :
       d.history[i].ts = ev.ts /\ d.history[i].state = ev.state

\* The invariant of the panel.
PanelInv ==
  /\ FleetType(model)
  /\ loads \in Seq(Load) /\ LoadsOwn(loads)
  /\ model.view = "list" => kept = {}
  /\ model.view = "detail" => OpenPanelInv(model, loads, evicted, kept)

-----------------------------------------------------------------------------
(* Sorting.                                                                *)

\* A strict total order.
Orders(R, S) ==
  /\ \A x \in S : <<x, x>> \notin R
  /\ \A x, y, z \in S : <<x, y>> \in R /\ <<y, z>> \in R => <<x, z>> \in R
  /\ \A x, y \in S : x # y => <<x, y>> \in R \/ <<y, x>> \in R

\* A finite set can be listed along a strict total order.
LEMMA CanBeSorted ==
  ASSUME NEW S, IsFiniteSet(S), NEW R, Orders(R, S)
  PROVE  \E f \in SetToSeqs(S) : \A i, j \in DOMAIN f : i < j => <<f[i], f[j]>> \in R
<1> DEFINE n == Cardinality(S)
           Below(x) == {y \in S : <<y, x>> \in R}
           pos == [x \in S |-> Cardinality(Below(x)) + 1]
<1>1. n \in Nat
  BY FS_CardinalityType
<1>2. ASSUME NEW x \in S
      PROVE  IsFiniteSet(Below(x)) /\ Cardinality(Below(x)) \in Nat /\ Cardinality(Below(x)) < n
  <2>1. Below(x) \in SUBSET S /\ Below(x) # S
    BY DEF Orders
  <2> HIDE DEF Below
  <2>2. IsFiniteSet(Below(x)) /\ Cardinality(Below(x)) <= n /\ Cardinality(Below(x)) # n
    BY <2>1, FS_Subset
  <2>3. Cardinality(Below(x)) \in Nat
    BY <2>2, FS_CardinalityType
  <2> QED BY <1>1, <2>2, <2>3
<1>3. ASSUME NEW x \in S, NEW y \in S, <<x, y>> \in R
      PROVE  pos[x] < pos[y]
  <2>1. Below(x) \in SUBSET Below(y)
    BY <1>3 DEF Orders
  <2>2. x \in Below(y) /\ x \notin Below(x)
    BY <1>3 DEF Orders
  <2>3. /\ IsFiniteSet(Below(y)) /\ Cardinality(Below(y)) \in Nat
        /\ Cardinality(Below(x)) \in Nat
    BY <1>2
  <2>4. Cardinality(Below(x)) <= Cardinality(Below(y))
        /\ Cardinality(Below(x)) # Cardinality(Below(y))
    <3> HIDE DEF Below
    <3> QED BY <2>1, <2>2, <2>3, FS_Subset
  <2> HIDE DEF Below
  <2> QED BY <2>3, <2>4
<1>4. pos \in [S -> 1..n]
  <2> SUFFICES ASSUME NEW x \in S PROVE Cardinality(Below(x)) + 1 \in 1..n
    OBVIOUS
  <2> HIDE DEF Below, n
  <2> QED BY <1>1, <1>2
<1> HIDE DEF pos
<1>5. \A x, y \in S : x # y => pos[x] # pos[y]
  <2> TAKE x, y \in S
  <2> HAVE x # y
  <2>1. pos[x] \in Int /\ pos[y] \in Int
    BY <1>4
  <2>2. pos[x] < pos[y] \/ pos[y] < pos[x]
    BY <1>3 DEF Orders
  <2> QED BY <2>1, <2>2
<1>6. IsFiniteSet(1..n) /\ Cardinality(1..n) = n
  BY <1>1, FS_Interval
<1>7. pos \in Injection(S, 1..n)
  BY <1>4, <1>5 DEF Injection, IsInjective
<1>8. pos \in Surjection(S, 1..n)
  <2> HIDE DEF n
  <2>1. Cardinality(S) = Cardinality(1..n)
    BY <1>6 DEF n
  <2> QED BY <2>1, <1>6, <1>7, FS_Injection
<1>9. \A k \in 1..n : \E x \in S : pos[x] = k
  BY <1>8 DEF Surjection
<1> DEFINE f == [k \in 1..n |-> CHOOSE x \in S : pos[x] = k]
<1>10. f \in [1..n -> S] /\ \A k \in 1..n : pos[f[k]] = k
  BY <1>9
<1> HIDE DEF f
<1>11. \A i, j \in 1..n : i # j => f[i] # f[j]
  BY <1>10
<1>12. f \in SetToSeqs(S)
  BY <1>10, <1>11 DEF SetToSeqs
<1>13. ASSUME NEW i \in DOMAIN f, NEW j \in DOMAIN f, i < j
       PROVE  <<f[i], f[j]>> \in R
  <2>1. i \in 1..n /\ j \in 1..n /\ f[i] \in S /\ f[j] \in S /\ pos[f[i]] = i /\ pos[f[j]] = j
    BY <1>10
  <2>2. f[i] # f[j]
    BY <1>11, <1>13, <2>1
  <2>3. <<f[j], f[i]>> \notin R
    BY <1>3, <1>13, <2>1
  <2> QED BY <2>1, <2>2, <2>3 DEF Orders
<1> QED BY <1>12, <1>13

\* strings.Compare orders the texts.
LEMMA RankType ==
  /\ \A t \in Text : Rank(t) \in Nat
  /\ \A t, u \in Text : t # u => Rank(t) # Rank(u)
<1>1. \A t \in Text : \E i \in DOMAIN TextOrder : TextOrder[i] = t
  BY DEF Text, ToSet
<1>2. \A t \in Text : Rank(t) \in DOMAIN TextOrder /\ TextOrder[Rank(t)] = t
  BY <1>1 DEF Rank
<1>3. DOMAIN TextOrder \subseteq Nat
  BY TextAssumption
<1> QED BY <1>2, <1>3

\* The counters of a row are numbers.
LEMMA CounterType ==
  ASSUME NEW row \in Event
  PROVE  Counters(row).chunks \in Nat /\ Counters(row).secrets \in Nat
<1>1. CASE row.metrics = NoMetrics
  BY <1>1 DEF Counters
<1>2. CASE row.metrics # NoMetrics
  <2>1. row.metrics \in Metrics
    BY <1>2 DEF Event
  <2> QED BY <1>2, <2>1 DEF Counters, Metrics
<1> QED BY <1>1, <1>2

\* What a column sorts by.
ColumnKey(row, col) ==
  CASE col \in {"scan", "state", "source"} -> Rank(row[col])
    [] col \in {"chunks", "secrets"} -> Counters(row)[col]
    [] col = "ts" -> row.ts

\* compareColumn compares numbers.
LEMMA ComparesKeys ==
  ASSUME NEW a \in Event, NEW b \in Event, NEW col \in ColumnNames
  PROVE  /\ ColumnKey(a, col) \in Int /\ ColumnKey(b, col) \in Int
         /\ CompareColumn(a, b, col) = ColumnKey(a, col) - ColumnKey(b, col)
<1>1. \A row \in Event : /\ Rank(row.scan) \in Nat /\ Rank(row.state) \in Nat
                         /\ Rank(row.source) \in Nat /\ row.ts \in Int
  BY RankType DEF Event
<1>2. CASE col \in {"scan", "state", "source"}
  BY <1>1, <1>2 DEF ColumnKey, CompareColumn
<1>3. CASE col \in {"chunks", "secrets"}
  BY <1>3, CounterType DEF ColumnKey, CompareColumn
<1>4. CASE col = "ts"
  BY <1>1, <1>4 DEF ColumnKey, CompareColumn
<1> QED BY <1>2, <1>3, <1>4 DEF ColumnNames

\* The rows of different scans are in a strict total order.
LEMMA RowsAreOrdered ==
  ASSUME NEW m, m.sortCol \in ColumnNames, NEW S, S \subseteq Event,
         \A a, b \in S : a # b => a.scan # b.scan
  PROVE  Orders({p \in S \X S : RowBefore(m, p[1], p[2])}, S)
<1> DEFINE R == {p \in S \X S : RowBefore(m, p[1], p[2])}
           Key1(a) == ColumnKey(a, m.sortCol)
<1>1. \A x, y \in S : <<x, y>> \in R <=> RowBefore(m, x, y)
  OBVIOUS
<1>2. \A a \in S : Rank(a.scan) \in Nat
  BY RankType DEF Event
<1>3. \A a, b \in S : a # b => Rank(a.scan) # Rank(b.scan)
  BY RankType DEF Event
<1>4. CASE m.sortExplicit
  <2>1. \A a, b \in S :
          /\ Key1(a) \in Int /\ Key1(b) \in Int
          /\ RowBefore(m, a, b) <=>
               IF Key1(a) = Key1(b) THEN Rank(a.scan) < Rank(b.scan)
               ELSE IF m.sortRev THEN Key1(a) > Key1(b) ELSE Key1(a) < Key1(b)
    <3> TAKE a, b \in S
    <3>1. /\ Key1(a) \in Int /\ Key1(b) \in Int
          /\ CompareColumn(a, b, m.sortCol) = Key1(a) - Key1(b)
      BY ComparesKeys
    <3> HIDE DEF Key1
    <3> QED BY <3>1, <1>4 DEF RowBefore
  <2> HIDE DEF R, Key1
  <2> QED BY <1>1, <1>2, <1>3, <2>1 DEF Orders
<1>5. CASE ~m.sortExplicit
  <2>1. \A a, b \in S :
          /\ a.ts \in Int /\ b.ts \in Int /\ Kind(a) \in BOOLEAN
          /\ RowBefore(m, a, b) <=>
               IF Kind(a) # Kind(b) THEN Kind(b)
               ELSE IF a.ts # b.ts THEN a.ts > b.ts ELSE Rank(a.scan) < Rank(b.scan)
    BY <1>5, KindType DEF RowBefore, Kind, Event
  <2> HIDE DEF R
  <2> QED BY <1>1, <1>2, <1>3, <2>1 DEF Orders
<1> HIDE DEF R
<1> QED BY <1>4, <1>5 DEF R

\* FleetModel.sorted lists rows of the table.
LEMMA SortedRows ==
  ASSUME NEW m, IsTable(m.scans), IsFiniteSet(DOMAIN m.scans), m.sortCol \in ColumnNames
  PROVE  /\ Sorted(m) \in Seq(Event)
         /\ \A i \in DOMAIN Sorted(m) :
              /\ Sorted(m)[i].scan \in DOMAIN m.scans
              /\ Sorted(m)[i] = m.scans[Sorted(m)[i].scan]
<1> DEFINE S == {row \in {m.scans[s] : s \in DOMAIN m.scans} :
                   ~(m.activeOnly /\ IsTerminal(row.state)) /\ MatchesScan(m.filter, row)}
           R == {p \in S \X S : RowBefore(m, p[1], p[2])}
           g == [row \in S |-> row.scan]
           f == Sorted(m)
<1>1. \A row \in S : row \in Event /\ row.scan \in DOMAIN m.scans /\ row = m.scans[row.scan]
  BY DEF IsTable
<1> HIDE DEF S
<1>2. IsFiniteSet(S)
  <2>1. g \in Injection(S, DOMAIN m.scans)
    BY <1>1 DEF Injection, IsInjective
  <2> HIDE DEF g
  <2> QED BY <2>1, FS_Injection
<1>3. Orders(R, S)
  BY <1>1, RowsAreOrdered
<1>4. \E q \in SetToSeqs(S) : \A i, j \in DOMAIN q : i < j => RowBefore(m, q[i], q[j])
  <2>1. PICK q \in SetToSeqs(S) : \A i, j \in DOMAIN q : i < j => <<q[i], q[j]>> \in R
    <3> HIDE DEF R
    <3> QED BY <1>2, <1>3, CanBeSorted
  <2> QED BY <2>1
<1>5. f = CHOOSE q \in SetToSeqs(S) : \A i, j \in DOMAIN q : i < j => RowBefore(m, q[i], q[j])
  BY DEF Sorted, Ordered, S
<1>6. f \in SetToSeqs(S)
  <2> HIDE DEF f
  <2> QED BY <1>4, <1>5, Zenon
<1> HIDE DEF f
<1>7. f \in Seq(S)
  BY <1>2, <1>6, Listing
<1>8. f \in Seq(Event) /\ \A i \in DOMAIN f : f[i] \in S
  BY <1>1, <1>7
<1> QED BY <1>1, <1>8 DEF f

-----------------------------------------------------------------------------
(* What the keys do to the panel.                                          *)

\* A set of numbers has a least one.
LEMMA LeastIsIn ==
  ASSUME NEW S, S \subseteq Nat, S # {}
  PROVE  Min(S) \in S
<1> DEFINE R == OpToRel(<, Nat)
<1>1. IsWellFoundedOn(R, Nat)
  BY NatLessThanWellFounded
<1>2. PICK x \in S : \A y \in S : <<y, x>> \notin R
  <2> HIDE DEF R
  <2> QED BY <1>1, WFMin
<1>3. \A y \in S : x <= y
  <2> TAKE y \in S
  <2>1. ~(y < x)
    BY <1>2 DEF OpToRel
  <2> QED BY <2>1
<1> QED BY <1>3 DEF Min

\* The next column is a column.
LEMMA ColumnType ==
  ASSUME NEW c
  PROVE  NextColumn(Columns, c) \in ColumnNames
<1> DEFINE I == {i \in 1..Len(Columns) : Columns[i] = c}
           k == SelectInSeq(Columns, LAMBDA x : x = c)
<1>1. Len(Columns) = 6
  BY DEF Columns
<1>2. k \in 0..6
  <2>1. k = IF I # {} THEN Min(I) ELSE 0
    BY DEF SelectInSeq
  <2>2. I \subseteq 1..6
    BY <1>1
  <2> HIDE DEF k, I
  <2>3. CASE I # {}
    <3>1. I \subseteq Nat
      BY <2>2
    <3>2. Min(I) \in I
      BY <2>3, <3>1, LeastIsIn
    <3>3. k \in I
      BY <2>1, <2>3, <3>2
    <3> QED BY <2>2, <3>3
  <2>4. CASE I = {}
    BY <2>1, <2>4
  <2> QED BY <2>3, <2>4
<1> HIDE DEF k
<1>3. (k % 6) + 1 \in 1..6
  BY <1>2
<1>4. \A i \in 1..6 : Columns[i] \in ColumnNames
  BY DEF Columns, ColumnNames
<1>5. NextColumn(Columns, c) = Columns[(k % 6) + 1]
  BY <1>1 DEF NextColumn, k
<1> QED BY <1>3, <1>4, <1>5

\* updateKey of the Findings tab touches neither its rows nor whether they load.
LEMMA FindingsKeyType ==
  ASSUME NEW s, NEW k, NEW h, DOMAIN s = FindingsFields
  PROVE  /\ DOMAIN FindingsKey(s, k, h) = FindingsFields
         /\ FindingsKey(s, k, h).loaded = s.loaded
         /\ FindingsKey(s, k, h).loading = s.loading
<1> DEFINE Kept(t) == DOMAIN t = FindingsFields /\ t.loaded = s.loaded /\ t.loading = s.loading
<1>1. ASSUME NEW t, Kept(t) PROVE Kept(ClampRow(t))
  BY <1>1 DEF ClampRow, FindingsFields
<1>2. ASSUME NEW t, Kept(t) PROVE Kept(Scrolled(t, h))
  BY <1>2 DEF Scrolled, FindingsFields
<1>3. Kept(FilterKey(s, k))
  <2> DEFINE p == ParseFindingFilter(s.input)
             t == [s EXCEPT !.filter = p, !.filtering = FALSE, !.filterErr = FALSE]
  <2>1. Kept(t)
    <3> HIDE DEF p
    <3> QED BY DEF FindingsFields
  <2>2. Kept(ClampRow(t))
    <3> HIDE DEF t, Kept
    <3> QED BY <2>1, <1>1
  <2> QED BY <2>2 DEF FilterKey, FindingsFields
<1>4. Kept(RowKey(s, k))
  <2> DEFINE t == [s EXCEPT !.sortExplicit = TRUE,
                            !.sortCol = IF s.sortExplicit THEN NextColumn(FindingColumns, @)
                                        ELSE "severity"]
  <2>1. Kept(t)
    BY DEF FindingsFields
  <2>2. Kept(ClampRow(t))
    <3> HIDE DEF t, Kept
    <3> QED BY <2>1, <1>1
  <2> QED BY <2>2 DEF RowKey, FindingsFields
<1>5. Kept(FindingsKey(s, k, h))
  <2> HIDE DEF Kept
  <2> QED BY <1>2, <1>3, <1>4 DEF FindingsKey
<1> QED BY <1>5

\* The new model n shows the panel of m.
Keeps(m, n) == FleetType(n) /\ n.view = m.view /\ n.detail = m.detail /\ n.scans = m.scans

\* clampCursor.
LEMMA ClampKeeps ==
  ASSUME NEW m, FleetType(m)
  PROVE  Keeps(m, ClampCursor(m))
<1> DEFINE n == Len(Sorted(m))
<1>1. n \in Nat
  BY SortedRows DEF FleetType
<1> HIDE DEF n
<1>2. n > 0 => n - 1 \in Nat
  BY <1>1
<1>3. ClampCursor(m) \in {m, [m EXCEPT !.cursor = n - 1]} /\ (n > 0 \/ ClampCursor(m) = m)
  BY DEF ClampCursor, n
<1>4. CASE ClampCursor(m) = m
  BY <1>4 DEF Keeps
<1>5. CASE n > 0 /\ ClampCursor(m) = [m EXCEPT !.cursor = n - 1]
  <2> DEFINE c == n - 1
             r == [m EXCEPT !.cursor = c]
  <2>1. c \in Nat /\ ClampCursor(m) = r
    BY <1>2, <1>5
  <2> HIDE DEF c
  <2>2. Keeps(m, r)
    BY <2>1 DEF Keeps, FleetType, FleetFields
  <2> QED BY <2>1, <2>2
<1> QED BY <1>3, <1>4, <1>5

\* The filter line.
LEMMA FilterKeyKeeps ==
  ASSUME NEW m, NEW k, FleetType(m)
  PROVE  Keeps(m, FleetFilterKey(m, k))
<1> DEFINE p == ParseFilter(m.input)
           t == [m EXCEPT !.filter = p, !.filtering = FALSE, !.filterErr = FALSE]
           a == [m EXCEPT !.filtering = FALSE, !.filterErr = FALSE]
           b == [m EXCEPT !.filterErr = TRUE]
           c == [m EXCEPT !.input = k.query]
<1>1. FleetFilterKey(m, k) \in {a, b, c, m, ClampCursor(t)}
  BY DEF FleetFilterKey
<1> HIDE DEF p
<1>2. Keeps(m, a) /\ Keeps(m, b) /\ Keeps(m, c) /\ Keeps(m, m) /\ Keeps(m, t)
  BY DEF Keeps, FleetType, FleetFields
<1> HIDE DEF a, b, c, t
<1>3. Keeps(m, ClampCursor(t))
  BY <1>2, ClampKeeps DEF Keeps
<1> QED BY <1>1, <1>2, <1>3

\* The keys of the list, but enter.
LEMMA ListKeyKeeps ==
  ASSUME NEW m, NEW k, FleetType(m), k.key # "enter"
  PROVE  Keeps(m, ListKey(m, k))
<1> DEFINE col == NextColumn(Columns, m.sortCol)
           q == [m EXCEPT !.quit = TRUE]
           u == [m EXCEPT !.cursor = @ - 1]
           d == [m EXCEPT !.cursor = @ + 1]
           f == [m EXCEPT !.activeOnly = ~@]
           s == [m EXCEPT !.sortExplicit = TRUE, !.sortCol = IF m.sortExplicit THEN col ELSE "scan"]
           r == [m EXCEPT !.sortExplicit = TRUE, !.sortRev = ~@,
                          !.sortCol = IF m.sortExplicit THEN @ ELSE "scan"]
           e == [m EXCEPT !.filtering = TRUE, !.input = m.filter.raw, !.filterErr = FALSE]
<1>1. \/ ListKey(m, k) \in {q, d, r, e, m, ClampCursor(f), ClampCursor(s)}
      \/ ListKey(m, k) = u /\ m.cursor > 0
  BY DEF ListKey
<1>2. col \in ColumnNames
  BY ColumnType
<1> HIDE DEF col
<1>3. m.cursor \in Nat
  BY DEF FleetType
<1>4. Keeps(m, q) /\ Keeps(m, f) /\ Keeps(m, e) /\ Keeps(m, m)
  BY DEF Keeps, FleetType, FleetFields
<1>5. Keeps(m, d) /\ (m.cursor > 0 => Keeps(m, u))
  BY <1>3 DEF Keeps, FleetType, FleetFields
<1>6. Keeps(m, s) /\ Keeps(m, r)
  BY <1>2 DEF Keeps, FleetType, FleetFields, ColumnNames
<1> HIDE DEF q, u, d, f, s, r, e
<1>7. Keeps(m, ClampCursor(f)) /\ Keeps(m, ClampCursor(s))
  BY <1>4, <1>6, ClampKeeps DEF Keeps
<1> QED BY <1>1, <1>4, <1>5, <1>6, <1>7

\* The zero findingsState.
LEMMA FindingsStart == DOMAIN NewFindings = FindingsFields /\ NewFindings.loading = FALSE
                       /\ NewFindings.loaded = <<>>
BY DEF NewFindings, FindingsFields

\* The zero detailState.
LEMMA DetailStart ==
  /\ DOMAIN NoDetail = DetailFields /\ NoDetail.findings = NewFindings
  /\ NoDetail.loading = FALSE /\ NoDetail.history = <<>>
BY DEF NoDetail, DetailFields

\* Enter opens the panel of a row, if there is one.
LEMMA OpenPanelType ==
  ASSUME NEW m, FleetType(m), Sorted(m) # <<>>
  PROVE  LET n == OpenPanel(m) IN
         /\ FleetType(n) /\ n.view = "detail" /\ n.scans = m.scans
         /\ n.detail.scan \in DOMAIN m.scans /\ n.detail.scan \in Text
         /\ n.detail.latest = <<m.scans[n.detail.scan]>>
         /\ n.detail.history = <<>> /\ n.detail.findings = NewFindings
<1> DEFINE rows == Sorted(m)
           at == IF m.cursor >= Len(rows) THEN Len(rows) - 1 ELSE m.cursor
           row == rows[at + 1]
           d == [NoDetail EXCEPT !.scan = row.scan, !.latest = <<row>>, !.loading = TRUE]
           n == [m EXCEPT !.cursor = at, !.view = "detail", !.detail = d]
<1>1. /\ rows \in Seq(Event)
      /\ \A i \in DOMAIN rows : rows[i].scan \in DOMAIN m.scans /\ rows[i] = m.scans[rows[i].scan]
  BY SortedRows DEF FleetType
<1>2. m.cursor \in Nat /\ Len(rows) \in Nat /\ Len(rows) # 0
  <2> HIDE DEF rows
  <2> QED BY <1>1, EmptySeq DEF FleetType, rows
<1>3. OpenPanel(m) = n
  BY DEF OpenPanel
<1> HIDE DEF rows
<1>4. at \in Nat /\ at + 1 \in DOMAIN rows
  BY <1>1, <1>2
<1>5. row \in Event /\ row.scan \in DOMAIN m.scans /\ row = m.scans[row.scan]
  <2> HIDE DEF at
  <2> QED BY <1>1, <1>4
<1> HIDE DEF at, row
<1>6. /\ DOMAIN d = DetailFields /\ d.scan = row.scan /\ d.latest = <<row>> /\ d.loading = TRUE
      /\ d.history = <<>> /\ d.findings = NewFindings
  BY DetailStart DEF DetailFields
<1> HIDE DEF d
<1>7. /\ DOMAIN n = FleetFields /\ n.detail = d /\ n.cursor = at /\ n.view = "detail"
      /\ n.scans = m.scans /\ n.sortCol = m.sortCol
  BY DEF FleetType, FleetFields
<1> HIDE DEF n
<1>8. d.history \in Seq(Event)
  BY <1>6
<1>9. FleetType(n)
  BY <1>4, <1>6, <1>7, <1>8, FindingsStart DEF FleetType
<1>10. row.scan \in Text
  BY <1>5 DEF Event
<1> QED BY <1>3, <1>5, <1>6, <1>7, <1>9, <1>10
\* The panel of n is that of m, or it was closed; findings that are now asked for were
\* asked for by the key k.
StaysOpen(m, n, k) ==
  /\ n.view = "detail" /\ n.detail.scan = m.detail.scan /\ n.detail.latest = m.detail.latest
  /\ n.detail.history = m.detail.history /\ n.detail.loading = m.detail.loading
  /\ n.detail.findings.loaded \in {m.detail.findings.loaded, <<>>}
  /\ n.detail.findings.loading =>
       \/ m.detail.findings.loading
       \/ ~TypesFindingFilter(m) /\ ((k.key = "tab" /\ WantsFindings(m)) \/ Retries(m, k))

\* What a key may make of the open panel.
Leads(m, n, k) ==
  /\ FleetType(n) /\ n.scans = m.scans
  /\ n.view = "list" \/ StaysOpen(m, n, k)

\* A key that does nothing.
LEMMA LeadsHere ==
  ASSUME NEW m, NEW k, FleetType(m), m.view = "detail"
  PROVE  Leads(m, m, k)
BY DEF Leads, StaysOpen

\* A key that closes the panel.
LEMMA CloseLeads ==
  ASSUME NEW m, NEW k, FleetType(m)
  PROVE  Leads(m, ClosePanel(m), k)
<1> DEFINE n == [m EXCEPT !.view = "list", !.detail = NoDetail]
<1>1. /\ DOMAIN n = FleetFields /\ n.detail = NoDetail /\ n.cursor = m.cursor /\ n.view = "list"
      /\ n.scans = m.scans /\ n.sortCol = m.sortCol
  <2> HIDE DEF NoDetail
  <2> QED BY DEF FleetType, FleetFields
<1> HIDE DEF n
<1>2. NoDetail.history \in Seq(Event)
  BY DetailStart
<1>3. FleetType(n)
  BY <1>1, <1>2, DetailStart, FindingsStart DEF FleetType
<1>4. ClosePanel(m) = n
  BY DEF ClosePanel, n
<1> QED BY <1>1, <1>3, <1>4 DEF Leads

\* A new detail d that keeps what StaysOpen keeps.
LEMMA DetailLeads ==
  ASSUME NEW m, NEW n, NEW k, NEW d, FleetType(m), m.view = "detail",
         n = [m EXCEPT !.detail = d], DOMAIN d = DetailFields,
         DOMAIN d.findings = FindingsFields, d.findings.loading \in BOOLEAN,
         d.scan = m.detail.scan, d.latest = m.detail.latest, d.history = m.detail.history,
         d.loading = m.detail.loading, d.findings.loaded \in {m.detail.findings.loaded, <<>>},
         d.findings.loading =>
           \/ m.detail.findings.loading
           \/ ~TypesFindingFilter(m) /\ ((k.key = "tab" /\ WantsFindings(m)) \/ Retries(m, k))
  PROVE  Leads(m, n, k)
<1>1. /\ DOMAIN n = FleetFields /\ n.detail = d /\ n.cursor = m.cursor /\ n.view = "detail"
      /\ n.scans = m.scans /\ n.sortCol = m.sortCol
  BY DEF FleetType, FleetFields
<1>2. FleetType(n)
  BY <1>1 DEF FleetType
<1> QED BY <1>1, <1>2 DEF Leads, StaysOpen

\* The keys of the Findings tab.
LEMMA FindingsTabKeyLeads ==
  ASSUME NEW m, NEW k, FleetType(m), m.view = "detail"
  PROVE  Leads(m, FindingsTabKey(m, k), k)
<1> DEFINE f == FindingsKey(m.detail.findings, k, m.height)
           g == [NewFindings EXCEPT !.loading = TRUE]
           df == [m.detail EXCEPT !.findings = f]
           dg == [m.detail EXCEPT !.findings = g]
<1>1. DOMAIN m.detail = DetailFields /\ DOMAIN m.detail.findings = FindingsFields
      /\ m.detail.findings.loading \in BOOLEAN /\ DOMAIN m = FleetFields
  BY DEF FleetType
<1>2. /\ DOMAIN f = FindingsFields /\ f.loaded = m.detail.findings.loaded
      /\ f.loading = m.detail.findings.loading
  BY <1>1, FindingsKeyType
<1>3. DOMAIN g = FindingsFields /\ g.loaded = <<>> /\ g.loading = TRUE
  BY FindingsStart DEF FindingsFields
<1>4. CASE Retries(m, k)
  <2>1. FindingsTabKey(m, k) = [m EXCEPT !.detail = dg]
    BY <1>1, <1>4 DEF FindingsTabKey, FleetFields
  <2> HIDE DEF g
  <2>2. /\ DOMAIN dg = DetailFields /\ dg.findings = g /\ dg.scan = m.detail.scan
        /\ dg.latest = m.detail.latest /\ dg.history = m.detail.history
        /\ dg.loading = m.detail.loading
    BY <1>1 DEF DetailFields
  <2> HIDE DEF dg
  <2>3. ~TypesFindingFilter(m)
    BY <1>4 DEF TypesFindingFilter, Retries
  <2> QED BY <1>3, <1>4, <2>1, <2>2, <2>3, DetailLeads
<1>5. CASE ~Retries(m, k) /\ LeavesTab(m.detail.findings, k)
  BY <1>5, CloseLeads DEF FindingsTabKey
<1>6. CASE ~Retries(m, k) /\ ~LeavesTab(m.detail.findings, k)
  <2>1. FindingsTabKey(m, k) = [m EXCEPT !.detail = df]
    BY <1>1, <1>6 DEF FindingsTabKey, FleetFields
  <2> HIDE DEF f
  <2>2. /\ DOMAIN df = DetailFields /\ df.findings = f /\ df.scan = m.detail.scan
        /\ df.latest = m.detail.latest /\ df.history = m.detail.history
        /\ df.loading = m.detail.loading
    BY <1>1 DEF DetailFields
  <2> HIDE DEF df
  <2> QED BY <1>1, <1>2, <2>1, <2>2, DetailLeads
<1> QED BY <1>4, <1>5, <1>6

\* The keys of the Status tab.
LEMMA StatusTabKeyLeads ==
  ASSUME NEW m, NEW k, FleetType(m), m.view = "detail"
  PROVE  Leads(m, StatusTabKey(m, k), k)
<1> DEFINE du == [m.detail EXCEPT !.offset = @ - 1]
           dd == [m.detail EXCEPT !.offset = @ + 1]
<1>1. DOMAIN m.detail = DetailFields /\ DOMAIN m.detail.findings = FindingsFields
      /\ m.detail.findings.loading \in BOOLEAN /\ DOMAIN m = FleetFields
  BY DEF FleetType
<1>2. StatusTabKey(m, k) \in
        {m, ClosePanel(m), [m EXCEPT !.detail = du], [m EXCEPT !.detail = dd]}
  BY <1>1 DEF StatusTabKey, FleetFields
<1>3. /\ DOMAIN du = DetailFields /\ du.findings = m.detail.findings /\ du.scan = m.detail.scan
      /\ du.latest = m.detail.latest /\ du.history = m.detail.history
      /\ du.loading = m.detail.loading
      /\ DOMAIN dd = DetailFields /\ dd.findings = m.detail.findings /\ dd.scan = m.detail.scan
      /\ dd.latest = m.detail.latest /\ dd.history = m.detail.history
      /\ dd.loading = m.detail.loading
  BY <1>1 DEF DetailFields
<1> HIDE DEF du, dd
<1>4. Leads(m, [m EXCEPT !.detail = du], k)
  BY <1>1, <1>3, DetailLeads
<1>5. Leads(m, [m EXCEPT !.detail = dd], k)
  BY <1>1, <1>3, DetailLeads
<1> QED BY <1>2, <1>4, <1>5, LeadsHere, CloseLeads

\* tab.
LEMMA SwitchTabLeads ==
  ASSUME NEW m, NEW k, FleetType(m), m.view = "detail", k.key = "tab", ~TypesFindingFilter(m)
  PROVE  Leads(m, SwitchTab(m), k)
<1> DEFINE w == m.detail.findings.loading \/ WantsFindings(m)
           tab == IF m.detail.tab = "status" THEN "findings" ELSE "status"
           f == [m.detail.findings EXCEPT !.loading = w]
           d == [m.detail EXCEPT !.tab = tab, !.findings = f]
<1>1. DOMAIN m.detail = DetailFields /\ DOMAIN m.detail.findings = FindingsFields
      /\ m.detail.findings.loading \in BOOLEAN /\ DOMAIN m = FleetFields
  BY DEF FleetType
<1>2. SwitchTab(m) = [m EXCEPT !.detail = d]
  BY <1>1 DEF SwitchTab, FleetFields, DetailFields
<1>3. w \in BOOLEAN
  BY <1>1 DEF WantsFindings
<1>4. w => m.detail.findings.loading \/ WantsFindings(m)
  OBVIOUS
<1> HIDE DEF w, tab
<1>5. DOMAIN f = FindingsFields /\ f.loaded = m.detail.findings.loaded /\ f.loading = w
  BY <1>1 DEF FindingsFields
<1> HIDE DEF f
<1>6. /\ DOMAIN d = DetailFields /\ d.findings = f /\ d.scan = m.detail.scan
      /\ d.latest = m.detail.latest /\ d.history = m.detail.history
      /\ d.loading = m.detail.loading
  BY <1>1 DEF DetailFields
<1> HIDE DEF d
<1> QED BY <1>1, <1>2, <1>3, <1>4, <1>5, <1>6, DetailLeads

\* The keys of the panel.
LEMMA DetailKeyLeads ==
  ASSUME NEW m, NEW k, FleetType(m), m.view = "detail"
  PROVE  Leads(m, DetailKey(m, k), k)
<1> DEFINE q == [m EXCEPT !.quit = TRUE]
<1>1. Leads(m, q, k)
  BY DEF Leads, StaysOpen, FleetType, FleetFields
<1>2. CASE ~TypesFindingFilter(m) /\ k.key = "q"
  BY <1>1, <1>2 DEF DetailKey
<1>3. CASE ~TypesFindingFilter(m) /\ k.key = "tab"
  BY <1>3, SwitchTabLeads DEF DetailKey
<1>4. CASE TypesFindingFilter(m) \/ k.key \notin {"q", "tab"}
  <2>1. DetailKey(m, k) \in {FindingsTabKey(m, k), StatusTabKey(m, k)}
    BY <1>4 DEF DetailKey
  <2> QED BY <2>1, FindingsTabKeyLeads, StatusTabKeyLeads
<1> QED BY <1>2, <1>3, <1>4

-----------------------------------------------------------------------------
(* Loads.                                                                  *)

\* ListHistory's other half reads the events of one scan.
LEMMA HistoryResult ==
  ASSUME NEW events \in Seq(Event), NEW scan, NEW rows \in ShowHistory(events, scan)
  PROVE  rows \in Seq(Event) /\ \A i \in DOMAIN rows : rows[i].scan = scan
<1> DEFINE own == {i \in DOMAIN events : events[i].scan = scan}
<1>1. PICK order \in SetToSeqs(own) : rows = [k \in DOMAIN order |-> events[order[k]]]
  BY DEF ShowHistory
<1>2. IsFiniteSet(own)
  <2>1. DOMAIN events = 1..Len(events) /\ Len(events) \in Nat
    OBVIOUS
  <2>2. IsFiniteSet(DOMAIN events)
    BY <2>1, FS_Interval
  <2> QED BY <2>2, FS_Subset
<1>3. \A i \in own : events[i] \in Event /\ events[i].scan = scan
  OBVIOUS
<1> HIDE DEF own
<1>4. order \in Seq(own)
  BY <1>2, Listing
<1>5. DOMAIN order = 1..Len(order) /\ Len(order) \in Nat /\ \A k \in DOMAIN order : order[k] \in own
  BY <1>4
<1>6. rows \in [1..Len(order) -> Event]
  BY <1>1, <1>3, <1>5
<1>7. rows \in Seq(Event)
  BY <1>5, <1>6
<1> QED BY <1>1, <1>3, <1>5, <1>7

\* findings.Load returns findings of its scan.
LEMMA FindingsResult ==
  ASSUME config \in Config, NEW scan, NEW result \in FindingsResults(scan)
  PROVE  /\ result.err \in BOOLEAN /\ result.rows \in Seq(Finding)
         /\ DOMAIN result = {"err", "rows"}
         /\ \A i \in DOMAIN result.rows : result.rows[i].scan = scan
<1> DEFINE list == config.reports
           own == {i \in DOMAIN list : list[i].scan = scan}
           bare == {i \in own : list[i].replica = ""}
           file == Resolved(list, scan)
<1>1. list \in Seq(Report)
  BY ConfigScript
<1> HIDE DEF list
<1>2. DOMAIN list \subseteq Nat /\ \A i \in DOMAIN list : list[i] \in Report
  BY <1>1
<1>3. own \subseteq Nat /\ bare \subseteq own
  BY <1>2
<1>4. own # {} => Min(own) \in own
  <2> HIDE DEF own
  <2> QED BY <1>3, LeastIsIn
<1>5. bare # {} => Min(bare) \in own
  <2> HIDE DEF own, bare
  <2>1. bare \subseteq Nat
    BY <1>3
  <2> QED BY <1>3, <2>1, LeastIsIn
<1>6. file = <<>> \/ \E i \in own : file = <<list[i]>>
  <2>1. file = IF bare # {} THEN <<list[Min(bare)]>>
               ELSE IF own # {} THEN <<list[Min(own)]>> ELSE <<>>
    BY DEF Resolved
  <2> HIDE DEF own, bare, file
  <2> QED BY <1>4, <1>5, <2>1
<1>7. CASE file = <<>>
  <2>1. result = [NoResult EXCEPT !.err = TRUE]
    BY <1>7 DEF FindingsResults, list
  <2>2. result = [err |-> TRUE, rows |-> <<>>]
    BY <2>1 DEF NoResult
  <2>3. <<>> \in Seq(Finding) /\ DOMAIN <<>> = {}
    OBVIOUS
  <2> QED BY <2>2, <2>3
<1>8. CASE \E i \in own : file = <<list[i]>>
  <2>1. PICK r \in Report : file = <<r>> /\ r.scan = scan
    BY <1>2, <1>8
  <2>2. r.rows \in Seq(Finding) /\ \A i \in DOMAIN r.rows : r.rows[i].scan = scan
    BY <2>1 DEF Report
  <2>3. file # <<>> /\ file[1] = r
    BY <2>1
  <2> HIDE DEF file
  <2>4. PICK n \in 0..Len(r.rows) : result = [NoResult EXCEPT !.rows = SubSeq(r.rows, 1, n)]
    BY <2>3 DEF FindingsResults, file, list
  <2>5. result = [err |-> FALSE, rows |-> SubSeq(r.rows, 1, n)]
    BY <2>4 DEF NoResult
  <2>6. /\ SubSeq(r.rows, 1, n) \in Seq(Finding)
        /\ \A i \in DOMAIN SubSeq(r.rows, 1, n) : SubSeq(r.rows, 1, n)[i].scan = scan
    BY <2>2
  <2> QED BY <2>5, <2>6
<1> QED BY <1>6, <1>7, <1>8

\* The results without rows.
LEMMA NoResultType ==
  /\ NoResult = [err |-> FALSE, rows |-> <<>>]
  /\ \A r : r = [NoResult EXCEPT !.err = TRUE] => r = [err |-> TRUE, rows |-> <<>>]
  /\ <<>> \in Seq(Event) /\ DOMAIN <<>> = {}
<1>1. NoResult = [err |-> FALSE, rows |-> <<>>]
  BY DEF NoResult
<1>2. ASSUME NEW r, r = [NoResult EXCEPT !.err = TRUE]
      PROVE  r = [err |-> TRUE, rows |-> <<>>]
  BY <1>2 DEF NoResult
<1>3. <<>> \in Seq(Event) /\ DOMAIN <<>> = {}
  OBVIOUS
<1> QED BY <1>1, <1>2, <1>3

\* A load that starts is added to the loads.
LEMMA AddLoad ==
  ASSUME NEW list \in Seq(Load), LoadsOwn(list), NEW kind \in {"history", "findings"},
         NEW scan \in Text
  PROVE  LET more == list \o <<NewLoad(kind, scan)>> IN
         /\ more \in Seq(Load) /\ LoadsOwn(more)
         /\ Awaited(more, kind, scan)
         /\ \A k, s : Awaited(list, k, s) => Awaited(more, k, s)
         /\ \A k, s : Awaited(more, k, s) /\ k # kind => Awaited(list, k, s)
<1> DEFINE x == NewLoad(kind, scan)
           more == list \o <<x>>
<1>1. /\ x \in Load /\ x.kind = kind /\ x.scan = scan /\ x.at = "asked"
      /\ x.result.rows = <<>>
  BY NoResultType DEF NewLoad, Load
<1> HIDE DEF x
<1>2. /\ more \in Seq(Load) /\ DOMAIN list = 1..Len(list) /\ Len(list) \in Nat
      /\ DOMAIN more = 1..(Len(list) + 1)
      /\ more[Len(list) + 1] = x /\ \A i \in 1..Len(list) : more[i] = list[i]
  BY <1>1
<1> HIDE DEF more
<1>3. \A i \in DOMAIN more : i = Len(list) + 1 \/ i \in DOMAIN list
  BY <1>2
<1>4. LoadsOwn(more)
  <2> SUFFICES ASSUME NEW i \in DOMAIN more
               PROVE  /\ \A k \in DOMAIN more[i].result.rows :
                           more[i].result.rows[k].scan = more[i].scan
                      /\ more[i].kind = "history" => more[i].result.rows \in Seq(Event)
    BY DEF LoadsOwn
  <2>1. CASE i = Len(list) + 1
    <3>1. more[i].result.rows = <<>>
      BY <2>1, <1>1, <1>2
    <3> QED BY <3>1, NoResultType
  <2>2. CASE i \in DOMAIN list
    BY <2>2, <1>2 DEF LoadsOwn
  <2> QED BY <2>1, <2>2, <1>3
<1>5. Awaited(more, kind, scan)
  BY <1>1, <1>2 DEF Awaited
<1>6. \A k, s : Awaited(list, k, s) => Awaited(more, k, s)
  BY <1>2 DEF Awaited
<1>7. \A k, s : Awaited(more, k, s) /\ k # kind => Awaited(list, k, s)
  BY <1>1, <1>2, <1>3 DEF Awaited
<1> QED BY <1>2, <1>4, <1>5, <1>6, <1>7 DEF more, x

\* A load goes on.
LEMMA SetLoad ==
  ASSUME NEW list \in Seq(Load), LoadsOwn(list), NEW i \in DOMAIN list,
         NEW at \in {"read", "over"},
         NEW result \in [err : BOOLEAN, rows : Seq(Event) \cup Seq(Finding)],
         \A k \in DOMAIN result.rows : result.rows[k].scan = list[i].scan,
         list[i].kind = "history" => result.rows \in Seq(Event)
  PROVE  LET more == [list EXCEPT ![i] = [@ EXCEPT !.at = at, !.result = result]] IN
         /\ more \in Seq(Load) /\ LoadsOwn(more)
         /\ \A k, s : Awaited(more, k, s) /\ (at = "over" \/ list[i].at # "over")
                        => Awaited(list, k, s)
         /\ \A k, s : /\ Awaited(list, k, s)
                      /\ at # "over" \/ <<k, s>> # <<list[i].kind, list[i].scan>>
                      => Awaited(more, k, s)
<1> DEFINE x == [list[i] EXCEPT !.at = at, !.result = result]
           more == [list EXCEPT ![i] = x]
<1>1. list[i] \in Load
  OBVIOUS
<1>2. /\ x \in Load /\ x.kind = list[i].kind /\ x.scan = list[i].scan /\ x.at = at
      /\ x.result = result
  BY <1>1 DEF Load
<1> HIDE DEF x
<1>3. /\ more \in Seq(Load) /\ DOMAIN more = DOMAIN list /\ more[i] = x
      /\ \A j \in DOMAIN list : j # i => more[j] = list[j]
  BY <1>2
<1> HIDE DEF more
<1>4. LoadsOwn(more)
  <2> SUFFICES ASSUME NEW j \in DOMAIN more
               PROVE  /\ \A k \in DOMAIN more[j].result.rows :
                           more[j].result.rows[k].scan = more[j].scan
                      /\ more[j].kind = "history" => more[j].result.rows \in Seq(Event)
    BY DEF LoadsOwn
  <2>1. CASE j = i
    BY <2>1, <1>2, <1>3
  <2>2. CASE j # i
    BY <2>2, <1>3 DEF LoadsOwn
  <2> QED BY <2>1, <2>2
<1>5. ASSUME NEW k, NEW s, Awaited(more, k, s), at = "over" \/ list[i].at # "over"
      PROVE  Awaited(list, k, s)
  <2>1. PICK j \in DOMAIN list : more[j].kind = k /\ more[j].at # "over" /\ more[j].scan = s
    BY <1>3, <1>5 DEF Awaited
  <2>2. CASE j = i
    BY <2>1, <2>2, <1>2, <1>3, <1>5 DEF Awaited
  <2>3. CASE j # i
    BY <2>1, <2>3, <1>3 DEF Awaited
  <2> QED BY <2>2, <2>3
<1>6. ASSUME NEW k, NEW s, Awaited(list, k, s),
             at # "over" \/ <<k, s>> # <<list[i].kind, list[i].scan>>
      PROVE  Awaited(more, k, s)
  <2>1. PICK j \in DOMAIN list : list[j].kind = k /\ list[j].at # "over" /\ list[j].scan = s
    BY <1>6 DEF Awaited
  <2>2. CASE j = i
    BY <2>1, <2>2, <1>2, <1>3, <1>6 DEF Awaited
  <2>3. CASE j # i
    BY <2>1, <2>3, <1>3 DEF Awaited
  <2> QED BY <2>2, <2>3
<1> QED BY <1>3, <1>4, <1>5, <1>6 DEF more, x

\* What Loading says of the loads.
LEMMA LoadingAwaits ==
  ASSUME NEW kind
  PROVE  Loading(kind) <=> model.view = "detail" /\ Awaited(loads, kind, model.detail.scan)
BY DEF Loading, Awaited, IsOpen

-----------------------------------------------------------------------------
(* Steps and the panel.                                                    *)

\* A step that shows the same panel.
LEMMA PanelKept ==
  ASSUME PanelInv, Keeps(model, model'), UNCHANGED <<loads, evicted, kept>>
  PROVE  PanelInv'
<1>1. /\ FleetType(model') /\ loads' \in Seq(Load) /\ LoadsOwn(loads')
      /\ model'.view = "list" => kept' = {}
  BY DEF PanelInv, Keeps
<1>2. model'.view = "detail" => OpenPanelInv(model', loads', evicted', kept')
  BY DEF PanelInv, Keeps, OpenPanelInv
<1> QED BY <1>1, <1>2 DEF PanelInv

\* A step that changes no model.
LEMMA KeepsHere ==
  ASSUME FleetType(model), model' = model
  PROVE  Keeps(model, model')
BY DEF Keeps

\* A load reads.
LEMMA LoadReadsPanel ==
  ASSUME PanelInv, TypeInv, LoadReads
  PROVE  PanelInv'
<1>1. model' = model /\ kept' = kept /\ evicted' = evicted /\ stream \in Seq(Event)
      /\ config \in Config /\ loads \in Seq(Load) /\ LoadsOwn(loads)
  BY DEF LoadReads, panelSame, PanelInv, TypeInv
<1> DEFINE Results(i) ==
             (IF loads[i].kind = "history"
                THEN {[NoResult EXCEPT !.rows = rows] :
                       rows \in ShowHistory(stream, loads[i].scan)}
                ELSE FindingsResults(loads[i].scan))
             \cup (IF config.loadFails THEN {[NoResult EXCEPT !.err = TRUE]} ELSE {})
<1>2. PICK i \in DOMAIN loads :
        /\ loads[i].at = "asked"
        /\ \E result \in Results(i) :
             loads' = [loads EXCEPT ![i] = [@ EXCEPT !.at = "read", !.result = result]]
  BY DEF LoadReads
<1>3. PICK result \in Results(i) :
        loads' = [loads EXCEPT ![i] = [@ EXCEPT !.at = "read", !.result = result]]
  BY <1>2
<1>4. /\ result \in [err : BOOLEAN, rows : Seq(Event) \cup Seq(Finding)]
      /\ \A k \in DOMAIN result.rows : result.rows[k].scan = loads[i].scan
      /\ loads[i].kind = "history" => result.rows \in Seq(Event)
  <2>1. CASE loads[i].kind = "history" /\ result \in {[NoResult EXCEPT !.rows = rows] :
                                            rows \in ShowHistory(stream, loads[i].scan)}
    <3>1. PICK rows \in ShowHistory(stream, loads[i].scan) :
            result = [NoResult EXCEPT !.rows = rows]
      BY <2>1
    <3>2. rows \in Seq(Event) /\ \A k \in DOMAIN rows : rows[k].scan = loads[i].scan
      BY <1>1, HistoryResult
    <3>3. result = [err |-> FALSE, rows |-> rows]
      BY <3>1 DEF NoResult
    <3> QED BY <3>2, <3>3
  <2>2. CASE loads[i].kind # "history" /\ result \in FindingsResults(loads[i].scan)
    <3>1. /\ result.err \in BOOLEAN /\ result.rows \in Seq(Finding)
          /\ DOMAIN result = {"err", "rows"}
          /\ \A k \in DOMAIN result.rows : result.rows[k].scan = loads[i].scan
          /\ result.rows \in Seq(Event) \cup Seq(Finding)
      BY <1>1, <2>2, FindingsResult
    <3>2. result = [err |-> result.err, rows |-> result.rows]
      <4>1. \/ result = [NoResult EXCEPT !.err = TRUE]
            \/ \E rows : result = [NoResult EXCEPT !.rows = rows]
        BY <2>2 DEF FindingsResults
      <4> QED BY <4>1 DEF NoResult
    <3> QED BY <2>2, <3>1, <3>2
  <2>3. CASE result = [NoResult EXCEPT !.err = TRUE]
    <3>1. result = [err |-> TRUE, rows |-> <<>>]
      BY <2>3, NoResultType
    <3> QED BY <3>1, NoResultType
  <2> QED BY <1>3, <2>1, <2>2, <2>3 DEF Results
<1>5. /\ loads' \in Seq(Load) /\ LoadsOwn(loads')
      /\ \A k, s : Awaited(loads', k, s) <=> Awaited(loads, k, s)
  BY <1>1, <1>2, <1>3, <1>4, SetLoad
<1>6. model'.view = "detail" => OpenPanelInv(model', loads', evicted', kept')
  BY <1>1, <1>5 DEF PanelInv, OpenPanelInv
<1> QED BY <1>1, <1>5, <1>6 DEF PanelInv

\* n is m with rows as the findings of its panel.
ShowsFindings(m, n, rows) ==
  /\ DOMAIN n = FleetFields /\ n.cursor = m.cursor /\ n.view = m.view /\ n.scans = m.scans
  /\ n.sortCol = m.sortCol
  /\ DOMAIN n.detail = DetailFields /\ n.detail.scan = m.detail.scan
  /\ n.detail.latest = m.detail.latest /\ n.detail.history = m.detail.history
  /\ n.detail.loading = m.detail.loading
  /\ DOMAIN n.detail.findings = FindingsFields /\ n.detail.findings.loading = FALSE
  /\ n.detail.findings.loaded = rows

\* Update for a FindingsLoadedMsg of the open panel.
LEMMA ShownFindings ==
  ASSUME NEW m, NEW rows, DOMAIN m = FleetFields, DOMAIN m.detail = DetailFields,
         DOMAIN m.detail.findings = FindingsFields
  PROVE  /\ ShowsFindings(m, [m EXCEPT !.detail.findings.loading = FALSE,
                                       !.detail.findings.err = TRUE], m.detail.findings.loaded)
         /\ ShowsFindings(m, [m EXCEPT !.detail.findings.loading = FALSE,
                                       !.detail.findings.loaded = rows,
                                       !.detail.findings.loadedOnce = TRUE], rows)
BY DEF ShowsFindings, FleetFields, DetailFields, FindingsFields

\* A result arrives.
LEMMA LoadArrivesPanel ==
  ASSUME PanelInv, LoadArrives
  PROVE  PanelInv'
<1> DEFINE d == model.detail
<1>1. /\ kept' = kept /\ evicted' = evicted /\ loads \in Seq(Load) /\ LoadsOwn(loads)
      /\ FleetType(model) /\ (model.view = "list" => kept = {})
      /\ model.view = "detail" => OpenPanelInv(model, loads, evicted, kept)
  BY DEF LoadArrives, panelSame, PanelInv
<1>2. PICK i \in DOMAIN loads :
        /\ loads[i].at = "read"
        /\ model' = IF loads[i].kind = "history"
                      THEN ShowLoadedHistory(model, loads[i].scan, loads[i].result)
                      ELSE ShowLoadedFindings(model, loads[i].scan, loads[i].result)
        /\ loads' = [loads EXCEPT ![i] = [@ EXCEPT !.at = "over", !.result = NoResult]]
  BY DEF LoadArrives
<1> DEFINE l == loads[i]
           res == l.result
<1>3. /\ l \in Load
      /\ \A k \in DOMAIN res.rows : res.rows[k].scan = l.scan
      /\ l.kind = "history" => res.rows \in Seq(Event)
  BY <1>1 DEF LoadsOwn
<1>4. /\ loads' \in Seq(Load) /\ LoadsOwn(loads')
      /\ \A k, s : Awaited(loads', k, s) => Awaited(loads, k, s)
      /\ \A k, s : Awaited(loads, k, s) /\ <<k, s>> # <<l.kind, l.scan>> => Awaited(loads', k, s)
  <2>1. NoResult \in [err : BOOLEAN, rows : Seq(Event) \cup Seq(Finding)]
    BY NoResultType
  <2>2. NoResult.rows = <<>>
    BY NoResultType
  <2>3. /\ \A k \in DOMAIN NoResult.rows : NoResult.rows[k].scan = l.scan
        /\ NoResult.rows \in Seq(Event)
    BY <2>2, NoResultType
  <2> QED BY <1>1, <1>2, <2>1, <2>3, SetLoad
<1>5. Awaited(loads, l.kind, l.scan)
  BY <1>2 DEF Awaited
<1>6. CASE ~IsOpen(model, l.scan)
  <2>1. model' = model
    BY <1>2, <1>6 DEF ShowLoadedHistory, ShowLoadedFindings
  <2>2. model.view = "detail" => OpenPanelInv(model, loads', evicted, kept)
    BY <1>1, <1>4, <1>6 DEF OpenPanelInv, IsOpen
  <2> QED BY <1>1, <1>4, <2>1, <2>2 DEF PanelInv
<1>7. CASE IsOpen(model, l.scan)
  <2>1. model.view = "detail" /\ d.scan = l.scan /\ OpenPanelInv(model, loads, evicted, kept)
    BY <1>1, <1>7 DEF IsOpen
  <2>2. DOMAIN model = FleetFields /\ DOMAIN d = DetailFields /\ DOMAIN d.findings = FindingsFields
    BY <1>1 DEF FleetType
  <2>3. CASE l.kind = "history"
    <3> DEFINE e == [d EXCEPT !.loading = FALSE, !.err = TRUE]
               h == [d EXCEPT !.loading = FALSE, !.history = res.rows]
    <3>1. \/ model' = [model EXCEPT !.detail = e]
          \/ model' = [model EXCEPT !.detail = h]
      BY <1>2, <1>7, <2>2, <2>3 DEF ShowLoadedHistory, FleetFields
    <3>2. /\ DOMAIN e = DetailFields /\ e.findings = d.findings /\ e.scan = d.scan
          /\ e.latest = d.latest /\ e.history = d.history /\ e.loading = FALSE
          /\ DOMAIN h = DetailFields /\ h.findings = d.findings /\ h.scan = d.scan
          /\ h.latest = d.latest /\ h.history = res.rows /\ h.loading = FALSE
      <4> HIDE DEF l, res
      <4> QED BY <2>2 DEF DetailFields
    <3> HIDE DEF e, h
    <3>3. PICK x : /\ model' = [model EXCEPT !.detail = x] /\ DOMAIN x = DetailFields
                   /\ x.findings = d.findings /\ x.scan = d.scan /\ x.latest = d.latest
                   /\ x.loading = FALSE /\ x.history \in {d.history, res.rows}
      BY <3>1, <3>2
    <3>4. /\ DOMAIN model' = FleetFields /\ model'.detail = x /\ model'.cursor = model.cursor
          /\ model'.view = "detail" /\ model'.scans = model.scans
          /\ model'.sortCol = model.sortCol
      BY <3>3, <2>1, <2>2 DEF FleetFields
    <3>5. x.history \in Seq(Event)
      BY <3>3, <2>3, <1>1, <1>3 DEF FleetType
    <3>6. FleetType(model')
      BY <3>3, <3>4, <3>5, <1>1 DEF FleetType
    <3>7. kept = {}
      BY <2>1, <2>3, <1>5 DEF OpenPanelInv
    <3>8. \A j \in DOMAIN x.history : x.history[j].scan = d.scan
      BY <3>3, <2>1, <1>3 DEF OpenPanelInv
    <3>9. d.findings.loading => Awaited(loads', "findings", d.scan)
      BY <2>1, <2>3, <1>4 DEF OpenPanelInv
    <3> HIDE DEF l, res
    <3>10. OpenPanelInv(model', loads', evicted', kept')
      BY <3>3, <3>4, <3>7, <3>8, <3>9, <2>1, <1>1 DEF OpenPanelInv
    <3> QED BY <3>4, <3>6, <3>10, <1>4 DEF PanelInv
  <2>4. CASE l.kind # "history"
    <3>1. \/ model' = [model EXCEPT !.detail.findings.loading = FALSE, !.detail.findings.err = TRUE]
          \/ model' = [model EXCEPT !.detail.findings.loading = FALSE,
                                    !.detail.findings.loaded = res.rows,
                                    !.detail.findings.loadedOnce = TRUE]
      BY <1>2, <1>7, <2>4, SMTT(30) DEF ShowLoadedFindings
    <3> HIDE DEF l, res
    <3>2. \E rows : ShowsFindings(model, model', rows) /\ rows \in {d.findings.loaded, res.rows}
      BY <3>1, <2>2, ShownFindings, ZenonT(40)
    <3>3. PICK rows : ShowsFindings(model, model', rows) /\ rows \in {d.findings.loaded, res.rows}
      BY <3>2
    <3> DEFINE x == model'.detail
    <3>4. /\ DOMAIN x = DetailFields
          /\ x.scan = d.scan /\ x.latest = d.latest
          /\ x.loading = d.loading /\ x.history = d.history
          /\ DOMAIN x.findings = FindingsFields /\ x.findings.loading = FALSE
          /\ x.findings.loaded \in {d.findings.loaded, res.rows}
      BY <3>3 DEF ShowsFindings
    <3>5. /\ DOMAIN model' = FleetFields /\ model'.detail = x /\ model'.cursor = model.cursor
          /\ model'.view = "detail" /\ model'.scans = model.scans
          /\ model'.sortCol = model.sortCol
      BY <3>3, <2>1 DEF ShowsFindings
    <3> HIDE DEF x
    <3>6. FleetType(model')
      BY <3>4, <3>5, <1>1 DEF FleetType
    <3>7. \A j \in DOMAIN x.findings.loaded : x.findings.loaded[j].scan = d.scan
      BY <3>4, <2>1, <1>3 DEF OpenPanelInv, l, res
    <3>8. d.loading => Awaited(loads', "history", d.scan)
      BY <2>1, <2>4, <1>4 DEF OpenPanelInv, l
    <3>9. kept # {} => ~Awaited(loads', "history", d.scan)
      BY <2>1, <1>4 DEF OpenPanelInv
    <3>10. OpenPanelInv(model', loads', evicted', kept')
      BY <3>4, <3>5, <3>7, <3>8, <3>9, <2>1, <1>1 DEF OpenPanelInv
    <3> QED BY <3>5, <3>6, <3>10, <1>4 DEF PanelInv
  <2> QED BY <2>3, <2>4
<1> QED BY <1>6, <1>7

\* A key.
LEMMA KeyPanel ==
  ASSUME PanelInv, Key
  PROVE  PanelInv'
<1> DEFINE d == model.detail
<1>1. PICK k : /\ model' = UpdateKey(model, k)
               /\ loads' = loads \o Commands(k)
  BY DEF Key
<1>2. /\ evicted' = evicted
      /\ kept' = IF model'.view = "detail" /\ model.view = "detail" THEN kept ELSE {}
  BY DEF Key, panelSame
<1>3. /\ FleetType(model) /\ loads \in Seq(Load) /\ LoadsOwn(loads)
      /\ model.view = "list" => kept = {}
      /\ model.view = "detail" => OpenPanelInv(model, loads, evicted, kept)
      /\ model.view \in {"list", "detail"}
  BY DEF PanelInv, FleetType
<1>4. ASSUME Keeps(model, model'), Commands(k) = <<>>
      PROVE  PanelInv'
  <2>1. loads' = loads
    BY <1>1, <1>3, <1>4
  <2>2. kept' = kept
    BY <1>2, <1>3, <1>4 DEF Keeps
  <2> QED BY <2>1, <2>2, <1>2, <1>4, PanelKept
<1>5. CASE model.filtering
  <2>1. model' = FleetFilterKey(model, k) /\ Commands(k) = <<>>
    BY <1>1, <1>5 DEF UpdateKey, Commands
  <2> QED BY <2>1, <1>3, <1>4, FilterKeyKeeps
<1>6. CASE ~model.filtering /\ model.view = "list" /\ (k.key # "enter" \/ Sorted(model) = <<>>)
  <2>1. model' = ListKey(model, k) /\ Commands(k) = <<>>
    BY <1>1, <1>6 DEF UpdateKey, Commands
  <2>2. CASE k.key # "enter"
    BY <2>1, <2>2, <1>3, <1>4, ListKeyKeeps
  <2>3. CASE k.key = "enter" /\ Sorted(model) = <<>>
    <3>1. model' = model
      BY <2>1, <2>3 DEF ListKey, OpenPanel
    <3> QED BY <2>1, <3>1, <1>3, <1>4, KeepsHere
  <2> QED BY <1>6, <2>2, <2>3
<1>7. CASE ~model.filtering /\ model.view = "list" /\ k.key = "enter" /\ Sorted(model) # <<>>
  <2> DEFINE n == OpenPanel(model)
  <2>1. model' = n /\ Commands(k) = <<NewLoad("history", n.detail.scan)>>
    BY <1>1, <1>7 DEF UpdateKey, Commands, ListKey
  <2>2. /\ FleetType(n) /\ n.view = "detail" /\ n.scans = model.scans
        /\ n.detail.scan \in DOMAIN model.scans /\ n.detail.scan \in Text
        /\ n.detail.latest = <<model.scans[n.detail.scan]>>
        /\ n.detail.history = <<>> /\ n.detail.findings = NewFindings
    BY <1>3, <1>7, OpenPanelType
  <2> HIDE DEF n
  <2>3. loads' \in Seq(Load) /\ LoadsOwn(loads') /\ Awaited(loads', "history", n.detail.scan)
    BY <2>1, <2>2, <1>1, <1>3, AddLoad
  <2>4. kept' = {}
    BY <2>1, <1>2, <1>7
  <2>5. DOMAIN <<>> = {}
    OBVIOUS
  <2>6. OpenPanelInv(n, loads', evicted, {})
    BY <2>2, <2>3, <2>5, FindingsStart DEF OpenPanelInv
  <2> QED BY <2>1, <2>2, <2>3, <2>4, <2>6, <1>2 DEF PanelInv
<1>8. CASE ~model.filtering /\ model.view = "detail"
  <2> DEFINE asks == /\ ~TypesFindingFilter(model)
                     /\ ((k.key = "tab" /\ WantsFindings(model)) \/ Retries(model, k))
  <2>1. /\ model' = DetailKey(model, k)
        /\ Commands(k) = IF asks THEN <<NewLoad("findings", d.scan)>> ELSE <<>>
    BY <1>1, <1>8 DEF UpdateKey, Commands
  <2>2. Leads(model, model', k)
    BY <2>1, <1>3, <1>8, DetailKeyLeads
  <2>3. OpenPanelInv(model, loads, evicted, kept) /\ d.scan \in Text
    BY <1>3, <1>8 DEF OpenPanelInv
  <2>4. /\ loads' \in Seq(Load) /\ LoadsOwn(loads')
        /\ asks => Awaited(loads', "findings", d.scan)
        /\ \A kind, s : Awaited(loads, kind, s) => Awaited(loads', kind, s)
        /\ \A s : Awaited(loads', "history", s) => Awaited(loads, "history", s)
    <3>1. CASE asks
      <4>1. loads' = loads \o <<NewLoad("findings", d.scan)>>
        BY <1>1, <2>1, <3>1
      <4> HIDE DEF asks
      <4> QED BY <4>1, <2>3, <1>3, AddLoad
    <3>2. CASE ~asks
      <4>1. loads' = loads
        BY <1>1, <1>3, <2>1, <3>2
      <4> HIDE DEF asks
      <4> QED BY <4>1, <1>3, <3>2
    <3> QED BY <3>1, <3>2
  <2>5. CASE model'.view = "list"
    BY <2>2, <2>4, <2>5, <1>2 DEF PanelInv, Leads
  <2>6. CASE StaysOpen(model, model', k)
    <3> DEFINE e == model'.detail
    <3>1. /\ model'.view = "detail" /\ e.scan = d.scan /\ e.latest = d.latest
          /\ e.history = d.history /\ e.loading = d.loading
          /\ e.findings.loaded \in {d.findings.loaded, <<>>}
          /\ e.findings.loading => d.findings.loading \/ asks
      BY <2>6 DEF StaysOpen
    <3> HIDE DEF asks
    <3>2. kept' = kept /\ model'.scans = model.scans /\ FleetType(model')
      BY <2>2, <3>1, <1>2, <1>8 DEF Leads
    <3>3. e.findings.loading => Awaited(loads', "findings", d.scan)
      BY <3>1, <2>3, <2>4 DEF OpenPanelInv
    <3>4. \A i \in DOMAIN e.findings.loaded : e.findings.loaded[i].scan = d.scan
      <4>1. DOMAIN <<>> = {}
        OBVIOUS
      <4> QED BY <4>1, <3>1, <2>3 DEF OpenPanelInv
    <3> HIDE DEF e
    <3>5. /\ d.loading => Awaited(loads', "history", d.scan)
          /\ kept # {} => ~Awaited(loads', "history", d.scan)
      BY <2>3, <2>4 DEF OpenPanelInv
    <3>6. OpenPanelInv(model', loads', evicted', kept')
      BY <3>1, <3>2, <3>3, <3>4, <3>5, <2>3, <1>2 DEF OpenPanelInv, e
    <3> QED BY <3>1, <3>2, <3>6, <2>4 DEF PanelInv
  <2> QED BY <2>2, <2>5, <2>6 DEF Leads
<1> QED BY <1>3, <1>5, <1>6, <1>7, <1>8

\* detailState.appendEvent adds the event or has one that looks the same.
LEMMA AppendEventType ==
  ASSUME NEW history \in Seq(Event), NEW ev \in Event
  PROVE  LET h == AppendEvent(history, ev) IN
         /\ h \in Seq(Event)
         /\ \A i \in DOMAIN h : (i \in DOMAIN history /\ h[i] = history[i]) \/ h[i] = ev
         /\ \A i \in DOMAIN history : i \in DOMAIN h /\ h[i] = history[i]
         /\ \E i \in DOMAIN h : h[i].ts = ev.ts /\ h[i].state = ev.state
<1>1. CASE \E i \in DOMAIN history : history[i].ts = ev.ts /\ history[i].state = ev.state
  BY <1>1 DEF AppendEvent
<1>2. CASE ~\E i \in DOMAIN history : history[i].ts = ev.ts /\ history[i].state = ev.state
  <2>1. AppendEvent(history, ev) = Append(history, ev)
    BY <1>2 DEF AppendEvent
  <2> DEFINE h == Append(history, ev)
  <2>2. /\ h \in Seq(Event) /\ Len(history) \in Nat
        /\ DOMAIN history = 1..Len(history) /\ DOMAIN h = 1..(Len(history) + 1)
        /\ h[Len(history) + 1] = ev /\ \A i \in 1..Len(history) : h[i] = history[i]
    OBVIOUS
  <2> HIDE DEF h
  <2>3. \A i \in DOMAIN h : i \in DOMAIN history \/ i = Len(history) + 1
    BY <2>2
  <2>4. Len(history) + 1 \in DOMAIN h
    BY <2>2
  <2> QED BY <2>1, <2>2, <2>3, <2>4 DEF h
<1> QED BY <1>1, <1>2

\* The program takes an event.
LEMMA ReceivePanel ==
  ASSUME PanelInv, TypeInv, Receive
  PROVE  PanelInv'
<1> DEFINE d == model.detail
           ev == Head(sending)
           R == Tabled(model.scans, ev)
           x == DetailAfter(model, ev)
<1>1. /\ FleetType(model) /\ loads \in Seq(Load) /\ LoadsOwn(loads)
      /\ model.view = "list" => kept = {}
      /\ model.view = "detail" => OpenPanelInv(model, loads, evicted, kept)
      /\ IsTable(model.scans) /\ d.history \in Seq(Event)
  BY DEF PanelInv, FleetType
<1>2. ev \in Event
  <2>1. sending \in Seq(Event) /\ sending # <<>>
    BY DEF TypeInv, Receive
  <2> QED BY <2>1
<1>3. /\ model' \in FoldEvent(model, ev)
      /\ evicted' = evicted \cup ((DOMAIN model.scans \cup {ev.scan}) \ DOMAIN model'.scans)
      /\ kept' = IF Accepted(ev) /\ ~Loading("history") THEN kept \cup {ev} ELSE kept
      /\ loads' = loads
  BY DEF Receive, pumpSame
<1> HIDE DEF ev
<1>4. /\ DOMAIN model.scans \cup {ev.scan} \subseteq DOMAIN model'.scans \cup evicted'
      /\ DOMAIN model'.scans \subseteq DOMAIN model.scans \cup {ev.scan}
      /\ \A s \in DOMAIN model'.scans : model'.scans[s] = R[s]
  <2>1. DOMAIN model = FleetFields
    BY <1>1 DEF FleetType
  <2> QED BY <2>1, <1>3, FoldModel
<1>5. Follows(model.scans, ev, R)
  BY <1>1, <1>2, TabledRow DEF IsTable
<1>6. R[ev.scan] = Snapshot(model.scans, ev)
  BY DEF Tabled, Snapshot, Displays, Supersedes
<1> HIDE DEF R
<1>7. PICK scans : model' = [model EXCEPT !.scans = scans, !.detail = x]
  BY <1>3 DEF FoldEvent
<1>8. /\ DOMAIN model' = FleetFields /\ model'.detail = x /\ model'.cursor = model.cursor
      /\ model'.view = model.view /\ model'.sortCol = model.sortCol
  <2> HIDE DEF x
  <2> QED BY <1>1, <1>7 DEF FleetType, FleetFields
<1>9. /\ DOMAIN x = DetailFields /\ x.scan = d.scan /\ x.findings = d.findings
      /\ x.loading = d.loading
      /\ x.history \in {d.history, AppendEvent(d.history, ev)}
      /\ Accepted(ev) => x.history = AppendEvent(d.history, ev)
      /\ x.latest = IF IsOpen(model, ev.scan) THEN <<Snapshot(model.scans, ev)>> ELSE d.latest
      /\ ~IsOpen(model, ev.scan) => x.history = d.history
  <2> DEFINE h == IF ev.scan \in DOMAIN model.scans => Displays(ev, model.scans[ev.scan])
                    THEN AppendEvent(d.history, ev) ELSE d.history
             n == [d EXCEPT !.latest = <<Snapshot(model.scans, ev)>>, !.history = h]
  <2>1. DOMAIN d = DetailFields /\ model.view \in {"list", "detail"}
    BY <1>1 DEF FleetType
  <2>2. CASE IsOpen(model, ev.scan)
    <3>1. x = n
      BY <2>2 DEF DetailAfter, IsOpen
    <3>2. h \in {d.history, AppendEvent(d.history, ev)}
          /\ (Accepted(ev) => h = AppendEvent(d.history, ev))
      BY DEF Accepted
    <3> HIDE DEF h
    <3>3. /\ DOMAIN n = DetailFields /\ n.scan = d.scan /\ n.findings = d.findings
          /\ n.loading = d.loading /\ n.history = h /\ n.latest = <<Snapshot(model.scans, ev)>>
      BY <2>1 DEF DetailFields
    <3> HIDE DEF n, x
    <3> QED BY <2>2, <3>1, <3>2, <3>3
  <2>3. CASE ~IsOpen(model, ev.scan)
    <3>1. x = d
      BY <2>1, <2>3 DEF DetailAfter, IsOpen
    <3> HIDE DEF x
    <3> QED BY <2>1, <2>3, <3>1 DEF Accepted
  <2> QED BY <2>2, <2>3
<1> HIDE DEF x
<1> DEFINE h == AppendEvent(d.history, ev)
<1>10. /\ h \in Seq(Event)
       /\ \A i \in DOMAIN h : (i \in DOMAIN d.history /\ h[i] = d.history[i]) \/ h[i] = ev
       /\ \A i \in DOMAIN d.history : i \in DOMAIN h /\ h[i] = d.history[i]
       /\ \E i \in DOMAIN h : h[i].ts = ev.ts /\ h[i].state = ev.state
  BY <1>1, <1>2, AppendEventType
<1>11. x.history \in {d.history, h} /\ (Accepted(ev) => x.history = h)
  BY <1>9
<1> HIDE DEF h
<1>12. x.history \in Seq(Event)
  BY <1>1, <1>10, <1>11
<1>13. IsTable(model'.scans)
  BY <1>1, <1>4, <1>5 DEF IsTable, Follows
<1>14. IsFiniteSet(DOMAIN model'.scans)
  <2>1. IsFiniteSet(DOMAIN model.scans \cup {ev.scan})
    BY <1>1, FS_AddElement DEF FleetType
  <2> QED BY <2>1, <1>4, FS_Subset
<1>15. FleetType(model')
  BY <1>1, <1>8, <1>9, <1>12, <1>13, <1>14 DEF FleetType
<1>16. CASE model.view = "list"
  <2>1. kept' = kept
    BY <1>3, <1>16 DEF Accepted, IsOpen
  <2> QED BY <2>1, <1>1, <1>3, <1>8, <1>15, <1>16 DEF PanelInv
<1>17. CASE model.view = "detail"
  <2>1. OpenPanelInv(model, loads, evicted, kept)
    BY <1>1, <1>17
  <2>2. x.scan \in Text /\ x.scan \in DOMAIN model'.scans \cup evicted'
    BY <2>1, <1>3, <1>4, <1>9 DEF OpenPanelInv
  <2>3. x.scan \notin evicted' => x.latest = <<model'.scans[x.scan]>>
    <3> SUFFICES ASSUME x.scan \notin evicted' PROVE x.latest = <<model'.scans[x.scan]>>
      OBVIOUS
    <3>1. model'.scans[d.scan] = R[d.scan] /\ d.scan \notin evicted /\ d.scan \in DOMAIN model.scans
      BY <2>1, <2>2, <1>3, <1>4, <1>9 DEF OpenPanelInv
    <3>2. CASE d.scan = ev.scan
      BY <3>1, <3>2, <1>6, <1>9, <1>17 DEF IsOpen
    <3>3. CASE d.scan # ev.scan
      BY <3>1, <3>3, <2>1, <1>5, <1>9 DEF IsOpen, Follows, OpenPanelInv
    <3> QED BY <3>2, <3>3
  <2>4. \A i \in DOMAIN x.history : x.history[i].scan = d.scan
    <3>1. CASE IsOpen(model, ev.scan)
      <4>1. ev.scan = d.scan
        BY <3>1 DEF IsOpen
      <4>2. \A i \in DOMAIN d.history : d.history[i].scan = d.scan
        BY <2>1 DEF OpenPanelInv
      <4> QED BY <4>1, <4>2, <1>10, <1>11
    <3>2. CASE ~IsOpen(model, ev.scan)
      BY <3>2, <2>1, <1>9 DEF OpenPanelInv
    <3> QED BY <3>1, <3>2
  <2>5. \A e \in kept' : \E i \in DOMAIN x.history :
          x.history[i].ts = e.ts /\ x.history[i].state = e.state
    <3>1. \A i \in DOMAIN d.history : i \in DOMAIN x.history /\ x.history[i] = d.history[i]
      BY <1>10, <1>11
    <3>2. ASSUME NEW e \in kept
          PROVE  \E i \in DOMAIN x.history :
                   x.history[i].ts = e.ts /\ x.history[i].state = e.state
      <4>1. PICK i \in DOMAIN d.history : d.history[i].ts = e.ts /\ d.history[i].state = e.state
        BY <2>1 DEF OpenPanelInv
      <4> QED BY <4>1, <3>1
    <3>3. Accepted(ev) => \E i \in DOMAIN x.history :
            x.history[i].ts = ev.ts /\ x.history[i].state = ev.state
      BY <1>10, <1>11
    <3> QED BY <3>2, <3>3, <1>3
  <2>6. kept' # {} => ~Awaited(loads, "history", d.scan)
    BY <2>1, <1>3, <1>17, LoadingAwaits DEF OpenPanelInv
  <2>7. OpenPanelInv(model', loads', evicted', kept')
    BY <2>1, <2>2, <2>3, <2>4, <2>5, <2>6, <1>3, <1>8, <1>9 DEF OpenPanelInv
  <2> QED BY <2>7, <1>1, <1>3, <1>8, <1>15, <1>17 DEF PanelInv
<1> QED BY <1>1, <1>16, <1>17 DEF FleetType

\* The first states satisfy the invariant.
LEMMA InitPanel ==
  ASSUME Init
  PROVE  PanelInv
<1>1. model = NewFleet /\ loads = <<>> /\ kept = {}
  BY DEF Init
<1>2. DOMAIN <<>> = {}
  OBVIOUS
<1>3. /\ DOMAIN NewFleet = FleetFields /\ NewFleet.detail = NoDetail /\ NewFleet.cursor = 0
      /\ NewFleet.sortCol = "scan" /\ NewFleet.view = "list" /\ DOMAIN NewFleet.scans = {}
  <2> HIDE DEF NoDetail
  <2> QED BY <1>2 DEF NewFleet, FleetFields
<1>4. NoDetail.history \in Seq(Event)
  BY DetailStart
<1>5. FleetType(NewFleet)
  <2>1. 0 \in Nat /\ "scan" \in ColumnNames /\ "list" \in {"list", "detail"}
    BY DEF ColumnNames
  <2>2. IsFiniteSet(DOMAIN NewFleet.scans) /\ IsTable(NewFleet.scans)
    BY <1>3, FS_EmptySet DEF IsTable
  <2> HIDE DEF NewFleet, NoDetail, NewFindings
  <2>3. /\ DOMAIN NewFleet.detail = DetailFields
        /\ DOMAIN NewFleet.detail.findings = FindingsFields
        /\ NewFleet.detail.loading \in BOOLEAN /\ NewFleet.detail.findings.loading \in BOOLEAN
        /\ NewFleet.detail.history \in Seq(Event)
    BY <1>3, <1>4, DetailStart, FindingsStart
  <2> QED BY <1>3, <2>1, <2>2, <2>3 DEF FleetType
<1>6. <<>> \in Seq(Load) /\ LoadsOwn(<<>>)
  BY <1>2 DEF LoadsOwn
<1> HIDE DEF NewFleet
<1> QED BY <1>1, <1>3, <1>5, <1>6 DEF PanelInv

\* Every step keeps it.
LEMMA NextPanel ==
  ASSUME PanelInv, TypeInv, [Next]_vars
  PROVE  PanelInv'
<1>1. FleetType(model)
  BY DEF PanelInv
<1>2. CASE Key
  BY <1>2, KeyPanel
<1>3. CASE Receive
  BY <1>3, ReceivePanel
<1>4. CASE LoadReads
  BY <1>4, LoadReadsPanel
<1>5. CASE LoadArrives
  BY <1>5, LoadArrivesPanel
<1>6. CASE Resize
  <2>1. PICK h : model' = [model EXCEPT !.height = h]
    BY <1>6 DEF Resize
  <2>2. Keeps(model, model')
    BY <2>1, <1>1 DEF Keeps, FleetType, FleetFields
  <2> QED BY <1>6, <2>2, PanelKept DEF Resize, panelSame
<1>7. CASE TailFails
  <2>1. model' = [model EXCEPT !.quit = TRUE]
    BY <1>7 DEF TailFails
  <2>2. Keeps(model, model')
    BY <2>1, <1>1 DEF Keeps, FleetType, FleetFields
  <2> QED BY <1>7, <2>2, PanelKept DEF TailFails, pumpSame
<1>8. CASE \/ Publish \/ SubscribeStatusAll \/ Seed \/ SeedFails \/ TailBatch \/ Redeliver
           \/ Waiting \/ UNCHANGED vars
  <2>1. UNCHANGED <<model, loads, evicted, kept>>
    BY <1>8 DEF Publish, SubscribeStatusAll, Seed, SeedFails, TailBatch, Redeliver, pumpSame,
                Waiting, fleetSame, vars, fleetVars
  <2> QED BY <2>1, <1>1, KeepsHere, PanelKept
<1> QED BY <1>2, <1>3, <1>4, <1>5, <1>6, <1>7, <1>8 DEF Next, Dashboard

\* It implies PanelIsSound.
LEMMA InvIsSound ==
  ASSUME PanelInv
  PROVE  PanelIsSound
<1> SUFFICES ASSUME model.view = "detail" PROVE PanelIsSound
  BY DEF PanelIsSound
<1>1. OpenPanelInv(model, loads, evicted, kept)
  BY DEF PanelInv
<1> QED BY <1>1, LoadingAwaits DEF OpenPanelInv, PanelIsSound

\* Whatever the keys, the events and the loads on their way: the open panel shows one scan,
\* waits only for loads there are, and loses no event that came while none was.
THEOREM PanelSound == Spec => []PanelIsSound
<1>1. Init => TypeInv /\ FleetInv /\ PanelInv
  BY InitInv, InitPanel
<1>2. TypeInv /\ FleetInv /\ PanelInv /\ [Next]_vars => TypeInv' /\ FleetInv' /\ PanelInv'
  BY NextInv, NextPanel
<1>3. PanelInv => PanelIsSound
  BY InvIsSound
<1> QED BY <1>1, <1>2, <1>3, PTL DEF Spec

===============================================================================
