------------------------------- MODULE BlobProofs -------------------------------
(***************************************************************************)
(* What BlobPool promises for any number of blobs and workers, any channel *)
(* and any faults: its types, that waitFirstSpawn gives the walk up only   *)
(* when no worker will ever serve it, and that the goroutines implement    *)
(* the run GetterPool is about.  The coordinator does not look at the      *)
(* workers, it counts signals: CountInv says that what it counted and what *)
(* is still on its channel are the spawns that failed.  FlowInv says where *)
(* each blob is and in which order the goroutines end, TallyInv what has   *)
(* become of those that are in no place any more.                          *)
(***************************************************************************)
EXTENDS BlobPool, FiniteSetTheorems, SequenceTheorems, TLAPS

Failed == {w \in Worker : worker[w] = "failed"}

\* Where a failed spawn is on the channel.
Bad(signals) == {i \in DOMAIN signals : signals[i] = FALSE}

CountInv ==
  /\ failures + Cardinality(Bad(spawnSig)) = Cardinality(Failed)
  /\ coord = "none spawned" => failures >= Cardinality(Worker)

PoolInv == PoolTypeOK /\ CountInv

-----------------------------------------------------------------------------
(* Counting signals.                                                       *)

LEMMA BadIsFinite ==
  ASSUME NEW q \in Seq(BOOLEAN)
  PROVE  IsFiniteSet(Bad(q)) /\ Cardinality(Bad(q)) \in Nat
<1>1. Bad(q) \in SUBSET (1 .. Len(q)) /\ Len(q) \in Nat
  BY DEF Bad
<1>2. IsFiniteSet(1 .. Len(q))
  BY <1>1, FS_Interval
<1> QED BY <1>1, <1>2, FS_Subset, FS_CardinalityType

\* A signal is sent.
LEMMA BadAppend ==
  ASSUME NEW q \in Seq(BOOLEAN), NEW ok \in BOOLEAN
  PROVE  Cardinality(Bad(Append(q, ok)))
           = IF ok = TRUE THEN Cardinality(Bad(q)) ELSE Cardinality(Bad(q)) + 1
<1>1. /\ Len(q) \in Nat /\ DOMAIN q = 1 .. Len(q) /\ DOMAIN Append(q, ok) = 1 .. Len(q) + 1
      /\ \A i \in 1 .. Len(q) : Append(q, ok)[i] = q[i]
      /\ Append(q, ok)[Len(q) + 1] = ok
  BY AppendProperties
<1>2. CASE ok = TRUE
  <2>1. Bad(Append(q, ok)) = Bad(q)
    BY <1>1, <1>2 DEF Bad
  <2> QED BY <1>2, <2>1
<1>3. CASE ok = FALSE
  <2>1. Bad(Append(q, ok)) = Bad(q) \cup {Len(q) + 1} /\ Len(q) + 1 \notin Bad(q)
    BY <1>1, <1>3 DEF Bad
  <2> QED BY <1>3, <2>1, BadIsFinite, FS_AddElement
<1> QED BY <1>2, <1>3

\* A signal is read.
LEMMA BadTail ==
  ASSUME NEW q \in Seq(BOOLEAN), q # <<>>
  PROVE  Cardinality(Bad(q))
           = IF Head(q) = TRUE THEN Cardinality(Bad(Tail(q))) ELSE Cardinality(Bad(Tail(q))) + 1
<1> DEFINE rest == Bad(q) \ {1}
<1>1. /\ Tail(q) \in Seq(BOOLEAN) /\ Len(q) \in Nat \ {0} /\ Len(Tail(q)) = Len(q) - 1
      /\ \A i \in 1 .. Len(Tail(q)) : Tail(q)[i] = q[i + 1]
      /\ Head(q) = q[1] /\ q[1] \in BOOLEAN
  BY HeadTailProperties
<1>2. Cardinality(rest) = Cardinality(Bad(Tail(q))) /\ IsFiniteSet(rest)
  <2> DEFINE move == [i \in Bad(Tail(q)) |-> i + 1]
  <2>1. \A i \in Bad(Tail(q)) : i \in Nat /\ i + 1 \in rest
    BY <1>1 DEF Bad
  <2>2. \A j \in rest : j - 1 \in Bad(Tail(q)) /\ j = (j - 1) + 1
    BY <1>1 DEF Bad
  <2>3. move \in Bijection(Bad(Tail(q)), rest)
    BY <2>1, <2>2 DEF Bijection, Injection, Surjection, IsInjective
  <2>4. ExistsBijection(Bad(Tail(q)), rest)
    BY <2>3 DEF ExistsBijection
  <2>5. IsFiniteSet(Bad(Tail(q)))
    BY <1>1, BadIsFinite
  <2> HIDE DEF rest
  <2> QED BY <2>4, <2>5, FS_Bijection
<1>3. CASE Head(q) = TRUE
  <2>1. rest = Bad(q)
    BY <1>1, <1>3 DEF Bad
  <2> QED BY <1>2, <1>3, <2>1
<1>4. CASE Head(q) = FALSE
  <2>1. 1 \in Bad(q)
    <3>1. 1 \in DOMAIN q
      BY <1>1
    <3>2. q[1] = FALSE
      BY <1>1, <1>4, Zenon
    <3> QED BY <3>1, <3>2, Zenon DEF Bad
  <2>2. Bad(q) = rest \cup {1} /\ 1 \notin rest
    BY <2>1
  <2>3. Cardinality(rest \cup {1}) = Cardinality(rest) + 1
    BY <1>2, <2>2, FS_AddElement
  <2> QED BY <1>2, <1>4, <2>2, <2>3
<1> QED BY <1>1, <1>3, <1>4

-----------------------------------------------------------------------------
(* The steps.                                                              *)

LEMMA FailedIsFinite ==
  /\ IsFiniteSet(Failed) /\ Cardinality(Failed) \in Nat
  /\ Cardinality(Worker) \in Nat
  /\ Cardinality(Failed) <= Cardinality(Worker)
  /\ Cardinality(Worker) = Cardinality(Failed) => Failed = Worker
<1>1. Failed \in SUBSET Worker
  BY DEF Failed
<1> QED BY <1>1, PoolAssumption, FS_Subset, FS_CardinalityType

\* What the type invariant says of the two channels and of the count.
LEMMA TypesOfChannels ==
  ASSUME PoolInv
  PROVE  /\ jobs \in Seq(Blob) /\ Len(jobs) <= Cap /\ Len(jobs) \in Nat
         /\ spawnSig \in Seq(BOOLEAN)
         /\ failures \in Nat
         /\ Cardinality(Bad(spawnSig)) \in Nat
<1>1. PoolTypeOK
  BY DEF PoolInv
<1>2. jobs \in Seq(Blob) /\ Len(jobs) <= Cap
  BY <1>1 DEF PoolTypeOK
<1>3. spawnSig \in Seq(BOOLEAN)
  BY <1>1 DEF PoolTypeOK
<1>4. failures \in 0 .. Cardinality(Worker)
  BY <1>1 DEF PoolTypeOK
<1>5. failures \in Nat
  BY <1>4, FailedIsFinite
<1> QED BY <1>2, <1>3, <1>5, BadIsFinite, LenProperties

LEMMA InitInv == PoolInit => PoolInv
<1> SUFFICES ASSUME PoolInit PROVE PoolInv
  OBVIOUS
<1>1. Failed = {} /\ Bad(spawnSig) = {}
  BY DEF PoolInit, Failed, Bad
<1>2. CountInv
  <2>1. Cardinality(Failed) = 0 /\ Cardinality(Bad(spawnSig)) = 0
    BY <1>1, FS_EmptySet
  <2>2. failures = 0 /\ coord = "wait"
    BY DEF PoolInit
  <2> QED BY <2>1, <2>2 DEF CountInv
<1>3. PoolTypeOK
  <2>1. failures \in 0 .. Cardinality(Worker)
    BY FailedIsFinite DEF PoolInit
  <2>2. jobs \in Seq(Blob) /\ Len(jobs) <= Cap /\ spawnSig \in Seq(BOOLEAN)
    BY PoolAssumption, EmptySeq DEF PoolInit
  <2>3. /\ worker \in [Worker -> {"spawn", "loop", "orphan", "done", "failed"}]
        /\ hand \in [Worker -> Blob \cup {NoBlob}]
        /\ \A w \in Worker : hand[w] = NoBlob
    BY DEF PoolInit
  <2> QED BY <2>1, <2>2, <2>3 DEF PoolInit, PoolTypeOK
<1> QED BY <1>2, <1>3 DEF PoolInv

\* Steps the coordinator has no part in, and no failing spawn.
LEMMA AsideKeeps ==
  ASSUME PoolInv, PoolTypeOK', UNCHANGED signVars, Failed' = Failed
  PROVE  PoolInv'
BY DEF PoolInv, CountInv, signVars

\* A worker tells how its spawn went.
LEMMA SpawnKeeps ==
  ASSUME PoolInv, NEW w \in Worker, Spawn(w)
  PROVE  PoolInv'
<1>1. PICK ok \in BOOLEAN :
        /\ worker' = [worker EXCEPT ![w] = IF ok THEN "loop" ELSE "failed"]
        /\ spawnSig' = Append(spawnSig, ok)
  BY DEF Spawn
<1>2. /\ worker[w] = "spawn"
      /\ UNCHANGED <<walkVars, jobs, hand, failures, coord, dead, outVars, result>>
  BY DEF Spawn
<1>3. spawnSig \in Seq(BOOLEAN) /\ failures \in Nat /\ Cardinality(Bad(spawnSig)) \in Nat
  BY TypesOfChannels
<1>4. PoolTypeOK'
  <2>1. spawnSig' \in Seq(BOOLEAN)
    BY <1>1, <1>3, AppendProperties
  <2>2. worker' \in [Worker -> {"spawn", "loop", "orphan", "done", "failed"}]
        /\ \A v \in Worker : hand[v] # NoBlob => worker'[v] \in {"loop", "orphan"}
    BY <1>1, <1>2 DEF PoolInv, PoolTypeOK
  <2> QED BY <1>2, <2>1, <2>2 DEF PoolInv, PoolTypeOK, walkVars, outVars
<1>5. Cardinality(Bad(spawnSig')) = IF ok = TRUE THEN Cardinality(Bad(spawnSig))
                                    ELSE Cardinality(Bad(spawnSig)) + 1
  BY <1>1, <1>3, BadAppend
<1>6. Cardinality(Failed') = IF ok = TRUE THEN Cardinality(Failed)
                             ELSE Cardinality(Failed) + 1
  <2>1. CASE ok = TRUE
    <3>1. Failed' = Failed
      BY <1>1, <1>2, <2>1 DEF Failed, PoolInv, PoolTypeOK
    <3> QED BY <2>1, <3>1
  <2>2. CASE ok = FALSE
    <3>1. Failed' = Failed \cup {w} /\ w \notin Failed
      BY <1>1, <1>2, <2>2 DEF Failed, PoolInv, PoolTypeOK
    <3>2. Cardinality(Failed \cup {w}) = Cardinality(Failed) + 1
      BY <3>1, FailedIsFinite, FS_AddElement
    <3> QED BY <2>2, <3>1, <3>2
  <2> QED BY <1>1, <2>1, <2>2
<1>7. CountInv'
  <2> DEFINE bad == Cardinality(Bad(spawnSig))
             bad1 == Cardinality(Bad(spawnSig'))
             all == Cardinality(Failed)
             all1 == Cardinality(Failed')
  <2>1. /\ failures + bad = all
        /\ failures \in Nat /\ bad \in Nat /\ all \in Nat
    BY <1>3, FailedIsFinite DEF PoolInv, CountInv
  <2>2. \/ bad1 = bad /\ all1 = all
        \/ bad1 = bad + 1 /\ all1 = all + 1
    BY <1>5, <1>6, Zenon
  <2> HIDE DEF bad, bad1, all, all1
  <2>3. failures + bad1 = all1
    BY <2>1, <2>2
  <2> QED BY <1>2, <2>3 DEF PoolInv, CountInv, bad1, all1
<1> QED BY <1>4, <1>7 DEF PoolInv

\* The coordinator reads a signal.
LEMMA CoordinateKeeps ==
  ASSUME PoolInv, Coordinate
  PROVE  PoolInv'
<1>1. /\ coord = "wait" /\ spawnSig # <<>> /\ spawnSig' = Tail(spawnSig)
      /\ UNCHANGED <<walkVars, jobs, worker, hand, dead, outVars, result>>
  BY DEF Coordinate
<1>2. spawnSig \in Seq(BOOLEAN) /\ failures \in Nat /\ Cardinality(Bad(spawnSig)) \in Nat
  BY TypesOfChannels
<1>3. spawnSig' \in Seq(BOOLEAN) /\ Failed' = Failed
  BY <1>1, <1>2, HeadTailProperties DEF Failed
<1>4. Cardinality(Bad(spawnSig)) = IF Head(spawnSig) = TRUE THEN Cardinality(Bad(spawnSig'))
                                   ELSE Cardinality(Bad(spawnSig')) + 1
  BY <1>1, <1>2, BadTail
<1>5. Head(spawnSig) \in BOOLEAN
  BY <1>1, <1>2, HeadTailProperties
<1>6. \/ Head(spawnSig) = TRUE /\ coord' = "spawned" /\ failures' = failures
      \/ /\ Head(spawnSig) = FALSE /\ failures' = failures + 1
         /\ coord' = IF failures' >= Cardinality(Worker) THEN "none spawned" ELSE "wait"
  BY <1>5 DEF Coordinate
<1>7. failures' + Cardinality(Bad(spawnSig')) = Cardinality(Failed)
  <2> DEFINE bad == Cardinality(Bad(spawnSig))
             bad1 == Cardinality(Bad(spawnSig'))
             all == Cardinality(Failed)
  <2>1. failures + bad = all /\ bad1 \in Nat /\ all \in Nat
    BY <1>3, BadIsFinite, FailedIsFinite DEF PoolInv, CountInv
  <2>2. \/ bad = bad1 /\ failures' = failures
        \/ bad = bad1 + 1 /\ failures' = failures + 1
    BY <1>4, <1>6, Zenon
  <2> HIDE DEF bad, bad1, all
  <2>3. failures' + bad1 = all
    BY <1>2, <2>1, <2>2
  <2> QED BY <2>3 DEF bad1, all
<1>8. failures' \in 0 .. Cardinality(Worker)
  <2>1. Cardinality(Bad(spawnSig')) \in Nat
    BY <1>3, BadIsFinite
  <2>2. failures' = failures \/ failures' = failures + 1
    BY <1>6, Zenon
  <2>3. failures' \in Nat
    BY <1>2, <2>2
  <2> QED BY <1>7, <2>1, <2>3, FailedIsFinite
<1>9. CountInv'
  BY <1>3, <1>6, <1>7 DEF CountInv
<1>10. PoolTypeOK'
  BY <1>1, <1>3, <1>6, <1>8 DEF PoolInv, PoolTypeOK, walkVars, outVars
<1> QED BY <1>9, <1>10 DEF PoolInv

LEMMA StepInv == PoolInv /\ [PoolNext]_poolVars => PoolInv'
<1> SUFFICES ASSUME PoolInv, [PoolNext]_poolVars PROVE PoolInv'
  OBVIOUS
<1>1. ASSUME NEW b \in Blob, Emit(b) PROVE PoolInv'
  <2>1. /\ jobs' \in Seq(Blob) /\ Len(jobs') = Len(jobs) + 1 /\ Len(jobs) \in Nat
    <3>1. b \in Blob /\ jobs' = Append(jobs, b)
      BY <1>1 DEF Emit
    <3> QED BY <3>1, TypesOfChannels, AppendProperties
  <2>2. Len(jobs') <= Cap
    BY <1>1, <2>1, PoolAssumption DEF Emit
  <2>3. PoolTypeOK'
    BY <1>1, <2>1, <2>2 DEF Emit, PoolInv, PoolTypeOK, signVars, outVars
  <2> QED BY <1>1, <2>3, AsideKeeps DEF Emit, Failed
<1>2. ASSUME NEW err \in {"nil", "ctx", "git"}, WalkEnds(err) PROVE PoolInv'
  <2>1. PoolTypeOK'
    BY <1>2 DEF WalkEnds, PoolInv, PoolTypeOK, signVars, outVars
  <2> QED BY <1>2, <2>1, AsideKeeps DEF WalkEnds, Failed
<1>3. ASSUME NEW w \in Worker, Take(w) PROVE PoolInv'
  <2>1. /\ Head(jobs) \in Blob /\ jobs' \in Seq(Blob)
        /\ Len(jobs') = Len(jobs) - 1 /\ Len(jobs) \in Nat
    <3>1. jobs # <<>> /\ jobs' = Tail(jobs)
      BY <1>3 DEF Take
    <3> QED BY <3>1, TypesOfChannels, HeadTailProperties
  <2>2. Len(jobs') <= Cap
    BY <2>1, PoolAssumption, TypesOfChannels
  <2>3. PoolTypeOK'
    BY <1>3, <2>1, <2>2 DEF Take, PoolInv, PoolTypeOK, walkVars, signVars, outVars
  <2> QED BY <1>3, <2>3, AsideKeeps DEF Take, Failed
<1>4. ASSUME NEW w \in Worker, Leave(w) PROVE PoolInv'
  <2>1. PoolTypeOK'
    BY <1>4 DEF Leave, PoolInv, PoolTypeOK, walkVars, signVars, outVars
  <2>2. Failed' = Failed
    BY <1>4 DEF Leave, Failed, PoolInv, PoolTypeOK
  <2> QED BY <1>4, <2>1, <2>2, AsideKeeps DEF Leave
<1>5. ASSUME NEW w \in Worker, Process(w) \/ CutShort(w) \/ ProcessFails(w) PROVE PoolInv'
  <2>1. /\ hand[w] \in Blob /\ worker[w] \in {"loop", "orphan"}
        /\ hand' = [hand EXCEPT ![w] = NoBlob]
        /\ worker' = worker \/ worker' = [worker EXCEPT ![w] = "orphan"]
        /\ UNCHANGED <<walkVars, jobs, signVars, dead, result>>
    BY <1>5 DEF Process, CutShort, ProcessFails, Answered, PoolInv, PoolTypeOK
  <2>2. /\ chunks' \subseteq Blob /\ scanned' \subseteq Blob /\ errs' \in BOOLEAN
        /\ cut' \in [Worker -> Blob \cup {NoBlob}]
    BY <1>5, <2>1 DEF Process, CutShort, ProcessFails, Answered, PoolInv, PoolTypeOK
  <2>3. PoolTypeOK'
    BY <2>1, <2>2 DEF PoolInv, PoolTypeOK, walkVars, signVars
  <2>4. Failed' = Failed
    BY <2>1 DEF Failed, PoolInv, PoolTypeOK
  <2> QED BY <2>1, <2>3, <2>4, AsideKeeps
<1>6. CASE Return \/ Cancel
  <2>1. PoolTypeOK'
    BY <1>6 DEF Return, Cancel, PoolInv, PoolTypeOK, walkVars, signVars, outVars
  <2> QED BY <1>6, <2>1, AsideKeeps DEF Return, Cancel, Failed
<1>7. CASE UNCHANGED poolVars
  <2>1. PoolTypeOK'
    BY <1>7 DEF poolVars, PoolInv, PoolTypeOK, walkVars, signVars, outVars
  <2> QED BY <1>7, <2>1, AsideKeeps DEF poolVars, Failed
<1> QED BY <1>1, <1>2, <1>3, <1>4, <1>5, <1>6, <1>7, SpawnKeeps, CoordinateKeeps
       DEF PoolNext, WalkerStep, WorkerStep, Over

-----------------------------------------------------------------------------
(* Where a blob is.                                                        *)

OnChannel == {jobs[i] : i \in DOMAIN jobs}

\* A blob is in one place: still to be walked, once on the channel, or in one hand.
PlaceInv ==
  /\ \A i, j \in DOMAIN jobs : jobs[i] = jobs[j] => i = j
  /\ \A v, w \in Worker : hand[v] = hand[w] /\ hand[v] # NoBlob => v = w
  /\ \A w \in Worker : hand[w] \notin OnChannel
  /\ left \cap Emitted = {}

\* Workers leave when the channel is closed and drained; the caller returns when they
\* are gone, and the walk with them or hopeless; a walk ends well with nothing left.
OrderInv ==
  /\ walker = "nil" => left = {}
  /\ \A w \in Worker : worker[w] = "done" => walker # "on" /\ jobs = <<>>
  /\ result # "none" => AllGone
  /\ result = "nil" => walker = "nil" /\ \A w \in Worker : worker[w] = "done"

\* A blob that is in no place any more was scanned, unless an error was counted or the
\* walk failed; what was scanned was published, but for the blob a worker was in the
\* middle of when it lost its cat-file.
TallyInv ==
  /\ \/ Blob \subseteq left \cup Emitted \cup scanned
     \/ errs = TRUE
     \/ walker \in {"ctx", "git"}
  /\ scanned \subseteq chunks \cup CutOff
  /\ \A w \in Worker : cut[w] # NoBlob => worker[w] \in {"orphan", "done"}

FlowInv == PlaceInv /\ OrderInv /\ TallyInv

LEMMA InitFlow == PoolInit => FlowInv
BY DEF PoolInit, FlowInv, PlaceInv, OrderInv, TallyInv, OnChannel, Emitted, AllGone

\* Appending to the channel, and taking its head.
LEMMA ChannelGrows ==
  ASSUME PoolTypeOK, NEW b \in Blob, jobs' = Append(jobs, b)
  PROVE  /\ OnChannel' = OnChannel \cup {b}
         /\ PlaceInv /\ b \notin OnChannel
              => \A i, j \in DOMAIN jobs' : jobs'[i] = jobs'[j] => i = j
<1>1. jobs \in Seq(Blob)
  BY DEF PoolTypeOK
<1>2. /\ Len(jobs) \in Nat /\ DOMAIN jobs = 1 .. Len(jobs) /\ DOMAIN jobs' = 1 .. Len(jobs) + 1
      /\ \A i \in 1 .. Len(jobs) : jobs'[i] = jobs[i]
      /\ jobs'[Len(jobs) + 1] = b
  BY <1>1, AppendProperties
<1> QED BY <1>2 DEF OnChannel, PlaceInv

LEMMA ChannelShrinks ==
  ASSUME PoolTypeOK, jobs # <<>>, jobs' = Tail(jobs)
  PROVE  /\ Head(jobs) \in Blob
         /\ OnChannel = OnChannel' \cup {Head(jobs)}
         /\ PlaceInv => /\ Head(jobs) \notin OnChannel'
                        /\ \A i, j \in DOMAIN jobs' : jobs'[i] = jobs'[j] => i = j
<1>1. jobs \in Seq(Blob)
  BY DEF PoolTypeOK
<1>2. /\ Len(jobs) \in Nat \ {0} /\ DOMAIN jobs = 1 .. Len(jobs)
      /\ DOMAIN jobs' = 1 .. Len(jobs) - 1
      /\ \A i \in 1 .. Len(jobs) - 1 : jobs'[i] = jobs[i + 1]
      /\ Head(jobs) = jobs[1] /\ Head(jobs) \in Blob
  BY <1>1, HeadTailProperties, EmptySeq
<1>3. \A i \in DOMAIN jobs : i = 1 \/ (i - 1 \in DOMAIN jobs' /\ jobs[i] = jobs'[i - 1])
  BY <1>2
<1>4. \A i \in DOMAIN jobs' : i + 1 \in DOMAIN jobs /\ jobs'[i] = jobs[i + 1]
  BY <1>2
<1>5. OnChannel = OnChannel' \cup {Head(jobs)}
  BY <1>2, <1>3, <1>4 DEF OnChannel
<1>6. ASSUME PlaceInv
      PROVE  /\ Head(jobs) \notin OnChannel'
             /\ \A i, j \in DOMAIN jobs' : jobs'[i] = jobs'[j] => i = j
  BY <1>2, <1>4, <1>6 DEF PlaceInv, OnChannel
<1> QED BY <1>2, <1>5, <1>6

\* A worker empties its hand.
LEMMA HandEmptied ==
  ASSUME PoolTypeOK, PlaceInv, NEW w \in Worker, hand[w] # NoBlob,
         hand' = [hand EXCEPT ![w] = NoBlob], UNCHANGED jobs
  PROVE  /\ Emitted' = Emitted \ {hand[w]} /\ hand[w] \in Emitted
         /\ UNCHANGED left => PlaceInv'
<1>1. hand'[w] = NoBlob /\ \A v \in Worker \ {w} : hand'[v] = hand[v]
  BY DEF PoolTypeOK
<1>2. OnChannel' = OnChannel
  BY DEF OnChannel
<1>3. \A v \in Worker \ {w} : hand[v] # hand[w]
  BY DEF PlaceInv
<1>4. Emitted' = Emitted \ {hand[w]} /\ hand[w] \in Emitted
  BY <1>1, <1>2, <1>3 DEF Emitted, PlaceInv, OnChannel
<1>5. NoBlob \notin OnChannel
  <2>1. jobs \in Seq(Blob)
    BY DEF PoolTypeOK
  <2>2. \A i \in DOMAIN jobs : jobs[i] \in Blob
    BY <2>1, ElementOfSeq, LenProperties
  <2> QED BY <2>2, PoolAssumption DEF OnChannel
<1>6. ASSUME UNCHANGED left PROVE PlaceInv'
  BY <1>1, <1>2, <1>4, <1>5, <1>6 DEF PlaceInv
<1> QED BY <1>4, <1>6

\* A worker takes the head of the channel: nothing is emitted or forgotten.
LEMMA HandFilled ==
  ASSUME PoolTypeOK, PlaceInv, NEW w \in Worker, Take(w)
  PROVE  Emitted' = Emitted /\ PlaceInv'
<1>1. /\ jobs # <<>> /\ jobs' = Tail(jobs) /\ hand[w] = NoBlob
      /\ hand' = [hand EXCEPT ![w] = Head(jobs)] /\ UNCHANGED left
  BY DEF Take, walkVars
<1>2. /\ Head(jobs) \in Blob /\ OnChannel = OnChannel' \cup {Head(jobs)}
      /\ Head(jobs) \notin OnChannel'
      /\ \A i, j \in DOMAIN jobs' : jobs'[i] = jobs'[j] => i = j
  BY <1>1, ChannelShrinks
<1>3. hand'[w] = Head(jobs) /\ \A v \in Worker \ {w} : hand'[v] = hand[v]
  BY <1>1 DEF PoolTypeOK
<1>4. Emitted' = Emitted
  <2>1. Emitted = OnChannel \cup ({hand[v] : v \in Worker} \ {NoBlob})
    BY DEF Emitted, OnChannel
  <2>2. Emitted' = OnChannel' \cup ({hand'[v] : v \in Worker} \ {NoBlob})
    BY DEF Emitted, OnChannel
  <2>3. {hand'[v] : v \in Worker} \ {NoBlob}
          = ({hand[v] : v \in Worker} \ {NoBlob}) \cup {Head(jobs)}
    BY <1>1, <1>2, <1>3, PoolAssumption
  <2> QED BY <1>2, <2>1, <2>2, <2>3
<1>5. \A v \in Worker : hand[v] # Head(jobs)
  BY <1>2 DEF PlaceInv
<1>6. PlaceInv'
  BY <1>1, <1>2, <1>3, <1>4, <1>5, PoolAssumption DEF PlaceInv
<1> QED BY <1>4, <1>6

\* A worker is done with the blob in its hand: it was scanned, or an error was counted.
LEMMA HandTallied ==
  ASSUME PoolTypeOK, FlowInv, NEW w \in Worker, Process(w) \/ CutShort(w) \/ ProcessFails(w)
  PROVE  TallyInv'
<1>1. /\ hand[w] # NoBlob /\ hand' = [hand EXCEPT ![w] = NoBlob] /\ hand[w] \in Blob
      /\ UNCHANGED <<walker, left, jobs>>
  BY DEF Process, CutShort, ProcessFails, Answered, walkVars, PoolTypeOK
<1>2. Emitted' = Emitted \ {hand[w]}
  BY <1>1, HandEmptied DEF FlowInv
<1>3. worker[w] \in {"loop", "orphan"}
  BY <1>1 DEF PoolTypeOK
<1>4. CASE Process(w)
  <2>1. /\ scanned' = scanned \cup {hand[w]} /\ chunks' = chunks \cup {hand[w]}
        /\ UNCHANGED <<worker, cut, errs>> /\ CutOff' = CutOff
    BY <1>4 DEF Process, Answered, CutOff
  <2> QED BY <1>1, <1>2, <2>1 DEF FlowInv, TallyInv
<1>5. CASE CutShort(w)
  <2>1. /\ scanned' = scanned \cup {hand[w]} /\ UNCHANGED <<chunks, errs>>
        /\ worker[w] = "loop" /\ worker' = [worker EXCEPT ![w] = "orphan"]
        /\ cut' = [cut EXCEPT ![w] = hand[w]]
    BY <1>5 DEF CutShort, Answered
  <2>2. /\ cut'[w] = hand[w] /\ \A v \in Worker \ {w} : cut'[v] = cut[v]
        /\ worker'[w] = "orphan" /\ \A v \in Worker \ {w} : worker'[v] = worker[v]
    BY <2>1 DEF PoolTypeOK
  <2>3. cut[w] = NoBlob
    BY <2>1 DEF FlowInv, TallyInv
  <2>4. CutOff' = CutOff \cup {hand[w]}
    BY <1>1, <2>2, <2>3 DEF CutOff
  <2>5. \A v \in Worker : cut'[v] # NoBlob => worker'[v] \in {"orphan", "done"}
    BY <2>2 DEF FlowInv, TallyInv
  <2> QED BY <1>1, <1>2, <2>1, <2>4, <2>5 DEF FlowInv, TallyInv
<1>6. CASE ProcessFails(w)
  <2>1. /\ errs' = TRUE /\ UNCHANGED <<scanned, chunks, cut>> /\ CutOff' = CutOff
        /\ worker' = worker \/ worker' = [worker EXCEPT ![w] = "orphan"]
    BY <1>6 DEF ProcessFails, CutOff
  <2>2. \A v \in Worker : cut'[v] # NoBlob => worker'[v] \in {"orphan", "done"}
    BY <2>1 DEF FlowInv, TallyInv, PoolTypeOK
  <2> QED BY <2>1, <2>2 DEF FlowInv, TallyInv
<1> QED BY <1>4, <1>5, <1>6

LEMMA StepFlow ==
  ASSUME PoolTypeOK, FlowInv, [PoolNext]_poolVars
  PROVE  FlowInv'
<1>0. ASSUME UNCHANGED <<scanned, chunks, cut, errs>>,
             Blob \cap (left \cup Emitted) \subseteq left' \cup Emitted',
             walker' = walker \/ walker' \in {"ctx", "git"} \/ UNCHANGED <<left, jobs, hand>>,
             walker \in {"ctx", "git"} => walker' = walker,
             \A w \in Worker : worker[w] \in {"orphan", "done"} =>
                               worker'[w] \in {"orphan", "done"}
      PROVE  TallyInv'
  <2>1. CutOff' = CutOff
    BY <1>0 DEF CutOff
  <2>2. \/ Blob \subseteq left' \cup Emitted' \cup scanned'
        \/ errs' = TRUE
        \/ walker' \in {"ctx", "git"}
    BY <1>0 DEF FlowInv, TallyInv
  <2> QED BY <1>0, <2>1, <2>2 DEF FlowInv, TallyInv
<1>1. ASSUME NEW b \in Blob, Emit(b) PROVE FlowInv'
  <2>1. /\ b \in left /\ left' = left \ {b} /\ jobs' = Append(jobs, b) /\ walker = "on"
        /\ UNCHANGED <<walker, worker, hand, result, scanned, chunks, cut, errs>>
    BY <1>1 DEF Emit, outVars
  <2>2. b \notin OnChannel /\ \A w \in Worker : hand[w] # b
    BY <2>1, PoolAssumption DEF FlowInv, PlaceInv, Emitted, OnChannel
  <2>3. /\ OnChannel' = OnChannel \cup {b}
        /\ \A i, j \in DOMAIN jobs' : jobs'[i] = jobs'[j] => i = j
    BY <2>1, <2>2, ChannelGrows DEF FlowInv
  <2>4. Emitted' = Emitted \cup {b}
    BY <2>1, <2>3 DEF Emitted, OnChannel
  <2>5. PlaceInv'
    BY <2>1, <2>2, <2>3, <2>4 DEF FlowInv, PlaceInv
  <2>6. OrderInv'
    BY <2>1 DEF FlowInv, OrderInv, AllGone
  <2>7. TallyInv'
    BY <1>0, <2>1, <2>4
  <2> QED BY <2>5, <2>6, <2>7 DEF FlowInv
<1>2. ASSUME NEW w \in Worker, Take(w) PROVE FlowInv'
  <2>1. OrderInv'
    BY <1>2 DEF Take, FlowInv, OrderInv, AllGone, walkVars
  <2>2. Emitted' = Emitted /\ PlaceInv'
    BY <1>2, HandFilled DEF FlowInv
  <2>3. TallyInv'
    BY <1>0, <1>2, <2>2 DEF Take, walkVars, outVars
  <2> QED BY <2>1, <2>2, <2>3 DEF FlowInv
<1>3. ASSUME NEW w \in Worker, Process(w) \/ CutShort(w) \/ ProcessFails(w) PROVE FlowInv'
  <2>1. /\ hand[w] # NoBlob /\ hand' = [hand EXCEPT ![w] = NoBlob]
        /\ UNCHANGED <<walker, left, jobs, result>>
        /\ worker' = worker \/ worker' = [worker EXCEPT ![w] = "orphan"]
    BY <1>3 DEF Process, CutShort, ProcessFails, Answered, walkVars
  <2>2. PlaceInv'
    BY <2>1, HandEmptied DEF FlowInv
  <2>3. worker[w] \in {"loop", "orphan"}
    BY <2>1 DEF PoolTypeOK
  <2>4. result = "none"
    BY <2>3 DEF FlowInv, OrderInv, AllGone
  <2>5. \A v \in Worker : worker'[v] = "done" => worker[v] = "done"
    BY <2>1 DEF PoolTypeOK
  <2>6. OrderInv'
    BY <2>1, <2>4, <2>5 DEF FlowInv, OrderInv
  <2> QED BY <1>3, <2>2, <2>6, HandTallied DEF FlowInv
<1>4. ASSUME UNCHANGED <<left, jobs, hand>> PROVE PlaceInv' /\ Emitted' = Emitted
  BY <1>4 DEF FlowInv, PlaceInv, Emitted, OnChannel
<1>5. ASSUME NEW w \in Worker, Spawn(w) \/ Leave(w) PROVE FlowInv'
  <2>1. OrderInv'
    BY <1>5 DEF Spawn, Leave, FlowInv, OrderInv, AllGone, PoolTypeOK, walkVars
  <2>2. UNCHANGED <<left, jobs, hand, walker, scanned, chunks, cut, errs>>
    BY <1>5 DEF Spawn, Leave, walkVars, outVars
  <2>3. \A v \in Worker : worker[v] \in {"orphan", "done"} => worker'[v] \in {"orphan", "done"}
    BY <1>5 DEF Spawn, Leave, PoolTypeOK
  <2>4. TallyInv'
    BY <1>0, <1>4, <2>2, <2>3
  <2> QED BY <1>4, <2>1, <2>2, <2>4 DEF FlowInv
<1>6. ASSUME NEW err \in {"nil", "ctx", "git"}, WalkEnds(err) PROVE FlowInv'
  <2>1. OrderInv'
    BY <1>6 DEF WalkEnds, FlowInv, OrderInv, AllGone
  <2>2. /\ UNCHANGED <<left, jobs, hand, worker, scanned, chunks, cut, errs>>
        /\ walker = "on"
    BY <1>6 DEF WalkEnds, outVars
  <2>3. TallyInv'
    BY <1>0, <1>4, <2>2
  <2> QED BY <1>4, <2>1, <2>2, <2>3 DEF FlowInv
<1>7. CASE Coordinate \/ Return \/ Cancel \/ UNCHANGED poolVars
  <2>1. OrderInv'
    <3>1. CASE Return
      <4>1. /\ AllGone /\ UNCHANGED <<walker, left, jobs, worker>>
            /\ result' = "nil" => walker = "nil" /\ \A w \in Worker : worker[w] # "failed"
        BY <3>1 DEF Return, walkVars
      <4> QED BY <4>1 DEF FlowInv, OrderInv, AllGone
    <3>2. CASE Coordinate \/ Cancel \/ UNCHANGED poolVars
      BY <3>2 DEF Coordinate, Cancel, FlowInv, OrderInv, AllGone, poolVars, walkVars
    <3> QED BY <1>7, <3>1, <3>2
  <2>2. UNCHANGED <<left, jobs, hand, walker, worker, scanned, chunks, cut, errs>>
    BY <1>7 DEF Coordinate, Return, Cancel, poolVars, walkVars, outVars
  <2>3. TallyInv'
    BY <1>0, <1>4, <2>2
  <2> QED BY <1>4, <2>1, <2>2, <2>3 DEF FlowInv
<1> QED BY <1>1, <1>2, <1>3, <1>5, <1>6, <1>7
       DEF PoolNext, WalkerStep, WorkerStep, Over

-----------------------------------------------------------------------------
(* The mapping to GetterPool.                                              *)

\* What the getter of the mapping has in hand, and where its run is.
LEMMA MappedHand ==
  /\ Getter!InHand("getter") = "request"
  /\ Getter!ScanOn("getter") = "scan"
  /\ Getter!Walking("getter") <=> Run.phase = "run" /\ Run.walk = "on"
BY DEF Getter!InHand, Getter!ScanOn, Getter!Walking

\* The record of a run while the caller waits.
RunRecord(walk, l, j, e, d, c) ==
  [phase |-> "run", walk |-> walk, left |-> l, jobs |-> j, errs |-> e, dead |-> d,
   cut |-> c, outcome |-> "RUNNING"]

\* It is what Run shows, before and after a step.
LEMMA RunUnderWay ==
  /\ result = "none" =>
       Run = RunRecord(Walk, IF Walk = "failed" THEN {} ELSE left,
                       IF NoneSpawned THEN {} ELSE Emitted, errs, dead, CutOff)
  /\ result' = "none" =>
       Run' = RunRecord(Walk', IF Walk' = "failed" THEN {} ELSE left',
                        IF NoneSpawned' THEN {} ELSE Emitted', errs', dead', CutOff')
BY DEF Run, RunRecord

\* The status of the scan while the caller waits.
LEMMA StatusUnderWay ==
  /\ result = "none" => Status = {"RUNNING"} /\ Lost = {}
  /\ result' = "none" => Status' = {"RUNNING"} /\ Lost' = {}
BY DEF Status, Lost

\* The walk as the record has it.
LEMMA WalkIs ==
  /\ Spawning => Walk = "on"
  /\ walker = "on" /\ ~NoneSpawned => Walk = "on"
  /\ ~Spawning /\ walker = "nil" /\ (\A w \in Worker : worker[w] # "failed") => Walk = "done"
  /\ NoneSpawned => Walk = "failed"
  /\ ~Spawning /\ walker # "on" /\ (walker # "nil" \/ \E w \in Worker : worker[w] = "failed")
       => Walk = "failed"
BY PoolAssumption DEF Walk, Spawning, NoneSpawned

\* The queue and the process, which the pool never sees.
LEMMA QueueSame == UNCHANGED Getter!queueVars
BY DEF Getter!queueVars

Same ==
  Run' = Run /\ chunks' = chunks /\ Status' = Status /\ Lost' = Lost /\ dead' = dead

LEMMA SameStutters == Same => UNCHANGED Getter!getterVars
BY DEF Same, Getter!getterVars, Getter!queueVars, Getter!statusVars, Getter!envVars

\* The steps of the record that the goroutines take, each from what becomes of Run.
Streams == <<chunks, Status, Lost, dead>>

LEMMA MapsEmit ==
  ASSUME NEW l, NEW j, NEW e, NEW d, NEW c, NEW b \in Blob, b \in l,
         Run = RunRecord("on", l, j, e, d, c),
         Run' = RunRecord("on", l \ {b}, j \cup {b}, e, d, c),
         UNCHANGED Streams
  PROVE  Getter!HandlerStep("getter")
<1>1. /\ [RunRecord("on", l, j, e, d, c) EXCEPT !.left = l \ {b}]
           = RunRecord("on", l \ {b}, j, e, d, c)
      /\ [RunRecord("on", l \ {b}, j, e, d, c) EXCEPT !.jobs = j \cup {b}]
           = RunRecord("on", l \ {b}, j \cup {b}, e, d, c)
  BY DEF RunRecord
<1>2. Run' = [Run EXCEPT !.left = l \ {b}, !.jobs = j \cup {b}]
  BY <1>1
<1>3. Run.phase = "run" /\ Run.walk = "on" /\ Run.left = l /\ Run.jobs = j
  BY DEF RunRecord
<1>4. Run' = [Run EXCEPT !.left = @ \ {b}, !.jobs = @ \cup {b}]
  BY <1>2, <1>3
<1>5. Getter!EmitBlob("getter", b)
  BY <1>3, <1>4, MappedHand, QueueSame
     DEF Getter!EmitBlob, Getter!statusVars, Getter!envVars, Streams
<1> QED BY <1>5 DEF Getter!HandlerStep

LEMMA MapsDone ==
  ASSUME NEW j, NEW e, NEW d, NEW c,
         Run = RunRecord("on", {}, j, e, d, c), Run' = RunRecord("done", {}, j, e, d, c),
         UNCHANGED Streams
  PROVE  Getter!HandlerStep("getter")
<1>1. Run.phase = "run" /\ Run.walk = "on" /\ Run.left = {}
  BY DEF RunRecord
<1>2. Run' = [Run EXCEPT !.walk = "done"]
  BY DEF RunRecord
<1>3. Getter!WalkDone("getter")
  BY <1>1, <1>2, MappedHand, QueueSame
     DEF Getter!WalkDone, Getter!statusVars, Getter!envVars, Streams
<1> QED BY <1>3 DEF Getter!HandlerStep

LEMMA WalkFailsIs ==
  ASSUME NEW js \in {Run.jobs, {}}, Run.phase = "run", Run.walk = "on",
         Run' = [Run EXCEPT !.walk = "failed", !.left = {}, !.jobs = js],
         UNCHANGED Streams
  PROVE  Getter!HandlerStep("getter")
<1>1. Getter!WalkFails("getter")
  BY MappedHand, QueueSame DEF Getter!WalkFails, Getter!statusVars, Getter!envVars, Streams
<1> QED BY <1>1 DEF Getter!HandlerStep

LEMMA MapsFailed ==
  ASSUME NEW l, NEW j, NEW e, NEW d, NEW c, NEW js \in {j, {}},
         Run = RunRecord("on", l, j, e, d, c), Run' = RunRecord("failed", {}, js, e, d, c),
         UNCHANGED Streams
  PROVE  Getter!HandlerStep("getter")
<1>1. /\ [RunRecord("on", l, j, e, d, c) EXCEPT !.walk = "failed"] = RunRecord("failed", l, j, e, d, c)
      /\ [RunRecord("failed", l, j, e, d, c) EXCEPT !.left = {}] = RunRecord("failed", {}, j, e, d, c)
      /\ [RunRecord("failed", {}, j, e, d, c) EXCEPT !.jobs = js] = RunRecord("failed", {}, js, e, d, c)
  BY DEF RunRecord
<1>2. Run' = [Run EXCEPT !.walk = "failed", !.left = {}, !.jobs = js]
  BY <1>1
<1>3. Run.phase = "run" /\ Run.walk = "on" /\ Run.jobs = j
  BY DEF RunRecord
<1>4. js \in {Run.jobs, {}}
  BY <1>3
<1> QED BY <1>2, <1>3, <1>4, WalkFailsIs

LEMMA PublishIs ==
  ASSUME NEW b \in Blob, NEW j, b \in j, Run.phase = "run", Run.jobs = j, Run.dead = FALSE,
         Run' = [Run EXCEPT !.jobs = j \ {b}],
         chunks' = chunks \cup {b}, UNCHANGED <<Status, Lost, dead>>
  PROVE  Getter!HandlerStep("getter")
<1>1. Run' = [Run EXCEPT !.jobs = @ \ {b}]
  OBVIOUS
<1>2. Getter!PublishBlob("getter", b)
  BY <1>1, MappedHand, QueueSame DEF Getter!PublishBlob, Getter!statusVars, Getter!envVars
<1> QED BY <1>2 DEF Getter!HandlerStep

LEMMA BlobFailsIs ==
  ASSUME NEW b \in Blob, NEW j, b \in j, Run.phase = "run", Run.jobs = j, NEW f, f = TRUE,
         Run' = [Run EXCEPT !.jobs = j \ {b}, !.errs = f], UNCHANGED Streams
  PROVE  Getter!HandlerStep("getter")
<1>1. Run' = [Run EXCEPT !.jobs = @ \ {b}, !.errs = TRUE]
  OBVIOUS
<1>2. Getter!BlobFails("getter", b)
  BY <1>1, MappedHand, QueueSame
     DEF Getter!BlobFails, Getter!statusVars, Getter!envVars, Streams
<1> QED BY <1>2 DEF Getter!HandlerStep

\* The worker in the middle of a blob loses its cat-file.
LEMMA CutIs ==
  ASSUME NEW b \in Blob, NEW j, NEW c, b \in j, Run.phase = "run", Run.jobs = j, Run.cut = c,
         Cardinality(c) < Cardinality(Worker),
         Run' = [Run EXCEPT !.jobs = j \ {b}, !.cut = c \cup {b}], UNCHANGED Streams
  PROVE  Getter!HandlerStep("getter")
<1>1. Run' = [Run EXCEPT !.jobs = @ \ {b}, !.cut = @ \cup {b}]
  OBVIOUS
<1>3. Getter!Cardinality(c) = Cardinality(c)
  BY DEF Getter!Cardinality, Cardinality
<1>2. Getter!CutBlob("getter", b)
  BY <1>1, <1>3, MappedHand, QueueSame
     DEF Getter!CutBlob, Getter!statusVars, Getter!envVars, Streams
<1> QED BY <1>2 DEF Getter!HandlerStep

\* A blob leaves a worker's hand.
LEMMA BlobLeaves ==
  ASSUME result = "none", result' = "none", ~NoneSpawned, ~NoneSpawned',
         UNCHANGED <<Walk, left, dead>>, NEW j, NEW k, Emitted = j, Emitted' = k,
         NEW c, CutOff = c
  PROVE  /\ Run.phase = "run" /\ Run.jobs = j /\ Run.dead = dead /\ Run.cut = c
         /\ CutOff' = c => Run' = [Run EXCEPT !.jobs = k, !.errs = errs']
         /\ CutOff' = c /\ errs' = errs => Run' = [Run EXCEPT !.jobs = k]
         /\ errs' = errs => Run' = [Run EXCEPT !.jobs = k, !.cut = CutOff']
<1>6. \A at, l, m, e, d, q, x :
        /\ [RunRecord(at, l, m, e, d, q) EXCEPT !.jobs = x] = RunRecord(at, l, x, e, d, q)
        /\ [RunRecord(at, l, m, e, d, q) EXCEPT !.errs = x] = RunRecord(at, l, m, x, d, q)
        /\ [RunRecord(at, l, m, e, d, q) EXCEPT !.cut = x] = RunRecord(at, l, m, e, d, x)
  BY DEF RunRecord
<1> DEFINE l == IF Walk = "failed" THEN {} ELSE left
<1>1. Run = RunRecord(Walk, l, j, errs, dead, c)
  BY RunUnderWay
<1>2. Run' = RunRecord(Walk, l, k, errs', dead, CutOff')
  BY RunUnderWay
<1> HIDE DEF l
<1>3. Run.phase = "run" /\ Run.jobs = j /\ Run.dead = dead /\ Run.cut = c
  BY <1>1 DEF RunRecord
<1>7. [Run EXCEPT !.jobs = k] = RunRecord(Walk, l, k, errs, dead, c)
  BY <1>1, <1>6
<1>4. ASSUME CutOff' = c PROVE Run' = [Run EXCEPT !.jobs = k, !.errs = errs']
  <2>1. [Run EXCEPT !.jobs = k, !.errs = errs'] = [[Run EXCEPT !.jobs = k] EXCEPT !.errs = errs']
    OBVIOUS
  <2>3. [RunRecord(Walk, l, k, errs, dead, c) EXCEPT !.errs = errs'] = Run'
    BY <1>2, <1>4, <1>6
  <2> QED BY <1>7, <2>1, <2>3
<1>5. CutOff' = c /\ errs' = errs => Run' = [Run EXCEPT !.jobs = k]
  BY <1>2, <1>7
<1>8. ASSUME errs' = errs PROVE Run' = [Run EXCEPT !.jobs = k, !.cut = CutOff']
  <2>1. [Run EXCEPT !.jobs = k, !.cut = CutOff'] = [[Run EXCEPT !.jobs = k] EXCEPT !.cut = CutOff']
    OBVIOUS
  <2>3. [RunRecord(Walk, l, k, errs, dead, c) EXCEPT !.cut = CutOff'] = Run'
    BY <1>2, <1>6, <1>8
  <2> QED BY <1>7, <2>1, <2>3
<1> QED BY <1>3, <1>4, <1>5, <1>8

\* The run is stopped.
LEMMA RunStopped ==
  ASSUME result = "none", result' = "none",
         UNCHANGED <<Walk, NoneSpawned, left, Emitted, errs, CutOff>>
  PROVE  Run' = [Run EXCEPT !.dead = dead']
<1>1. \A at, l, j, e, c, d, x :
        [RunRecord(at, l, j, e, d, c) EXCEPT !.dead = x] = RunRecord(at, l, j, e, x, c)
  BY DEF RunRecord
<1> DEFINE l == IF Walk = "failed" THEN {} ELSE left
           j == IF NoneSpawned THEN {} ELSE Emitted
<1>2. /\ Run = RunRecord(Walk, l, j, errs, dead, CutOff)
      /\ Run' = RunRecord(Walk, l, j, errs, dead', CutOff)
  BY RunUnderWay
<1> HIDE DEF l, j
<1> QED BY <1>1, <1>2

\* How a run that is over ends, and what it says then.
Ends(walk, stopped, end) ==
  \/ walk = "done" /\ end = "COMPLETED"
  \/ walk = "failed" /\ stopped = TRUE /\ end = "CANCELLED"
  \/ walk = "failed" /\ stopped = FALSE /\ end = "FAILED"

Says(end, failed) == IF end = "COMPLETED" /\ failed = TRUE THEN "COMPLETED with errors" ELSE end

LEMMA MapsFinish ==
  ASSUME NEW end, Ends(Run.walk, Run.dead, end), Run.errs \in BOOLEAN,
         Run.phase = "run", Run.jobs = {},
         Run' = [phase |-> "final", walk |-> "on", left |-> {}, jobs |-> {},
                 errs |-> FALSE, dead |-> FALSE, cut |-> {}, outcome |-> end],
         Status' = Status \cup {Says(end, Run.errs)}, UNCHANGED <<chunks, dead>>,
         Lost' = IF Says(end, Run.errs) = "COMPLETED" THEN Lost \cup Run.cut ELSE Lost
  PROVE  Getter!HandlerStep("getter")
<1>1. Getter!Outcome("getter") = end
  <2>1. CASE Run.walk = "done" /\ end = "COMPLETED"
    BY <2>1 DEF Getter!Outcome
  <2>2. CASE Run.walk = "failed" /\ Run.dead = TRUE /\ end = "CANCELLED"
    BY <2>2 DEF Getter!Outcome
  <2>3. CASE Run.walk = "failed" /\ Run.dead = FALSE /\ end = "FAILED"
    BY <2>3 DEF Getter!Outcome
  <2> QED BY <2>1, <2>2, <2>3 DEF Ends
<1>2. Getter!EndEvent("getter") = Says(end, Run.errs)
  BY <1>1 DEF Getter!EndEvent, Says
<1>3. Getter!EmitStatus("scan", Says(end, Run.errs))
  BY DEF Getter!EmitStatus
<1>4. Run.walk # "on"
  BY DEF Ends
<1>6. Getter!NotesLost("getter")
  BY <1>2, MappedHand DEF Getter!NotesLost
<1>5. Getter!Finish("getter")
  BY <1>1, <1>2, <1>3, <1>4, <1>6, MappedHand, QueueSame
     DEF Getter!Finish, Getter!NoRun, Getter!envVars
<1> QED BY <1>5 DEF Getter!HandlerStep

LEMMA MapsCancel ==
  ASSUME Run.phase = "run", dead = FALSE, dead' = TRUE, Run' = [Run EXCEPT !.dead = dead'],
         UNCHANGED <<chunks, Status, Lost>>
  PROVE  Getter!Cancel("scan")
<1>1. Getter!Cancellable("getter")
  BY DEF Getter!Cancellable
<1>2. Getter!Getter = {"getter"}
  BY DEF Getter!Getter
<1> QED BY <1>1, <1>2, MappedHand, QueueSame DEF Getter!Cancel, Getter!statusVars

-----------------------------------------------------------------------------
(* Every step of the pool is a step of the record, or leaves it as it is.  *)

\* What the caller returned shows nothing of what the goroutines still do.
LEMMA ReturnedStutters ==
  ASSUME result # "none", UNCHANGED <<result, dead, errs, chunks, cut>>
  PROVE  Same
BY DEF Same, Run, Status, Lost, CutOff

\* Neither does, while it waits, a step that moves no blob and ends neither the walk
\* nor the last spawn.
LEMMA WaitingStutters ==
  ASSUME result = "none", UNCHANGED <<result, dead, errs, chunks, cut>>,
         Walk' = Walk, NoneSpawned' = NoneSpawned, Emitted' = Emitted \/ NoneSpawned,
         left' = left \/ Walk = "failed"
  PROVE  Same
<1>1. CutOff' = CutOff
  BY DEF CutOff
<1> QED BY <1>1, RunUnderWay, StatusUnderWay DEF Same

LEMMA EmitIsStep ==
  ASSUME PoolTypeOK, FlowInv, NEW b \in Blob, Emit(b)
  PROVE  Getter!HandlerStep("getter") \/ Same
<1>1. /\ walker = "on" /\ b \in left /\ left' = left \ {b} /\ jobs' = Append(jobs, b)
      /\ UNCHANGED <<walker, worker, hand, dead, chunks, cut, errs, result>>
  BY DEF Emit, outVars
<1>2. UNCHANGED <<NoneSpawned, Walk>>
  BY <1>1 DEF NoneSpawned, Walk, Spawning
<1>6. CutOff' = CutOff
  BY <1>1 DEF CutOff
<1>3. CASE result # "none"
  BY <1>1, <1>3, ReturnedStutters
<1>4. CASE result = "none" /\ NoneSpawned
  BY <1>1, <1>2, <1>4, WalkIs, WaitingStutters
<1>5. CASE result = "none" /\ ~NoneSpawned
  <2>1. Emitted' = Emitted \cup {b}
    BY <1>1, ChannelGrows DEF Emitted, OnChannel
  <2>2. Walk = "on"
    BY <1>1, <1>5, WalkIs
  <2>3. /\ Run = RunRecord("on", left, Emitted, errs, dead, CutOff)
        /\ Run' = RunRecord("on", left \ {b}, Emitted \cup {b}, errs, dead, CutOff)
    <3>1. Walk' = "on" /\ ~NoneSpawned'
      BY <1>2, <1>5, <2>2
    <3> QED BY <1>1, <1>5, <1>6, <2>1, <2>2, <3>1, RunUnderWay
  <2>4. UNCHANGED Streams
    BY <1>1, <1>5, StatusUnderWay DEF Streams
  <2> QED BY <1>1, <2>3, <2>4, MapsEmit
<1> QED BY <1>3, <1>4, <1>5

\* The walk ends, or the last spawn is decided: the record's walk ends, or has ended.
LEMMA WalkOver ==
  ASSUME PoolTypeOK, FlowInv, OrderInv', result = "none", Walk = "on", ~NoneSpawned,
         UNCHANGED <<left, jobs, hand, dead, chunks, cut, errs, result>>,
         Walk' \in {"done", "failed"},
         walker' = "nil" \/ Walk' = "failed"
  PROVE  Getter!HandlerStep("getter")
<1>1. Emitted' = Emitted /\ CutOff' = CutOff
  BY DEF Emitted, CutOff
<1>2. UNCHANGED Streams
  BY StatusUnderWay DEF Streams
<1>3. Run = RunRecord("on", left, Emitted, errs, dead, CutOff)
  BY RunUnderWay
<1>4. CASE Walk' = "done"
  <2>1. left = {}
    BY <1>4 DEF OrderInv
  <2>2. ~NoneSpawned'
    BY <1>4, PoolAssumption DEF NoneSpawned, Walk, Spawning
  <2>3. Run' = RunRecord("done", left, Emitted, errs, dead, CutOff)
    BY <1>1, <1>4, <2>2, RunUnderWay
  <2> QED BY <1>2, <1>3, <2>1, <2>3, MapsDone
<1>5. CASE Walk' = "failed"
  <2> DEFINE js == IF NoneSpawned' THEN {} ELSE Emitted
  <2>1. js \in {Emitted, {}}
    OBVIOUS
  <2>2. Run' = RunRecord("failed", {}, js, errs, dead, CutOff)
    BY <1>1, <1>5, RunUnderWay
  <2> HIDE DEF js
  <2> QED BY <1>2, <1>3, <2>1, <2>2, MapsFailed
<1> QED BY <1>4, <1>5

LEMMA WalkEndsIsStep ==
  ASSUME PoolTypeOK, FlowInv, OrderInv', NEW err \in {"nil", "ctx", "git"}, WalkEnds(err)
  PROVE  Getter!HandlerStep("getter") \/ Same
<1>1. /\ walker = "on" /\ walker' = err
      /\ UNCHANGED <<left, jobs, worker, hand, dead, chunks, cut, errs, result>>
  BY DEF WalkEnds, outVars
<1>2. UNCHANGED <<NoneSpawned, Spawning, Emitted>>
  BY <1>1 DEF NoneSpawned, Spawning, Emitted
<1>3. CASE result # "none"
  BY <1>1, <1>3, ReturnedStutters
<1>4. CASE result = "none" /\ (NoneSpawned \/ Spawning)
  <2>1. Walk' = Walk
    BY <1>1, <1>2, <1>4, PoolAssumption DEF Walk, NoneSpawned, Spawning
  <2> QED BY <1>1, <1>2, <1>4, <2>1, WaitingStutters
<1>5. CASE result = "none" /\ ~NoneSpawned /\ ~Spawning
  <2>1. Walk = "on"
    BY <1>1, <1>5, WalkIs
  <2>2. Walk' \in {"done", "failed"} /\ (walker' = "nil" \/ Walk' = "failed")
    BY <1>1, <1>2, <1>5 DEF Walk
  <2> QED BY <1>1, <1>5, <2>1, <2>2, WalkOver
<1> QED BY <1>3, <1>4, <1>5

LEMMA SpawnIsStep ==
  ASSUME PoolTypeOK, FlowInv, OrderInv', NEW w \in Worker, Spawn(w)
  PROVE  Getter!HandlerStep("getter") \/ Same
<1>1. /\ worker[w] = "spawn" /\ result = "none"
      /\ \E how \in {"loop", "failed"} : worker' = [worker EXCEPT ![w] = how]
      /\ UNCHANGED <<walker, left, jobs, hand, dead, chunks, cut, errs, result>>
  BY DEF Spawn, walkVars, outVars, FlowInv, OrderInv, AllGone
<1>2. Walk = "on" /\ ~NoneSpawned /\ Emitted' = Emitted
  BY <1>1, WalkIs DEF Spawning, NoneSpawned, Emitted
<1>3. CASE Walk' = "on"
  <2>1. ~NoneSpawned'
    BY <1>3, PoolAssumption DEF Walk, NoneSpawned, Spawning
  <2>2. NoneSpawned' = NoneSpawned /\ Walk' = Walk /\ left' = left /\ Emitted' = Emitted
    BY <1>1, <1>2, <1>3, <2>1, Zenon DEF NoneSpawned
  <2> QED BY <1>1, <2>2, WaitingStutters
<1>4. CASE Walk' # "on"
  <2>1. Walk' \in {"done", "failed"} /\ (walker' = "nil" \/ Walk' = "failed")
    BY <1>1, <1>4 DEF Walk
  <2> QED BY <1>1, <1>2, <2>1, WalkOver
<1> QED BY <1>3, <1>4

LEMMA TakeIsStep ==
  ASSUME PoolTypeOK, FlowInv, NEW w \in Worker, Take(w)
  PROVE  Same
<1>1. Emitted' = Emitted
  BY HandFilled DEF FlowInv
<1>2. UNCHANGED <<walker, left, worker, dead, chunks, cut, errs, result>>
  BY DEF Take, walkVars, outVars
<1>3. UNCHANGED <<Walk, NoneSpawned>>
  BY <1>2 DEF Walk, NoneSpawned, Spawning
<1> QED BY <1>1, <1>2, <1>3, ReturnedStutters, WaitingStutters

LEMMA LeaveIsStep ==
  ASSUME PoolTypeOK, FlowInv, NEW w \in Worker, Leave(w)
  PROVE  Same
<1>1. /\ worker[w] \in {"loop", "orphan"} /\ worker' = [worker EXCEPT ![w] = "done"]
      /\ UNCHANGED <<walker, left, jobs, hand, dead, chunks, cut, errs, result>>
  BY DEF Leave, walkVars, outVars
<1>2. /\ worker'[w] = "done" /\ \A v \in Worker \ {w} : worker'[v] = worker[v]
  BY <1>1 DEF PoolTypeOK
<1>3. /\ Spawning' <=> Spawning
      /\ ~NoneSpawned /\ ~NoneSpawned'
      /\ (\A v \in Worker : worker'[v] # "failed") <=> (\A v \in Worker : worker[v] # "failed")
  BY <1>1, <1>2 DEF NoneSpawned, Spawning
<1>4. Walk' = Walk /\ Emitted' = Emitted
  BY <1>1, <1>3 DEF Walk, Emitted
<1>5. NoneSpawned' = NoneSpawned
  BY <1>3, Zenon DEF NoneSpawned
<1> QED BY <1>1, <1>4, <1>5, ReturnedStutters, WaitingStutters

\* A worker with a blob in hand: the run goes on, and the hand is emptied.
LEMMA HandLoses ==
  ASSUME PoolTypeOK, FlowInv, NEW w \in Worker, Process(w) \/ CutShort(w) \/ ProcessFails(w)
  PROVE  /\ hand[w] \in Blob /\ hand[w] \in Emitted /\ Emitted' = Emitted \ {hand[w]}
         /\ result = "none" /\ result' = "none" /\ ~NoneSpawned /\ ~NoneSpawned'
         /\ UNCHANGED <<Walk, left, dead, Status, Lost>>
<1>1. /\ hand[w] # NoBlob /\ hand' = [hand EXCEPT ![w] = NoBlob]
      /\ UNCHANGED <<walker, left, jobs, dead, result>>
      /\ worker' = worker \/ worker' = [worker EXCEPT ![w] = "orphan"]
  BY DEF Process, CutShort, ProcessFails, Answered, walkVars, outVars
<1>2. hand[w] \in Blob /\ worker[w] \in {"loop", "orphan"}
  BY <1>1 DEF PoolTypeOK
<1>3. Emitted' = Emitted \ {hand[w]} /\ hand[w] \in Emitted
  BY <1>1, HandEmptied DEF FlowInv
<1>7. \A v \in Worker : /\ worker'[v] = "spawn" <=> worker[v] = "spawn"
                        /\ worker'[v] = "failed" <=> worker[v] = "failed"
  BY <1>1, <1>2 DEF PoolTypeOK
<1>4. result = "none" /\ ~NoneSpawned /\ ~NoneSpawned'
  BY <1>1, <1>2, <1>7 DEF FlowInv, OrderInv, AllGone, NoneSpawned
<1>5. UNCHANGED Walk
  <2>1. /\ Spawning' <=> Spawning
        /\ (\A v \in Worker : worker'[v] # "failed") <=> (\A v \in Worker : worker[v] # "failed")
    BY <1>7 DEF Spawning
  <2> QED BY <1>1, <1>4, <2>1 DEF Walk
<1>6. UNCHANGED <<Status, Lost>>
  BY <1>1, <1>4, StatusUnderWay
<1> QED BY <1>1, <1>2, <1>3, <1>4, <1>5, <1>6

LEMMA ProcessIsStep ==
  ASSUME PoolTypeOK, FlowInv, NEW w \in Worker, Process(w)
  PROVE  Getter!HandlerStep("getter")
<1> DEFINE b == hand[w]
<1>1. dead = FALSE /\ chunks' = chunks \cup {b} /\ errs' = errs /\ CutOff' = CutOff
  BY DEF Process, PoolTypeOK, CutOff
<1>2. b \in Blob /\ b \in Emitted /\ UNCHANGED <<Status, Lost, dead>>
  BY HandLoses
<1>3. /\ Run.phase = "run" /\ Run.jobs = Emitted /\ Run.dead = dead
      /\ Run' = [Run EXCEPT !.jobs = Emitted \ {b}]
  BY <1>1, HandLoses, BlobLeaves
<1> HIDE DEF b
<1> QED BY <1>1, <1>2, <1>3, PublishIs

\* Fewer blobs are cut off than there are workers while one has not lost its cat-file.
LEMMA RoomToCut ==
  ASSUME PoolTypeOK, NEW w \in Worker, cut[w] = NoBlob
  PROVE  Cardinality(CutOff) < Cardinality(Worker)
<1> DEFINE others == {v \in Worker : cut[v] # NoBlob}
           f == [v \in others |-> cut[v]]
<1>1. others \in SUBSET Worker /\ others # Worker
  OBVIOUS
<1>2. /\ IsFiniteSet(others) /\ Cardinality(others) <= Cardinality(Worker)
      /\ Cardinality(Worker) # Cardinality(others)
  BY <1>1, PoolAssumption, FS_Subset
<1>3. f \in Surjection(others, CutOff)
  BY DEF CutOff, Surjection
<1>4. IsFiniteSet(CutOff) /\ Cardinality(CutOff) <= Cardinality(others)
  BY <1>2, <1>3, FS_Surjection
<1> DEFINE n == Cardinality(CutOff)
           m == Cardinality(others)
           k == Cardinality(Worker)
<1>5. n \in Nat /\ m \in Nat /\ k \in Nat /\ n <= m /\ m <= k /\ k # m
  BY <1>2, <1>4, PoolAssumption, FS_CardinalityType
<1> HIDE DEF n, m, k
<1>6. n < k
  BY <1>5
<1> QED BY <1>6 DEF n, k

LEMMA CutShortIsStep ==
  ASSUME PoolTypeOK, FlowInv, NEW w \in Worker, CutShort(w)
  PROVE  Getter!HandlerStep("getter")
<1> DEFINE b == hand[w]
<1>1. /\ worker[w] = "loop" /\ cut' = [cut EXCEPT ![w] = b] /\ UNCHANGED <<chunks, dead, errs>>
  BY DEF CutShort
<1>2. b \in Blob /\ b \in Emitted /\ UNCHANGED <<Status, Lost>>
  BY HandLoses
<1>3. cut[w] = NoBlob
  BY <1>1 DEF FlowInv, TallyInv
<1>4. CutOff' = CutOff \cup {b}
  <2>1. cut'[w] = b /\ \A v \in Worker \ {w} : cut'[v] = cut[v]
    BY <1>1 DEF PoolTypeOK
  <2> QED BY <1>2, <1>3, <2>1, PoolAssumption DEF CutOff
<1>5. Cardinality(CutOff) < Cardinality(Worker)
  BY <1>3, RoomToCut, SMTT(30)
<1>6. /\ Run.phase = "run" /\ Run.jobs = Emitted /\ Run.cut = CutOff
      /\ Run' = [Run EXCEPT !.jobs = Emitted \ {b}, !.cut = CutOff \cup {b}]
  BY <1>1, <1>4, HandLoses, BlobLeaves
<1>7. UNCHANGED Streams
  BY <1>1, <1>2 DEF Streams
<1> HIDE DEF b
<1> QED BY <1>2, <1>5, <1>6, <1>7, CutIs

LEMMA ProcessFailsIsStep ==
  ASSUME PoolTypeOK, FlowInv, NEW w \in Worker, ProcessFails(w)
  PROVE  Getter!HandlerStep("getter")
<1> DEFINE b == hand[w]
<1>1. errs' = TRUE /\ UNCHANGED <<chunks, dead>> /\ CutOff' = CutOff
  BY DEF ProcessFails, CutOff
<1>2. b \in Blob /\ b \in Emitted /\ UNCHANGED <<Status, Lost>>
  BY HandLoses, SMTT(30)
<1>3. /\ Run.phase = "run" /\ Run.jobs = Emitted
      /\ Run' = [Run EXCEPT !.jobs = Emitted \ {b}, !.errs = errs']
  BY <1>1, HandLoses, BlobLeaves
<1> HIDE DEF b
<1> QED BY <1>1, <1>2, <1>3, BlobFailsIs DEF Streams

\* Once every worker is gone, the walk with them or hopeless, nothing is emitted.
LEMMA GoneIs ==
  ASSUME PoolTypeOK, FlowInv, AllGone
  PROVE  /\ ~Spawning
         /\ ~NoneSpawned => Emitted = {} /\ walker # "on"
<1>1. ~Spawning
  BY DEF AllGone, Spawning
<1>2. \A w \in Worker : hand[w] = NoBlob
  BY DEF AllGone, PoolTypeOK
<1>3. ASSUME ~NoneSpawned PROVE Emitted = {} /\ walker # "on"
  <2>1. PICK w \in Worker : worker[w] = "done"
    BY <1>3 DEF AllGone, NoneSpawned
  <2>2. jobs = <<>> /\ walker # "on"
    BY <2>1 DEF FlowInv, OrderInv
  <2> QED BY <1>2, <2>2 DEF Emitted
<1> QED BY <1>1, <1>3

LEMMA ReturnIsStep ==
  ASSUME PoolTypeOK, FlowInv, Return
  PROVE  Getter!HandlerStep("getter")
<1>1. /\ result = "none" /\ AllGone /\ UNCHANGED <<walker, worker, dead, chunks, cut, errs>>
      /\ IF \E w \in Worker : worker[w] = "failed" THEN result' = "spawn"
         ELSE walker # "on" /\ result' = walker
  BY DEF Return, walkVars, outVars
<1>2. ~Spawning /\ (~NoneSpawned => Emitted = {} /\ walker # "on")
  BY <1>1, GoneIs
<1> DEFINE end == IF result' = "nil" THEN "COMPLETED"
                  ELSE IF dead = TRUE THEN "CANCELLED" ELSE "FAILED"
<1>3. result' # "none" /\ dead \in BOOLEAN /\ errs \in BOOLEAN
  BY <1>1 DEF PoolTypeOK
<1>4. Walk = IF result' = "nil" THEN "done" ELSE "failed"
  <2>1. CASE \E w \in Worker : worker[w] = "failed"
    <3>1. ~NoneSpawned => walker # "on"
      BY <1>2
    <3>2. Walk = "failed"
      BY <1>2, <2>1, WalkIs
    <3> QED BY <1>1, <2>1, <3>2
  <2>2. CASE ~(\E w \in Worker : worker[w] = "failed")
    <3>1. walker # "on" /\ result' = walker
      BY <1>1, <2>2
    <3> QED BY <1>2, <2>2, <3>1, WalkIs
  <2> QED BY <2>1, <2>2
<1>5. Ends(Walk, dead, end)
  BY <1>3, <1>4 DEF Ends
<1>6. /\ Run.phase = "run" /\ Run.walk = Walk /\ Run.jobs = {}
      /\ Run.errs = errs /\ Run.dead = dead /\ Run.cut = CutOff
  BY <1>1, <1>2 DEF Run
<1>7. Run' = [phase |-> "final", walk |-> "on", left |-> {}, jobs |-> {},
              errs |-> FALSE, dead |-> FALSE, cut |-> {}, outcome |-> end]
  BY <1>1, <1>3 DEF Run
<1>8. Status' = Status \cup {Says(end, errs)}
  <2>1. Status = {"RUNNING"}
    BY <1>1, StatusUnderWay
  <2>2. Status' = {"RUNNING", Says(end, errs)}
    BY <1>1, <1>3, <1>7 DEF Status, Says
  <2> QED BY <2>1, <2>2
<1>9. Lost' = IF Says(end, errs) = "COMPLETED" THEN Lost \cup CutOff ELSE Lost
  <2>1. Lost = {} /\ CutOff' = CutOff /\ errs' = errs
    BY <1>1, StatusUnderWay DEF CutOff
  <2>2. Lost' = IF result' = "nil" /\ ~errs THEN CutOff ELSE {}
    BY <2>1 DEF Lost
  <2>3. Says(end, errs) = "COMPLETED" <=> result' = "nil" /\ ~errs
    BY <1>3 DEF Says
  <2> QED BY <2>1, <2>2, <2>3
<1> HIDE DEF end
<1> QED BY <1>1, <1>3, <1>5, <1>6, <1>7, <1>8, <1>9, MapsFinish

LEMMA CancelIsStep ==
  ASSUME PoolTypeOK, Cancel
  PROVE  Getter!Cancel("scan")
<1>1. /\ dead = FALSE /\ dead' = TRUE /\ result = "none"
      /\ UNCHANGED <<walker, left, jobs, worker, hand, chunks, cut, errs, result>>
  BY DEF Cancel, PoolTypeOK, walkVars, outVars
<1>2. UNCHANGED <<Walk, NoneSpawned, Emitted, Status, Lost, CutOff>>
  BY <1>1 DEF Walk, Spawning, NoneSpawned, Emitted, Status, Run, Lost, CutOff
<1>3. Run.phase = "run"
  BY <1>1 DEF Run
<1>4. Run' = [Run EXCEPT !.dead = dead']
  BY <1>1, <1>2, RunStopped
<1> QED BY <1>1, <1>2, <1>3, <1>4, MapsCancel

LEMMA StepMaps ==
  ASSUME PoolTypeOK, FlowInv, FlowInv', [PoolNext]_poolVars
  PROVE  [Getter!HandlerStep("getter") \/ Getter!Cancel("scan")]_(Getter!getterVars)
<1> DEFINE Goal == Getter!HandlerStep("getter") \/ Getter!Cancel("scan") \/ Same
<1>1. OrderInv'
  BY DEF FlowInv
<1>2. ASSUME NEW b \in Blob, Emit(b) PROVE Goal
  BY <1>2, EmitIsStep
<1>3. ASSUME NEW err \in {"nil", "ctx", "git"}, WalkEnds(err) PROVE Goal
  BY <1>1, <1>3, WalkEndsIsStep
<1>4. ASSUME NEW w \in Worker, WorkerStep(w) PROVE Goal
  BY <1>1, <1>4, SpawnIsStep, TakeIsStep, LeaveIsStep, ProcessIsStep, CutShortIsStep,
     ProcessFailsIsStep DEF WorkerStep
<1>5. ASSUME Coordinate \/ UNCHANGED poolVars PROVE Goal
  <2>1. UNCHANGED <<walker, left, jobs, worker, hand, dead, chunks, cut, errs, result>>
    BY <1>5 DEF Coordinate, poolVars, walkVars, outVars
  <2>2. Same
    BY <2>1 DEF Same, Run, Walk, Spawning, NoneSpawned, Emitted, Status, Lost, CutOff
  <2> QED BY <2>2
<1>6. Return => Goal
  BY ReturnIsStep
<1>7. Cancel => Goal
  BY CancelIsStep
<1>8. Goal
  BY <1>2, <1>3, <1>4, <1>5, <1>6, <1>7 DEF PoolNext, WalkerStep, Over
<1> QED BY <1>8, SameStutters

-----------------------------------------------------------------------------
(* The theorems.                                                           *)

\* What the coordinator counted agrees with what the workers did, in every state.
THEOREM PoolInvariant == PoolSpec => []PoolInv
BY InitInv, StepInv, PTL DEF PoolSpec

\* Every variable keeps its type, the channel its bound, and a worker without a
\* process has no job in hand.
THEOREM PoolTypeCorrect == PoolSpec => []PoolTypeOK
<1>1. PoolInv => PoolTypeOK
  BY DEF PoolInv
<1> QED BY <1>1, PoolInvariant, PTL

\* waitFirstSpawn cancels the walk only if every spawn failed, in whatever order and
\* however late the signals came.
THEOREM PoolHopeless == PoolSpec => []OnlyHopelessWalkIsCancelled
<1>1. ASSUME PoolInv, failures >= Cardinality(Worker) PROVE NoneSpawned
  <2>1. failures \in Nat /\ Cardinality(Bad(spawnSig)) \in Nat
    BY <1>1, TypesOfChannels
  <2>2. failures + Cardinality(Bad(spawnSig)) = Cardinality(Failed)
    BY <1>1 DEF PoolInv, CountInv
  <2>3. Cardinality(Failed) = Cardinality(Worker)
    BY <1>1, <2>1, <2>2, FailedIsFinite
  <2>4. Failed = Worker
    BY <2>3, FailedIsFinite
  <2> QED BY <2>4 DEF Failed, NoneSpawned
<1>2. PoolInv => OnlyHopelessWalkIsCancelled
  BY <1>1 DEF PoolInv, CountInv, OnlyHopelessWalkIsCancelled
<1> QED BY <1>2, PoolInvariant, PTL

LEMMA FlowInvariant == PoolSpec => []FlowInv
<1>1. PoolInv => PoolTypeOK
  BY DEF PoolInv
<1>2. FlowInv /\ PoolInv /\ [PoolNext]_poolVars => FlowInv'
  BY <1>1, StepFlow
<1> QED BY <1>2, InitFlow, PoolInvariant, PTL DEF PoolSpec

\* A walk that ends well, with no error counted, scanned every blob and published each
\* that was not in a worker's hands when its cat-file ended.
THEOREM PoolCleanIsWhole == PoolSpec => []CleanWalkIsWhole
<1>1. ASSUME PoolTypeOK, FlowInv, result = "nil", ~errs
      PROVE  scanned = Blob /\ Blob \subseteq chunks \cup CutOff
  <2>1. walker = "nil" /\ \A w \in Worker : worker[w] = "done"
    BY <1>1 DEF FlowInv, OrderInv
  <2>2. left = {} /\ ~NoneSpawned /\ AllGone
    BY <1>1, <2>1, PoolAssumption DEF FlowInv, OrderInv, NoneSpawned, AllGone
  <2>3. Emitted = {}
    BY <1>1, <2>2, GoneIs
  <2>4. Blob \subseteq scanned /\ scanned \subseteq chunks \cup CutOff
    BY <1>1, <2>1, <2>2, <2>3 DEF FlowInv, TallyInv
  <2> QED BY <1>1, <2>4 DEF PoolTypeOK
<1>2. PoolInv /\ FlowInv => CleanWalkIsWhole
  BY <1>1 DEF PoolInv, CleanWalkIsWhole
<1> QED BY <1>2, FlowInvariant, PoolInvariant, PTL

\* Every step of the goroutines is a step of GetterPool's handler, a cancellation, or
\* leaves its record as it is: what is proved of the record there, for any blobs, holds
\* of the walker, the workers and the coordinator here.
THEOREM PoolImplementsRun == PoolSpec => ImplementsRun
<1>1. PoolInv => PoolTypeOK
  BY DEF PoolInv
<1>4. /\ PoolInv /\ FlowInv /\ FlowInv' /\ [PoolNext]_poolVars
      => [Getter!HandlerStep("getter") \/ Getter!Cancel("scan")]_(Getter!getterVars)
  BY <1>1, StepMaps
<1> QED BY <1>4, FlowInvariant, PoolInvariant, PTL DEF PoolSpec, ImplementsRun

===============================================================================
