------------------------------- MODULE BlobPool -------------------------------
(***************************************************************************)
(* Runner.runBlobWalk (services/getter/internal/scan/runner.go) with the   *)
(* walker (internal/git/walker.go) and waitFirstSpawn: one goroutine walks *)
(* the repository and sends blobs on a bounded channel, each worker spawns *)
(* a cat-file process and drains the channel, a coordinator cancels the    *)
(* walk if no worker could spawn, and the caller waits for the workers,    *)
(* collects the errors and returns.  A cat-file ends with the context of   *)
(* the run or by itself (internal/git/catfile.go), in the middle of a blob *)
(* or between two; the worker it belonged to stays on the channel.         *)
(*                                                                         *)
(* GetterPool has one record for all of this; ImplementsRun states that    *)
(* every step here is one of its steps.                                    *)
(***************************************************************************)
EXTENDS Naturals, Sequences, FiniteSets

CONSTANTS
  Blob, Worker, NoBlob,
  Cap,      \* capacity of the jobs channel, 2*workers in the code
  Faults    \* what may fail: "walk" (git), "spawn" or "cat-file" (git again), "publish"

ASSUME PoolAssumption ==
  /\ Cap \in Nat \ {0}
  /\ NoBlob \notin Blob
  /\ IsFiniteSet(Blob)
  /\ IsFiniteSet(Worker) /\ Worker # {}   \* workers <= 0 is taken for 1
  /\ Faults \subseteq {"walk", "spawn", "cat-file", "publish"}

VARIABLES
  walker,    \* "on", or the error the walker left in walkErr: "nil", "ctx", "git"
  left,      \* blobs the walker has yet to emit
  jobs,      \* the channel; it is closed once the walker is not on
  worker,    \* "spawn", "loop", "orphan" (its cat-file ended), "done", "failed" (to spawn)
  hand,      \* the job a worker processes
  spawnSig,  \* what the workers reported and the coordinator has not read
  failures,  \* failed spawns the coordinator counted
  coord,     \* the coordinator: "wait", "spawned", "none spawned"
  dead,      \* ctx, the run's context, is cancelled
  chunks,    \* blobs published in full
  scanned,   \* history: blobs counted in BlobsScanned
  cut,       \* history: the blob each worker was in the middle of when its cat-file ended
  errs,      \* Context.Errors # 0
  result     \* "none", or what runBlobWalk returned: "nil", "ctx", "git", "spawn"

walkVars == <<walker, left>>
signVars == <<spawnSig, failures, coord>>
outVars  == <<chunks, scanned, cut, errs>>
poolVars == <<walkVars, jobs, worker, hand, signVars, dead, outVars, result>>

PoolInit ==
  /\ walker = "on" /\ left = Blob
  /\ jobs = <<>>
  /\ worker = [w \in Worker |-> "spawn"]
  /\ hand = [w \in Worker |-> NoBlob]
  /\ spawnSig = <<>> /\ failures = 0 /\ coord = "wait"
  /\ dead \in BOOLEAN
  /\ chunks = {} /\ scanned = {} /\ cut = [w \in Worker |-> NoBlob] /\ errs = FALSE
  /\ result = "none"

\* walkCtx: the run's context, the coordinator's cancel, the deferred one.
WalkCancelled == dead \/ coord = "none spawned" \/ result # "none"

-----------------------------------------------------------------------------
(* The walker.                                                             *)

\* Mutant: the channel has no bound.
EmitUnbounded(b) ==
  /\ walker = "on"
  /\ b \in left
  /\ jobs' = Append(jobs, b)
  /\ left' = left \ {b}
  /\ UNCHANGED <<walker, worker, hand, signVars, dead, outVars, result>>

Emit(b) ==
  /\ walker = "on"
  /\ b \in left
  /\ Len(jobs) < Cap
  /\ jobs' = Append(jobs, b)
  /\ left' = left \ {b}
  /\ UNCHANGED <<walker, worker, hand, signVars, dead, outVars, result>>

\* WalkBlobs returns: everything is emitted, its select saw the context cancelled, or
\* git failed.
WalkEnds(err) ==
  /\ walker = "on"
  /\ CASE err = "nil" -> left = {}
       [] err = "ctx" -> WalkCancelled
       [] err = "git" -> "walk" \in Faults
  /\ walker' = err
  /\ UNCHANGED <<left, jobs, worker, hand, signVars, dead, outVars, result>>

-----------------------------------------------------------------------------
(* The workers and the coordinator.                                        *)

\* NewBatch, which cannot start a process under a cancelled context, and the worker's
\* one send to spawnSig.
Spawn(w) ==
  /\ worker[w] = "spawn"
  /\ \E ok \in BOOLEAN :
       /\ IF ok THEN ~dead ELSE dead \/ "spawn" \in Faults
       /\ worker' = [worker EXCEPT ![w] = IF ok THEN "loop" ELSE "failed"]
       /\ spawnSig' = Append(spawnSig, ok)
  /\ UNCHANGED <<walkVars, jobs, hand, failures, coord, dead, outVars, result>>

\* Mutant: the first signal decides.
CoordinateOnFirst ==
  /\ coord = "wait" /\ spawnSig # <<>>
  /\ spawnSig' = Tail(spawnSig)
  /\ coord' = IF Head(spawnSig) THEN "spawned" ELSE "none spawned"
  /\ UNCHANGED failures
  /\ UNCHANGED <<walkVars, jobs, worker, hand, dead, outVars, result>>

\* waitFirstSpawn reads one signal.
Coordinate ==
  /\ coord = "wait" /\ spawnSig # <<>>
  /\ spawnSig' = Tail(spawnSig)
  /\ \/ /\ Head(spawnSig)
        /\ coord' = "spawned" /\ UNCHANGED failures
     \/ /\ ~Head(spawnSig)
        /\ failures' = failures + 1
        /\ coord' = IF failures' >= Cardinality(Worker) THEN "none spawned" ELSE "wait"
  /\ UNCHANGED <<walkVars, jobs, worker, hand, dead, outVars, result>>

Take(w) ==
  /\ worker[w] \in {"loop", "orphan"} /\ hand[w] = NoBlob
  /\ jobs # <<>>
  /\ hand' = [hand EXCEPT ![w] = Head(jobs)]
  /\ jobs' = Tail(jobs)
  /\ UNCHANGED <<walkVars, worker, signVars, dead, outVars, result>>

\* The channel is closed and drained.
Leave(w) ==
  /\ worker[w] \in {"loop", "orphan"} /\ hand[w] = NoBlob
  /\ jobs = <<>> /\ walker # "on"
  /\ worker' = [worker EXCEPT ![w] = "done"]
  /\ UNCHANGED <<walkVars, jobs, hand, signVars, dead, outVars, result>>

Answered(w) == scanned' = scanned \cup {hand[w]} /\ hand' = [hand EXCEPT ![w] = NoBlob]

\* processBlob: the blob's chunks are published ...
Process(w) ==
  /\ hand[w] # NoBlob /\ worker[w] = "loop" /\ ~dead
  /\ chunks' = chunks \cup {hand[w]}
  /\ Answered(w)
  /\ UNCHANGED <<walkVars, jobs, worker, signVars, dead, cut, errs, result>>

\* Mutant: the worker starts another cat-file, and goes on.
CutAndRestart(w) ==
  /\ hand[w] # NoBlob /\ worker[w] = "loop"
  /\ dead \/ "cat-file" \in Faults
  /\ cut' = [cut EXCEPT ![w] = hand[w]]
  /\ Answered(w)
  /\ UNCHANGED <<walkVars, jobs, worker, signVars, dead, chunks, errs, result>>

\* ... or its cat-file ends inside the blob, which the bounded reader reports like the
\* end of the blob: what was read is published, or nothing, and nil is returned ...
CutShort(w) ==
  /\ hand[w] # NoBlob /\ worker[w] = "loop"
  /\ dead \/ "cat-file" \in Faults
  /\ worker' = [worker EXCEPT ![w] = "orphan"]
  /\ cut' = [cut EXCEPT ![w] = hand[w]]
  /\ Answered(w)
  /\ UNCHANGED <<walkVars, jobs, signVars, dead, chunks, errs, result>>

\* Mutant: the worker returns at the first blob it cannot publish.
ProcessFailsForGood(w) ==
  /\ hand[w] # NoBlob
  /\ dead \/ "publish" \in Faults
  /\ errs' = TRUE
  /\ hand' = [hand EXCEPT ![w] = NoBlob]
  /\ worker' = [worker EXCEPT ![w] = "done"]
  /\ UNCHANGED <<walkVars, jobs, signVars, dead, chunks, scanned, cut, result>>

\* ... or not all of them are, or its cat-file ended before it: the error is counted, and
\* the worker goes on.
ProcessFails(w) ==
  /\ hand[w] # NoBlob
  /\ \/ /\ worker[w] = "orphan" \/ dead \/ "publish" \in Faults
        /\ UNCHANGED worker
     \/ /\ worker[w] = "loop" /\ (dead \/ "cat-file" \in Faults)
        /\ worker' = [worker EXCEPT ![w] = "orphan"]
  /\ errs' = TRUE
  /\ hand' = [hand EXCEPT ![w] = NoBlob]
  /\ UNCHANGED <<walkVars, jobs, signVars, dead, chunks, scanned, cut, result>>

-----------------------------------------------------------------------------
(* The caller.                                                             *)

NoneSpawned == \A w \in Worker : worker[w] = "failed"
AllGone     == \A w \in Worker : worker[w] \in {"done", "failed"}

\* Mutant: the walker's error is read before the workers'.
ReturnWalkFirst ==
  /\ result = "none" /\ AllGone
  /\ walker # "on"
  /\ result' = walker
  /\ UNCHANGED <<walkVars, jobs, worker, hand, signVars, dead, outVars>>

\* wg.Wait, then the workers' errors, then the walker's; the deferred walkCancel.
Return ==
  /\ result = "none" /\ AllGone
  /\ IF \E w \in Worker : worker[w] = "failed"
     THEN result' = "spawn"
     ELSE walker # "on" /\ result' = walker
  /\ UNCHANGED <<walkVars, jobs, worker, hand, signVars, dead, outVars>>

\* The scan is cancelled, or the process told to stop.
Cancel ==
  /\ ~dead /\ result = "none"
  /\ dead' = TRUE
  /\ UNCHANGED <<walkVars, jobs, worker, hand, signVars, outVars, result>>

\* No goroutine is left behind, and nothing more can happen.
Over ==
  /\ result # "none" /\ walker # "on" /\ coord # "wait"
  /\ UNCHANGED poolVars

-----------------------------------------------------------------------------
WalkerStep ==
  \/ \E b \in Blob : Emit(b)
  \/ WalkEnds("nil") \/ WalkEnds("ctx")

WorkerStep(w) ==
  Spawn(w) \/ Take(w) \/ Leave(w) \/ Process(w) \/ CutShort(w) \/ ProcessFails(w)

PoolNext ==
  \/ WalkerStep \/ WalkEnds("git") \/ Coordinate \/ Return \/ Cancel \/ Over
  \/ \E w \in Worker : WorkerStep(w)

\* The goroutines run; git and the broker answer in the end.  Nothing makes git fail:
\* a walker that waits for room in the channel is not saved by an error.
PoolFairness ==
  /\ WF_poolVars(WalkerStep) /\ WF_poolVars(Coordinate) /\ WF_poolVars(Return)
  /\ \A w \in Worker : WF_poolVars(WorkerStep(w))

PoolSpec == PoolInit /\ [][PoolNext]_poolVars /\ PoolFairness

-----------------------------------------------------------------------------
(* Type correctness.  A worker without a process has nothing in hand.      *)
PoolTypeOK ==
  /\ walker \in {"on", "nil", "ctx", "git"}
  /\ left \subseteq Blob
  /\ jobs \in Seq(Blob) /\ Len(jobs) <= Cap
  /\ worker \in [Worker -> {"spawn", "loop", "orphan", "done", "failed"}]
  /\ hand \in [Worker -> Blob \cup {NoBlob}]
  /\ \A w \in Worker : hand[w] # NoBlob => worker[w] \in {"loop", "orphan"}
  /\ spawnSig \in Seq(BOOLEAN) /\ failures \in 0 .. Cardinality(Worker)
  /\ coord \in {"wait", "spawned", "none spawned"}
  /\ dead \in BOOLEAN /\ errs \in BOOLEAN
  /\ chunks \subseteq Blob /\ scanned \subseteq Blob
  /\ cut \in [Worker -> Blob \cup {NoBlob}]
  /\ result \in {"none", "nil", "ctx", "git", "spawn"}

\* The walk is cancelled by the coordinator only if no worker will ever drain the
\* channel: a slow spawn is not taken for a failed one.
OnlyHopelessWalkIsCancelled == coord = "none spawned" => NoneSpawned

CutOff == {cut[w] : w \in Worker} \ {NoBlob}

\* A walk that returns no error and counted none scanned every blob, and published each
\* but the one each worker may have been reading when its cat-file ended: after that a
\* worker fails every blob it takes.
CleanWalkIsWhole ==
  result = "nil" /\ ~errs => scanned = Blob /\ Blob \subseteq chunks \cup CutOff

\* runBlobWalk returns, and its walker and coordinator end, whatever fails and
\* whenever the scan is cancelled: nobody waits for a channel nobody serves.
NothingIsLeftRunning ==
  <>(result # "none" /\ walker # "on" /\ coord # "wait")

-----------------------------------------------------------------------------
(* The getter's run, as GetterPool has it, of one request on one getter.   *)

Spawning == \E w \in Worker : worker[w] = "spawn"

\* The walk counts as going on until its end and the fate of every spawn are known:
\* any failed spawn fails it.  If none succeeded, what was emitted is dropped.
Walk ==
  CASE Spawning \/ (walker = "on" /\ ~NoneSpawned) -> "on"
    [] ~Spawning /\ walker = "nil" /\ \A w \in Worker : worker[w] # "failed" -> "done"
    [] OTHER -> "failed"

Emitted == {jobs[i] : i \in DOMAIN jobs} \cup ({hand[w] : w \in Worker} \ {NoBlob})

Run ==
  IF result # "none"
  THEN [phase |-> "final", walk |-> "on", left |-> {}, jobs |-> {},
        errs |-> FALSE, dead |-> FALSE, cut |-> {},
        outcome |-> CASE result = "nil"            -> "COMPLETED"
                      [] result # "nil" /\ dead    -> "CANCELLED"
                      [] result # "nil" /\ ~dead   -> "FAILED"]
  ELSE [phase |-> "run", walk |-> Walk,
        left |-> IF Walk = "failed" THEN {} ELSE left,
        jobs |-> IF NoneSpawned THEN {} ELSE Emitted,
        errs |-> errs, dead |-> dead, cut |-> CutOff, outcome |-> "RUNNING"]

Status ==
  {"RUNNING"} \cup
  CASE result = "none"           -> {}
    [] result = "nil" /\ errs    -> {"COMPLETED with errors"}
    [] result = "nil" /\ ~errs   -> {"COMPLETED"}
    [] OTHER                     -> {Run.outcome}

\* What a clean end leaves out.
Lost == IF result = "nil" /\ ~errs THEN CutOff ELSE {}

Getter == INSTANCE GetterPool WITH
  Msg <- {"request"}, Worker <- {"getter"}, BatchSize <- 1, MaxDeliver <- 1,
  MaxAckPending <- 1, ScanOf <- [r \in {"request"} |-> "scan"], Scan <- {"scan"},
  Valid <- {"request"}, Faults <- {"walk", "publish", "cat-file"},
  CatFiles <- Cardinality(Worker), MaxRestarts <- 0,
  state <- [r \in {"request"} |-> "in_flight"], tries <- [r \in {"request"} |-> 1],
  batch <- [g \in {"getter"} |-> <<"request">>],
  run <- [g \in {"getter"} |-> Run], chunks <- [s \in {"scan"} |-> chunks],
  status <- [s \in {"scan"} |-> Status], unsaid <- {},
  lost <- [s \in {"scan"} |-> Lost],
  stopping <- {}, asked <- IF dead THEN {"scan"} ELSE {}, restarts <- 0

\* Every step of the pool is a step of GetterPool's run or leaves it alone: what is
\* checked of the record there holds of the goroutines here.
ImplementsRun ==
  [][ \/ Getter!HandlerStep("getter")
      \/ Getter!Cancel("scan") ]_(Getter!getterVars)

===============================================================================
