----------------------------- MODULE StatusTracker -----------------------------
(***************************************************************************)
(* The scanner's Tracker (services/scanner/internal/status/tracker.go): a  *)
(* counter of findings per scan, told to the STATUS stream on a tick and,  *)
(* at once, when the last chunk of a scan was handled.  Both publish what  *)
(* they read earlier under the mutex, with the mutex released.             *)
(*                                                                         *)
(* A count of 0 is a scan the maps have no key for.                        *)
(***************************************************************************)
EXTENDS Naturals

CONSTANTS
  Scan,
  Caller,   \* goroutines that call Incr and FinalEmit
  NotRead

ASSUME TrackerAssumption == NotRead \notin Nat

VARIABLES
  counts,        \* Tracker.counts
  lastEmitted,   \* Tracker.lastEmitted
  pendingFinal,  \* scans with a key in Tracker.pendingFinal
  emitting,      \* what emitDeltas has still to publish; 0: nothing
  finalRead,     \* the count a caller's FinalEmit has read, NotRead outside of it
  said           \* the highest count of a scan in the STATUS stream: consumers merge
                 \* the events of a scan by maximum (scanmetrics.Merge)

trackerMem  == <<counts, lastEmitted, pendingFinal, emitting, finalRead>>
trackerVars == <<trackerMem, said>>

TrackerInit ==
  /\ counts = [s \in Scan |-> 0]
  /\ lastEmitted = [s \in Scan |-> 0]
  /\ pendingFinal = {}
  /\ emitting = [s \in Scan |-> 0]
  /\ finalRead = [w \in Caller |-> NotRead]
  /\ said = [s \in Scan |-> 0]

Incr(s) ==
  /\ counts' = [counts EXCEPT ![s] = @ + 1]
  /\ UNCHANGED <<lastEmitted, pendingFinal, emitting, finalRead, said>>

\* emitDeltas up to the unlock: collect the scans whose count moved, and forget those
\* whose grace deadline has passed.  A tick that had to wait for a publish may be late
\* by any time.
Tick ==
  /\ \A s \in Scan : emitting[s] = 0
  /\ \E gone \in SUBSET pendingFinal :
       /\ emitting' = [s \in Scan |->
            IF s \notin gone /\ lastEmitted[s] # counts[s] THEN counts[s] ELSE 0]
       /\ counts' = [s \in Scan |-> IF s \in gone THEN 0 ELSE counts[s]]
       /\ lastEmitted' = [s \in Scan |-> IF s \in gone THEN 0 ELSE lastEmitted[s]]
       /\ pendingFinal' = pendingFinal \ gone
  /\ UNCHANGED <<finalRead, said>>

Say(s, n) == said' = [said EXCEPT ![s] = IF n > @ THEN n ELSE @]

\* Mutant: the counter's present value is recorded.
EmitRecordsCurrent(s) ==
  /\ emitting[s] # 0
  /\ Say(s, emitting[s])
  /\ lastEmitted' = [lastEmitted EXCEPT ![s] = counts[s]]
  /\ emitting' = [emitting EXCEPT ![s] = 0]
  /\ UNCHANGED <<counts, pendingFinal, finalRead>>

\* ... then one scan after the other: publish, and record what was published, even
\* when the counter has moved on.
Emit(s) ==
  /\ emitting[s] # 0
  /\ Say(s, emitting[s])
  /\ lastEmitted' = [lastEmitted EXCEPT ![s] = emitting[s]]
  /\ emitting' = [emitting EXCEPT ![s] = 0]
  /\ UNCHANGED <<counts, pendingFinal, finalRead>>

\* Mutant: the count is recorded although it was not published.
EmitFailsRecorded(s) ==
  /\ emitting[s] # 0
  /\ lastEmitted' = [lastEmitted EXCEPT ![s] = emitting[s]]
  /\ emitting' = [emitting EXCEPT ![s] = 0]
  /\ UNCHANGED <<counts, pendingFinal, finalRead, said>>

\* The publish fails: nothing is recorded, the next tick tries again.
EmitFails(s) ==
  /\ emitting[s] # 0
  /\ emitting' = [emitting EXCEPT ![s] = 0]
  /\ UNCHANGED <<counts, lastEmitted, pendingFinal, finalRead, said>>

\* FinalEmit reads the count ...
FinalRead(w, s) ==
  /\ finalRead[w] = NotRead
  /\ finalRead' = [finalRead EXCEPT ![w] = counts[s]]
  /\ UNCHANGED <<counts, lastEmitted, pendingFinal, emitting, said>>

\* ... publishes and records it, and starts the grace window.
FinalEmitted(w, s) ==
  /\ finalRead[w] # NotRead
  /\ Say(s, finalRead[w])
  /\ pendingFinal' = pendingFinal \cup {s}
  /\ lastEmitted' = [lastEmitted EXCEPT ![s] = finalRead[w]]
  /\ finalRead' = [finalRead EXCEPT ![w] = NotRead]
  /\ UNCHANGED <<counts, emitting>>

FinalFails(w) ==
  /\ finalRead[w] # NotRead
  /\ finalRead' = [finalRead EXCEPT ![w] = NotRead]
  /\ UNCHANGED <<counts, lastEmitted, pendingFinal, emitting, said>>

\* A new process starts counting from zero.
Forget ==
  /\ counts' = [s \in Scan |-> 0]
  /\ lastEmitted' = [s \in Scan |-> 0]
  /\ pendingFinal' = {}
  /\ emitting' = [s \in Scan |-> 0]
  /\ finalRead' = [w \in Caller |-> NotRead]
  /\ UNCHANGED said

-----------------------------------------------------------------------------
(* Type correctness.                                                       *)
TrackerTypeOK ==
  /\ counts \in [Scan -> Nat] /\ lastEmitted \in [Scan -> Nat]
  /\ pendingFinal \subseteq Scan
  /\ emitting \in [Scan -> Nat]
  /\ finalRead \in [Caller -> Nat \cup {NotRead}]
  /\ said \in [Scan -> Nat]

\* What the tracker takes for published was published: otherwise a tick skips a count
\* nobody was told.
RecordedWasSaid == \A s \in Scan : lastEmitted[s] <= said[s]

===============================================================================
