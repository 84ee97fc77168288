------------------------------- MODULE WorkQueue ------------------------------
(***************************************************************************)
(* A JetStream work queue and the loops that drain it: the pull loop of    *)
(* kit/nats/pullconsumer (scanner and writer) and the queue subscription   *)
(* of the getters.  The server is external: it is modelled from the        *)
(* consumer options and the Ack, Nak, Term and InProgress calls.  Either   *)
(* way a worker handles what it was delivered in order, one at a time, and *)
(* the heartbeat keeps only the message in hand alive.                     *)
(*                                                                         *)
(* The service that instantiates this module decides when the handler of   *)
(* the message in hand returns, and with what: it conjoins its own step    *)
(* with Ack or Nak.                                                        *)
(***************************************************************************)
EXTENDS Naturals, Sequences, FiniteSets, Functions

CONSTANTS
  Msg,            \* messages a producer may publish
  Worker,         \* goroutines that run the loop
  BatchSize,      \* Options.BatchSize, of a Fetch
  MaxDeliver,     \* ConsumerOptions.MaxDeliver, enforced by the server
  MaxAckPending   \* ConsumerOptions.MaxAckPending, over all workers

\* What a consumer may be set up with: no limit is zero, and what is published in the
\* life of a stream is finite.
QueueOptions ==
  /\ IsFiniteSet(Msg)
  /\ BatchSize \in Nat \ {0} /\ MaxDeliver \in Nat \ {0} /\ MaxAckPending \in Nat \ {0}

ASSUME QueueAssumption == QueueOptions

VARIABLES
  state,   \* where each message is, see MsgState
  tries,   \* how many times it was delivered (NumDelivered)
  batch    \* the messages a worker fetched and has not settled, head in hand

queueVars == <<state, tries, batch>>

\* unsent    not published yet
\* ready     in the stream, to be delivered (again)
\* in_flight delivered, its AckWait is running
\* acked     acknowledged or terminated, removed from the stream
\* given_up  delivered MaxDeliver times and never acked: it stays in the stream,
\*           and no consumer sees it again
MsgState == {"unsent", "ready", "in_flight", "acked", "given_up"}

QueueInit ==
  /\ state = [m \in Msg |-> "unsent"]
  /\ tries = [m \in Msg |-> 0]
  /\ batch = [w \in Worker |-> <<>>]

Ready == {m \in Msg : state[m] = "ready"}

\* How many more messages the server may have outstanding.
Room == MaxAckPending - Cardinality({m \in Msg : state[m] = "in_flight"})

Busy(w) == batch[w] # <<>>
InHand(w) == Head(batch[w])

Publish(m) ==
  /\ state[m] = "unsent"
  /\ state' = [state EXCEPT ![m] = "ready"]
  /\ UNCHANGED <<tries, batch>>

\* Every message of msgs is delivered (once more) to w, behind what it has.
Deliver(w, msgs) ==
  /\ batch' = [batch EXCEPT ![w] = @ \o msgs]
  /\ state' = [m \in Msg |-> IF m \in Range(msgs) THEN "in_flight" ELSE state[m]]
  /\ tries' = [m \in Msg |-> IF m \in Range(msgs) THEN tries[m] + 1 ELSE tries[m]]

\* sub.Fetch of the pull loop: a batch, once the last one is handled.
Fetch(w) ==
  /\ ~Busy(w)
  /\ \E n \in 1 .. BatchSize :
       n <= Room /\ \E msgs \in Injection(1 .. n, Ready) : Deliver(w, msgs)

\* A queue subscription: the server pushes the message to any member, busy or not.
Push(w, m) ==
  /\ state[m] = "ready"
  /\ Room > 0
  /\ Deliver(w, <<m>>)

\* What becomes of a delivered message that will not be acked: the server delivers
\* it again unless MaxDeliver is reached.
AfterFailure(m) == IF tries[m] < MaxDeliver THEN "ready" ELSE "given_up"

\* AckWait runs out.  The heartbeat refreshes the message a worker has in hand, never
\* the ones waiting behind it, and stops when the worker's context is cancelled.
Expire(m, Cancelled) ==
  /\ state[m] = "in_flight"
  /\ \A w \in Worker \ Cancelled : Busy(w) => InHand(w) # m
  /\ state' = [state EXCEPT ![m] = AfterFailure(m)]
  /\ UNCHANGED <<tries, batch>>

\* The handler is done with the message in hand; the worker goes on to the next.
Settle(w) == batch' = [batch EXCEPT ![w] = Tail(@)]

\* The handler returned nil, or the payload does not unmarshal (of a request: Term).
\* The message leaves the stream even when it expired meanwhile.
Ack(w) ==
  /\ Busy(w)
  /\ Settle(w)
  /\ state' = [state EXCEPT ![InHand(w)] = "acked"]
  /\ UNCHANGED tries

\* The Ack or the Nak never reaches the server: the error is logged, and the message
\* is left to expire.
Unanswered(w) ==
  /\ Busy(w)
  /\ Settle(w)
  /\ UNCHANGED <<state, tries>>

\* Mutant: the message is delivered again however often it failed.
NakForever(w) ==
  /\ Busy(w)
  /\ Settle(w)
  /\ state' = IF state[InHand(w)] = "in_flight"
              THEN [state EXCEPT ![InHand(w)] = "ready"]
              ELSE state
  /\ UNCHANGED tries

\* The handler failed or panicked.
Nak(w) ==
  /\ Busy(w)
  /\ Settle(w)
  /\ state' = IF state[InHand(w)] = "in_flight"
              THEN [state EXCEPT ![InHand(w)] = AfterFailure(InHand(w))]
              ELSE state
  /\ UNCHANGED tries

\* The process of these workers dies with everything they were delivered.
DropBatches(W) ==
  /\ batch' = [w \in Worker |-> IF w \in W THEN <<>> ELSE batch[w]]
  /\ UNCHANGED <<state, tries>>

-----------------------------------------------------------------------------
(* Type correctness; no message is delivered more than MaxDeliver times,   *)
(* and never more than MaxAckPending are outstanding.                      *)
QueueTypeOK ==
  /\ state \in [Msg -> MsgState]
  /\ tries \in [Msg -> 0 .. MaxDeliver]
  /\ batch \in [Worker -> Seq(Msg)]
  /\ Room >= 0

===============================================================================
