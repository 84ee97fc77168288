---------------------------- MODULE WorkQueueProofs ----------------------------
(***************************************************************************)
(* What every service may rely on of its queue, for any number of messages *)
(* and workers and any options: each operation of WorkQueue keeps QueueInv.*)
(* The proofs of the services cite these lemmas for their queue.           *)
(***************************************************************************)
EXTENDS WorkQueue, FiniteSetTheorems, SequenceTheorems, TLAPS

\* A message that is to be delivered was delivered less than MaxDeliver times;
\* otherwise the delivery would exceed it.
DeliverableInv ==
  \A m \in Msg : state[m] \in {"unsent", "ready"} => tries[m] < MaxDeliver

QueueInv == QueueTypeOK /\ DeliverableInv

InFlight == {m \in Msg : state[m] = "in_flight"}

\* The options, spelled out.
LEMMA QueueOptionsHold ==
  /\ IsFiniteSet(Msg)
  /\ BatchSize \in Nat \ {0} /\ MaxDeliver \in Nat \ {0} /\ MaxAckPending \in Nat \ {0}
BY QueueAssumption DEF QueueOptions

-----------------------------------------------------------------------------
(* Room and the messages in flight.                                        *)

\* There is room exactly while fewer than MaxAckPending messages are in flight.
LEMMA RoomIsCount ==
  /\ InFlight \subseteq Msg /\ IsFiniteSet(InFlight)
  /\ Cardinality(InFlight) \in Nat
  /\ Room = MaxAckPending - Cardinality(InFlight)
<1>1. InFlight \in SUBSET Msg
  BY DEF InFlight
<1>2. IsFiniteSet(InFlight)
  BY <1>1, FS_Subset, QueueOptionsHold
<1> QED BY <1>1, <1>2, FS_CardinalityType DEF Room, InFlight

\* A step that takes messages out of flight, or none at all, leaves room for the rest.
LEMMA RoomGrows ==
  ASSUME Room >= 0, InFlight' \subseteq InFlight
  PROVE  Room' >= 0
<1>1. InFlight' \in SUBSET InFlight
  OBVIOUS
<1>2. /\ IsFiniteSet(InFlight')
      /\ Cardinality(InFlight') <= Cardinality(InFlight)
  BY <1>1, RoomIsCount, FS_Subset
<1>3. Cardinality(InFlight') \in Nat
  BY <1>2, FS_CardinalityType
<1>4. Room' = MaxAckPending - Cardinality(InFlight')
  BY DEF Room, InFlight
<1> QED BY <1>2, <1>3, <1>4, RoomIsCount, QueueOptionsHold

\* An injection of 1 .. n names at most n messages.
LEMMA RangeIsSmall ==
  ASSUME NEW n \in Nat, NEW S, NEW msgs \in Injection(1 .. n, S)
  PROVE  /\ IsFiniteSet(Range(msgs)) /\ Cardinality(Range(msgs)) \in Nat
         /\ Cardinality(Range(msgs)) <= n
         /\ Range(msgs) \subseteq S
<1>1. msgs \in [1 .. n -> S] /\ DOMAIN msgs = 1 .. n
  BY DEF Injection
<1>2. IsFiniteSet(1 .. n) /\ Cardinality(1 .. n) = n
  BY FS_Interval
<1>3. msgs \in Surjection(1 .. n, Range(msgs))
  BY <1>1 DEF Surjection, Range
<1>4. /\ IsFiniteSet(Range(msgs))
      /\ Cardinality(Range(msgs)) <= Cardinality(1 .. n)
  BY <1>2, <1>3, FS_Surjection DEF ExistsSurjection
<1>5. Cardinality(Range(msgs)) \in Nat
  BY <1>4, FS_CardinalityType
<1> QED BY <1>1, <1>2, <1>4, <1>5 DEF Range

-----------------------------------------------------------------------------
(* The operations.                                                         *)

\* The queue starts with nothing published.
LEMMA QueueStarts == QueueInit => QueueInv
<1> SUFFICES ASSUME QueueInit PROVE QueueInv
  OBVIOUS
<1>1. InFlight = {}
  BY DEF QueueInit, InFlight
<1>2. Room >= 0
  BY <1>1, RoomIsCount, FS_EmptySet, QueueOptionsHold
<1> QED BY <1>2, QueueOptionsHold
       DEF QueueInit, QueueInv, QueueTypeOK, DeliverableInv, MsgState

\* Publishing.
LEMMA PublishKeeps ==
  ASSUME QueueInv, NEW m \in Msg, Publish(m)
  PROVE  QueueInv'
<1>1. InFlight' \subseteq InFlight
  BY DEF QueueInv, QueueTypeOK, Publish, InFlight
<1>2. Room' >= 0
  BY <1>1, RoomGrows DEF QueueInv, QueueTypeOK
<1> QED BY <1>2, QueueOptionsHold
       DEF QueueInv, QueueTypeOK, DeliverableInv, Publish, MsgState

\* Messages that are ready are delivered, no more than there is room for.
LEMMA DeliverKeeps ==
  ASSUME QueueInv, NEW w \in Worker, NEW n \in Nat, n <= Room,
         NEW msgs \in Injection(1 .. n, Ready), Deliver(w, msgs)
  PROVE  QueueInv'
<1> DEFINE R == Range(msgs)
<1>1. IsFiniteSet(R) /\ Cardinality(R) \in Nat /\ Cardinality(R) <= n /\ R \subseteq Ready
  BY RangeIsSmall
<1>2. R \subseteq Msg /\ \A m \in R : state[m] = "ready"
  BY <1>1 DEF Ready
<1>3. msgs \in Seq(Msg)
  BY <1>2 DEF Injection, Ready
<1>4. batch' \in [Worker -> Seq(Msg)]
  BY <1>3, ConcatProperties DEF QueueInv, QueueTypeOK, Deliver
<1>5. state' \in [Msg -> MsgState] /\ tries' \in [Msg -> 0 .. MaxDeliver]
  BY <1>2, QueueOptionsHold DEF QueueInv, QueueTypeOK, DeliverableInv, Deliver, MsgState
<1>6. DeliverableInv'
  BY <1>2, QueueOptionsHold DEF QueueInv, QueueTypeOK, DeliverableInv, Deliver
<1>7. Room' >= 0
  <2>1. InFlight' = InFlight \cup R /\ InFlight \cap R = {}
    BY <1>2 DEF QueueInv, QueueTypeOK, Deliver, InFlight
  <2>2. Cardinality(InFlight') = Cardinality(InFlight) + Cardinality(R)
    <3>1. Cardinality(InFlight \cup R)
            = Cardinality(InFlight) + Cardinality(R) - Cardinality(InFlight \cap R)
      BY <1>1, RoomIsCount, FS_Union
    <3>2. Cardinality(InFlight \cap R) = 0
      BY <2>1, FS_EmptySet
    <3>3. Cardinality(InFlight') = Cardinality(InFlight \cup R)
      BY <2>1
    <3> QED BY <1>1, <3>1, <3>2, <3>3, RoomIsCount
  <2>3. Room' = MaxAckPending - Cardinality(InFlight')
    BY DEF Room, InFlight
  <2> QED BY <1>1, <2>2, <2>3, RoomIsCount, QueueOptionsHold
<1> QED BY <1>4, <1>5, <1>6, <1>7 DEF QueueInv, QueueTypeOK

\* A batch is fetched.
LEMMA FetchKeeps ==
  ASSUME QueueInv, NEW w \in Worker, Fetch(w)
  PROVE  /\ QueueInv'
         /\ ~Busy(w)
         /\ \A v \in Worker \ {w} : batch'[v] = batch[v]
         /\ \A m \in Msg : state'[m] = state[m] \/ state'[m] = "in_flight"
<1>1. PICK n \in 1 .. BatchSize : n <= Room /\ \E msgs \in Injection(1 .. n, Ready) : Deliver(w, msgs)
  BY DEF Fetch
<1>2. PICK msgs \in Injection(1 .. n, Ready) : Deliver(w, msgs)
  BY <1>1
<1>3. n \in Nat
  BY <1>1, QueueOptionsHold
<1>4. QueueInv'
  BY <1>1, <1>2, <1>3, DeliverKeeps
<1> QED BY <1>2, <1>4 DEF Fetch, Deliver, QueueInv, QueueTypeOK

\* A message is pushed.
LEMMA PushKeeps ==
  ASSUME QueueInv, NEW w \in Worker, NEW m \in Msg, Push(w, m)
  PROVE  QueueInv'
<1>1. <<m>> \in Injection(1 .. 1, Ready)
  BY DEF Push, Ready, Injection, IsInjective
<1>2. 1 <= Room
  BY RoomIsCount, QueueOptionsHold DEF Push
<1> QED BY <1>1, <1>2, DeliverKeeps DEF Push

\* The step leaves m where it is, or moves it out of flight - to be delivered again
\* only when it was not delivered MaxDeliver times.
Settled(m) ==
  \/ state'[m] \in {state[m], "acked", "given_up"}
  \/ state'[m] = "ready" /\ tries[m] < MaxDeliver

\* Steps that deliver nothing.
LEMMA SettlingKeeps ==
  ASSUME QueueInv, UNCHANGED tries,
         batch' \in [Worker -> Seq(Msg)],
         state' \in [Msg -> MsgState],
         \A m \in Msg : Settled(m)
  PROVE  QueueInv'
<1>1. InFlight' \subseteq InFlight
  BY DEF InFlight, Settled
<1>2. Room' >= 0
  BY <1>1, RoomGrows DEF QueueInv, QueueTypeOK
<1>3. DeliverableInv'
  BY DEF QueueInv, DeliverableInv, Settled
<1> QED BY <1>2, <1>3 DEF QueueInv, QueueTypeOK

\* AckWait runs out.
LEMMA ExpireKeeps ==
  ASSUME QueueInv, NEW m \in Msg, NEW Cancelled, Expire(m, Cancelled)
  PROVE  QueueInv'
<1>1. /\ state' \in [Msg -> MsgState]
      /\ batch' \in [Worker -> Seq(Msg)] /\ UNCHANGED tries
  BY DEF AfterFailure, MsgState, Expire, QueueInv, QueueTypeOK
<1>2. \A x \in Msg : Settled(x)
  BY DEF Settled, AfterFailure, Expire, QueueInv, QueueTypeOK
<1> QED BY <1>1, <1>2, SettlingKeeps

\* What a worker has in hand is a message, and settling it leaves it a shorter batch.
LEMMA InHandIsMsg ==
  ASSUME QueueInv, NEW w \in Worker, Busy(w)
  PROVE  /\ InHand(w) \in Msg
         /\ Settle(w) => /\ batch' \in [Worker -> Seq(Msg)]
                         /\ \A v \in Worker \ {w} : batch'[v] = batch[v]
<1>1. batch[w] \in Seq(Msg) /\ batch[w] # <<>>
  BY DEF QueueInv, QueueTypeOK, Busy
<1>2. Head(batch[w]) \in Msg /\ Tail(batch[w]) \in Seq(Msg)
  BY <1>1, HeadTailProperties
<1> QED BY <1>2 DEF InHand, Settle, QueueInv, QueueTypeOK

\* The message in hand is acked, failed or left without an answer: only an Ack makes
\* it acked, and no other worker is concerned.
LEMMA AckKeeps ==
  ASSUME QueueInv, NEW w \in Worker, Ack(w)
  PROVE  /\ QueueInv'
         /\ \A v \in Worker \ {w} : batch'[v] = batch[v]
         /\ \A m \in Msg : state'[m] = IF m = InHand(w) THEN "acked" ELSE state[m]
<1>1. /\ InHand(w) \in Msg /\ batch' \in [Worker -> Seq(Msg)]
      /\ \A v \in Worker \ {w} : batch'[v] = batch[v]
  BY InHandIsMsg DEF Ack
<1>2. /\ state' \in [Msg -> MsgState]
      /\ \A m \in Msg : state'[m] = IF m = InHand(w) THEN "acked" ELSE state[m]
  BY <1>1 DEF Ack, QueueInv, QueueTypeOK, MsgState
<1>3. \A m \in Msg : Settled(m)
  BY <1>2 DEF Settled
<1>4. QueueInv'
  BY <1>1, <1>2, <1>3, SettlingKeeps DEF Ack
<1> QED BY <1>1, <1>2, <1>4

LEMMA NakKeeps ==
  ASSUME QueueInv, NEW w \in Worker, Nak(w) \/ Unanswered(w)
  PROVE  /\ QueueInv'
         /\ \A v \in Worker \ {w} : batch'[v] = batch[v]
         /\ \A m \in Msg : state'[m] = "acked" => state[m] = "acked"
<1>1. /\ InHand(w) \in Msg /\ batch' \in [Worker -> Seq(Msg)]
      /\ \A v \in Worker \ {w} : batch'[v] = batch[v]
  BY InHandIsMsg DEF Nak, Unanswered
<1>2. \A m \in Msg : AfterFailure(m) \in {"ready", "given_up"}
  BY DEF AfterFailure
<1>3. /\ state' \in [Msg -> MsgState]
      /\ \A m \in Msg : state'[m] = state[m] \/ state'[m] = AfterFailure(m)
      /\ UNCHANGED tries
  BY <1>1, <1>2 DEF Nak, Unanswered, QueueInv, QueueTypeOK, MsgState
<1>4. \A m \in Msg : Settled(m)
  BY <1>3 DEF Settled, AfterFailure
<1>5. QueueInv'
  BY <1>1, <1>3, <1>4, SettlingKeeps
<1> QED BY <1>1, <1>2, <1>3, <1>5

\* A process dies.
LEMMA DropKeeps ==
  ASSUME QueueInv, NEW W, DropBatches(W)
  PROVE  QueueInv'
<1>1. batch' \in [Worker -> Seq(Msg)] /\ UNCHANGED <<state, tries>>
  BY EmptySeq DEF DropBatches, QueueInv, QueueTypeOK
<1>2. \A m \in Msg : Settled(m)
  BY <1>1 DEF Settled
<1>3. state' \in [Msg -> MsgState]
  BY <1>1 DEF QueueInv, QueueTypeOK
<1> QED BY <1>1, <1>2, <1>3, SettlingKeeps

===============================================================================
