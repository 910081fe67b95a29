--------------------------- MODULE MeteringProofs ---------------------------
(***************************************************************************)
(* Proofs about Metering, for any finite set of requests, any capacity of  *)
(* the channel and any behaviour of Redis.                                 *)
(***************************************************************************)
EXTENDS Metering, FiniteSetTheorems, SequenceTheorems, TLAPS

-----------------------------------------------------------------------------
(* Sequences, as the channel and the stream use them.                       *)

(* What a send to the channel adds.                                         *)
LEMMA RangeAppend ==
    ASSUME NEW S, NEW s \in Seq(S), NEW e \in S
    PROVE  Range(Append(s, e)) = Range(s) \cup {e}
<1>1. /\ Append(s, e) \in Seq(S)
      /\ DOMAIN Append(s, e) = 1..(Len(s) + 1)
      /\ \A i \in 1..Len(s) : Append(s, e)[i] = s[i]
      /\ Append(s, e)[Len(s) + 1] = e
  BY AppendProperties
<1>2. DOMAIN s = 1..Len(s) /\ Len(s) \in Nat
  BY LenProperties
<1>3. \A x : x \in Range(Append(s, e)) <=> x \in Range(s) \/ x = e
  BY <1>1, <1>2 DEF Range
<1> QED
  BY <1>3

(* What a receive from the channel takes away.                              *)
LEMMA RangeHeadTail ==
    ASSUME NEW S, NEW s \in Seq(S), s # <<>>
    PROVE  /\ Head(s) \in S
           /\ Tail(s) \in Seq(S)
           /\ Len(Tail(s)) = Len(s) - 1
           /\ DOMAIN Tail(s) = 1..(Len(s) - 1)
           /\ \A i \in 1..(Len(s) - 1) : Tail(s)[i] = s[i + 1]
           /\ Head(s) = s[1]
           /\ 1 \in DOMAIN s
           /\ Range(s) = {Head(s)} \cup Range(Tail(s))
<1>1. DOMAIN s = 1..Len(s) /\ Len(s) \in Nat /\ Len(s) # 0
  BY LenProperties, EmptySeq
<1>2. /\ Head(s) \in S
      /\ Tail(s) \in Seq(S)
      /\ Len(Tail(s)) = Len(s) - 1
      /\ \A i \in 1..Len(Tail(s)) : Tail(s)[i] = s[i + 1]
  BY HeadTailProperties
<1>3. Head(s) = s[1]
  BY <1>1
<1>4. DOMAIN Tail(s) = 1..(Len(s) - 1)
  BY <1>2, LenProperties
<1>5. ASSUME NEW x PROVE x \in Range(s) <=> x = Head(s) \/ x \in Range(Tail(s))
  <2>1. ASSUME x \in Range(s) PROVE x = Head(s) \/ x \in Range(Tail(s))
    <3>1. PICK i \in 1..Len(s) : x = s[i]
      BY <2>1, <1>1 DEF Range
    <3>2. CASE i = 1
      BY <3>1, <3>2, <1>3
    <3>3. CASE i # 1
      <4>1. i - 1 \in 1..(Len(s) - 1) /\ Tail(s)[i - 1] = s[i]
        BY <3>1, <3>3, <1>1, <1>2
      <4> QED
        BY <4>1, <3>1, <1>4 DEF Range
    <3> QED
      BY <3>2, <3>3
  <2>2. ASSUME x \in Range(Tail(s)) PROVE x \in Range(s)
    <3>1. PICK i \in 1..(Len(s) - 1) : x = Tail(s)[i]
      BY <2>2, <1>4 DEF Range
    <3>2. i + 1 \in 1..Len(s) /\ x = s[i + 1]
      BY <3>1, <1>1, <1>2
    <3> QED
      BY <3>2, <1>1 DEF Range
  <2>3. Head(s) \in Range(s)
    BY <1>1, <1>3 DEF Range
  <2> QED
    BY <2>1, <2>2, <2>3
<1> QED
  BY <1>1, <1>2, <1>3, <1>4, <1>5

LEMMA RangeOfOne ==
    ASSUME NEW S, NEW e \in S PROVE <<e>> \in Seq(S) /\ Range(<<e>>) = {e}
<1>1. <<e>> \in Seq(S)
  OBVIOUS
<1>2. DOMAIN <<e>> = {1} /\ <<e>>[1] = e
  OBVIOUS
<1>3. Range(<<e>>) = {e}
  BY <1>2, Zenon DEF Range
<1> QED
  BY <1>1, <1>3

LEMMA RangeOfPair ==
    ASSUME NEW S, NEW e \in S PROVE <<e, e>> \in Seq(S) /\ Range(<<e, e>>) = {e}
<1>1. <<e, e>> \in Seq(S)
  OBVIOUS
<1>2. DOMAIN <<e, e>> = {1, 2} /\ <<e, e>>[1] = e /\ <<e, e>>[2] = e
  OBVIOUS
<1>3. Range(<<e, e>>) = {e}
  BY <1>2, Zenon DEF Range
<1> QED
  BY <1>1, <1>3

(* What an XADD adds to the stream.                                         *)
LEMMA RangeAppended ==
    ASSUME NEW S, NEW s \in Seq(S), NEW e \in S, NEW o \in Outcomes
    PROVE  /\ s \o Appended(e, o) \in Seq(S)
           /\ Range(s \o Appended(e, o))
                = IF o = "lost" THEN Range(s) ELSE Range(s) \cup {e}
<1>1. CASE o = "lost"
  <2>1. Appended(e, o) = <<>>
    BY <1>1 DEF Appended
  <2>2. s \o <<>> = s
    BY ConcatEmptySeq
  <2> QED
    BY <2>1, <2>2, <1>1
<1>2. CASE o # "lost"
  <2>1. PICK t : t = Appended(e, o)
    OBVIOUS
  <2>2. t = <<e>> \/ t = <<e, e>>
    BY <1>2, <2>1 DEF Appended, Outcomes
  <2>3. t \in Seq(S) /\ Range(t) = {e}
    <3>1. <<e>> \in Seq(S) /\ Range(<<e>>) = {e}
      BY RangeOfOne
    <3>2. <<e, e>> \in Seq(S) /\ Range(<<e, e>>) = {e}
      BY RangeOfPair
    <3> QED
      BY <2>2, <3>1, <3>2, Zenon
  <2>4. s \o t \in Seq(S)
    BY <2>3, ConcatProperties
  <2>5. Range(s \o t) = Range(s) \cup Range(t)
    BY <2>3, RangeConcatenation
  <2> QED
    BY <1>2, <2>1, <2>3, <2>4, <2>5
<1> QED
  BY <1>1, <1>2

-----------------------------------------------------------------------------
(* Type correctness.                                                        *)

(* Every outcome of an XADD is one of the four.                             *)
LEMMA XAddType == ASSUME TypeOK PROVE XAdd \subseteq Outcomes
  BY OutcomesAssumption DEF XAdd, Outcomes

(* A receive keeps the types.                                               *)
LEMMA DequeueType ==
    ASSUME TypeOK, NEW from, NEW to, Dequeue(from, to),
           to \in {"publish", "drainPublish"}
    PROVE  TypeOK'
<1>1. /\ Head(queue) \in Requests
      /\ Tail(queue) \in Seq(Requests)
      /\ Len(Tail(queue)) = Len(queue) - 1
  BY RangeHeadTail DEF TypeOK, Dequeue
<1>2. Len(queue) \in Nat /\ QueueCapacity \in Nat
  BY LenProperties, CapacityAssumption DEF TypeOK
<1>3. Len(Tail(queue)) <= QueueCapacity
  BY <1>1, <1>2 DEF TypeOK
<1> QED
  BY <1>1, <1>3, RequestsAssumption
  DEF TypeOK, Dequeue, processVars, emitVars, statsVars

(* A publish keeps the types.                                               *)
LEMMA PublishType ==
    ASSUME TypeOK, NEW from, NEW to, Publish(from, to),
           from \in {"publish", "drainPublish"}, to \in {"select", "drain"}
    PROVE  TypeOK'
<1>1. inHand \in Requests
  BY DEF TypeOK, Publish
<1>2. stream' \in Seq(Requests)
  BY <1>1, XAddType, RangeAppended DEF TypeOK, Publish
<1>3. failed' \subseteq Requests /\ xaddDrops' \in Nat
  BY <1>1 DEF TypeOK, Publish
<1> QED
  BY <1>2, <1>3 DEF TypeOK, Publish, processVars, emitVars, statsVars

(* A send keeps the types, and the channel within its capacity.             *)
LEMMA EmitType ==
    ASSUME TypeOK, NEW r \in Requests, Emit(r)
    PROVE  TypeOK'
<1>1. Len(queue) \in Nat /\ QueueCapacity \in Nat
  BY LenProperties, CapacityAssumption DEF TypeOK
<1>2. queue' \in Seq(Requests) /\ Len(queue') <= QueueCapacity
  <2>1. Append(queue, r) \in Seq(Requests) /\ Len(Append(queue, r)) = Len(queue) + 1
    BY AppendProperties DEF TypeOK
  <2>2. CASE Len(queue) < QueueCapacity /\ queue' = Append(queue, r)
    <3>1. Len(queue) + 1 <= QueueCapacity
      BY <2>2, <1>1
    <3> QED
      BY <2>1, <2>2, <3>1
  <2>3. CASE UNCHANGED queue
    BY <2>3 DEF TypeOK
  <2> QED
    BY <2>2, <2>3 DEF Emit
<1>3. queueDrops' \in Nat /\ refused' \subseteq Requests
  BY DEF TypeOK, Emit
<1> QED
  BY <1>2, <1>3 DEF TypeOK, Emit, processVars, workerVars, statsVars

(* A report keeps the types.                                                *)
LEMMA ReportType ==
    ASSUME prev \in [Counters -> Nat], alerted \in [Counters -> Nat],
           NEW c \in Counters, NEW total \in Nat, Report(c, total)
    PROVE  prev' \in [Counters -> Nat] /\ alerted' \in [Counters -> Nat]
<1>1. prev[c] \in Nat /\ alerted[c] \in Nat
  OBVIOUS
<1>2. (IF total > prev[c] THEN alerted[c] + (total - prev[c]) ELSE alerted[c]) \in Nat
  BY <1>1
<1> QED
  BY <1>2 DEF Report

(* TypeOK is inductive by itself.                                           *)
LEMMA TypeStep ==
    ASSUME TypeOK, [Next]_vars
    PROVE  TypeOK'
<1>1. CASE UNCHANGED vars
  BY <1>1 DEF TypeOK, vars, processVars, workerVars, emitVars, statsVars
<1>2. CASE Handlers
  <2>1. PICK r \in Requests : Accept(r) \/ TurnAway(r) \/ Emit(r)
    BY <1>2 DEF Handlers
  <2>2. CASE Accept(r)
    BY <2>2 DEF TypeOK, Accept, processVars, workerVars, statsVars
  <2>3. CASE TurnAway(r)
    BY <2>3 DEF TypeOK, TurnAway, processVars, workerVars, statsVars
  <2>4. CASE Emit(r)
    BY <2>4, EmitType
  <2> QED
    BY <2>1, <2>2, <2>3, <2>4
<1>3. CASE Run
  <2>1. CASE RunDequeue \/ DrainDequeue
    BY <2>1, DequeueType DEF RunDequeue, DrainDequeue
  <2>2. CASE RunPublish \/ DrainPublish
    BY <2>2, PublishType DEF RunPublish, DrainPublish
  <2>3. CASE RunDone \/ DrainEmpty
    BY <2>3 DEF TypeOK, RunDone, DrainEmpty, processVars, emitVars, statsVars
  <2> QED
    BY <1>3, <2>1, <2>2, <2>3 DEF Run
<1>4. CASE StatsLoop
  <2>1. CASE StatsQueue
    BY <2>1, ReportType DEF TypeOK, StatsQueue, Counters, processVars, workerVars, emitVars
  <2>2. CASE StatsXadd
    BY <2>2, ReportType DEF TypeOK, StatsXadd, Counters, processVars, workerVars, emitVars
  <2>3. CASE StatsDone
    BY <2>3 DEF TypeOK, StatsDone, processVars, workerVars, emitVars
  <2> QED
    BY <1>4, <2>1, <2>2, <2>3 DEF StatsLoop
<1>5. CASE Signal \/ ListenFails
  BY <1>5 DEF TypeOK, Signal, ListenFails, workerVars, emitVars, statsVars
<1>6. CASE MainStep
  BY <1>6 DEF TypeOK, MainStep, BeginShutdown, ShutdownTimeout, ShutdownReturns, Close, Exit,
              workerVars, emitVars, statsVars
<1>7. CASE Terminated
  BY <1>7, <1>1 DEF Terminated
<1> QED
  BY <1>1, <1>2, <1>3, <1>4, <1>5, <1>6, <1>7 DEF Next

(* The initial state has its types.                                         *)
LEMMA InitType == ASSUME Init PROVE TypeOK
<1>1. queue \in Seq(Requests) /\ Len(queue) = 0 /\ stream \in Seq(Requests)
  BY EmptySeq DEF Init
<1>2. Len(queue) <= QueueCapacity
  BY <1>1, CapacityAssumption
<1>3. handler \in [Requests -> {"idle", "running", "metered", "turnedAway"}]
  BY DEF Init
<1>4. prev \in [Counters -> Nat] /\ alerted \in [Counters -> Nat]
  BY DEF Init
<1> QED
  BY <1>1, <1>2, <1>3, <1>4 DEF Init, TypeOK

(* The state keeps its shape, and the channel its bound, for every capacity *)
(* and every set of requests.                                               *)
THEOREM TypeCorrect == Spec => []TypeOK
<1>1. Init => TypeOK
  BY InitType
<1>2. TypeOK /\ [Next]_vars => TypeOK'
  BY TypeStep
<1> QED
  BY <1>1, <1>2, PTL DEF Spec

-----------------------------------------------------------------------------
(* The ledger of events: where each one is, and how often.  Neither part is *)
(* inductive alone: that a refused or failed event is new to its set, so    *)
(* that the counter grows with it, needs SentAtMostOnce; that the event of  *)
(* a running handler is nowhere yet needs AccountedFor.                     *)

Ledger == AccountedFor /\ SentAtMostOnce

(* The ledger depends on no other part of the state.                        *)
LEMMA LedgerFrame ==
    ASSUME Ledger, Metered' = Metered,
           UNCHANGED <<queue, inHand, stream, refused, failed, queueDrops, xaddDrops>>
    PROVE  Ledger'
  BY DEF Ledger, AccountedFor, SentAtMostOnce, InWorker

(* The drop sets are finite, so that they can be counted.                   *)
LEMMA MarksType ==
    ASSUME TypeOK
    PROVE  IsFiniteSet(refused) /\ IsFiniteSet(failed)
  BY RequestsAssumption, FS_Subset DEF TypeOK

(* A send enters its event in the channel or among the refused.             *)
LEMMA EmitLedger ==
    ASSUME TypeOK, Ledger, NEW r \in Requests, Emit(r)
    PROVE  Ledger'
<1>1. r \notin Metered /\ Metered' = Metered \cup {r}
  BY DEF TypeOK, Emit, Metered
<1>2. r \notin Range(queue) \cup InWorker \cup Range(stream) \cup refused \cup failed
  BY <1>1 DEF Ledger, AccountedFor
<1>3. UNCHANGED <<inHand, stream, failed, xaddDrops>> /\ InWorker' = InWorker
  BY DEF Emit, workerVars, InWorker
<1>4. CASE queue' = Append(queue, r) /\ UNCHANGED <<queueDrops, refused>>
  <2>1. Range(queue') = Range(queue) \cup {r}
    BY <1>4, RangeAppend DEF TypeOK
  <2>2. AccountedFor'
    BY <1>1, <1>3, <1>4, <2>1 DEF Ledger, AccountedFor
  <2>3. \A i, j \in DOMAIN queue' : queue'[i] = queue'[j] => i = j
    <3>1. /\ DOMAIN queue' = 1..(Len(queue) + 1)
          /\ \A i \in 1..Len(queue) : queue'[i] = queue[i]
          /\ queue'[Len(queue) + 1] = r
      BY <1>4, AppendProperties DEF TypeOK
    <3>2. DOMAIN queue = 1..Len(queue) /\ Len(queue) \in Nat
      BY LenProperties DEF TypeOK
    <3>3. \A i \in 1..Len(queue) : queue'[i] # r
      BY <3>1, <3>2, <1>2 DEF Range
    <3>4. \A i, j \in 1..Len(queue) : queue'[i] = queue'[j] => i = j
      BY <3>1, <3>2 DEF Ledger, SentAtMostOnce
    <3> QED
      BY <3>1, <3>2, <3>3, <3>4
  <2>4. SentAtMostOnce'
    BY <1>2, <1>3, <1>4, <2>1, <2>3 DEF Ledger, SentAtMostOnce
  <2> QED
    BY <2>2, <2>4 DEF Ledger
<1>5. CASE /\ queueDrops' = queueDrops + 1
           /\ refused' = refused \cup {r}
           /\ UNCHANGED queue
  <2>1. Cardinality(refused') = Cardinality(refused) + 1
    BY <1>2, <1>5, MarksType, FS_AddElement
  <2>2. AccountedFor'
    BY <1>1, <1>3, <1>5, <2>1 DEF Ledger, AccountedFor
  <2>3. SentAtMostOnce'
    BY <1>2, <1>3, <1>5 DEF Ledger, SentAtMostOnce
  <2> QED
    BY <2>2, <2>3 DEF Ledger
<1> QED
  BY <1>4, <1>5 DEF Emit

(* A receive moves an event from the channel to the worker's hand.          *)
LEMMA DequeueLedger ==
    ASSUME TypeOK, Ledger, NEW from, NEW to, Dequeue(from, to),
           from \in {"select", "drain"}
    PROVE  Ledger'
<1>1. inHand = None /\ InWorker = {}
  BY DEF TypeOK, Dequeue, InWorker
<1>2. /\ Head(queue) \in Requests
      /\ DOMAIN Tail(queue) = 1..(Len(queue) - 1)
      /\ \A i \in 1..(Len(queue) - 1) : Tail(queue)[i] = queue[i + 1]
      /\ Head(queue) = queue[1]
      /\ Range(queue) = {Head(queue)} \cup Range(Tail(queue))
  BY RangeHeadTail DEF TypeOK, Dequeue
<1>3. InWorker' = {Head(queue)}
  BY <1>2, RequestsAssumption DEF InWorker, Dequeue
<1>4. DOMAIN queue = 1..Len(queue) /\ Len(queue) \in Nat
  BY LenProperties DEF TypeOK
<1>5. Head(queue) \notin Range(Tail(queue))
  <2> SUFFICES ASSUME NEW i \in 1..(Len(queue) - 1), Tail(queue)[i] = Head(queue)
               PROVE  FALSE
    BY <1>2 DEF Range
  <2>1. i + 1 \in DOMAIN queue /\ 1 \in DOMAIN queue /\ queue[i + 1] = queue[1]
    BY <1>2, <1>4
  <2> QED
    BY <2>1 DEF Ledger, SentAtMostOnce
<1>6. \A i, j \in DOMAIN Tail(queue) : Tail(queue)[i] = Tail(queue)[j] => i = j
  <2> SUFFICES ASSUME NEW i \in 1..(Len(queue) - 1), NEW j \in 1..(Len(queue) - 1),
                      queue[i + 1] = queue[j + 1]
               PROVE  i = j
    BY <1>2
  <2>1. i + 1 \in DOMAIN queue /\ j + 1 \in DOMAIN queue
    BY <1>4
  <2>2. i + 1 = j + 1
    BY <2>1 DEF Ledger, SentAtMostOnce
  <2> QED
    BY <2>2
<1>7. /\ queue' = Tail(queue)
      /\ UNCHANGED <<stream, refused, failed, queueDrops, xaddDrops>>
      /\ Metered' = Metered
  BY DEF Dequeue, emitVars, Metered
<1>8. AccountedFor'
  BY <1>1, <1>2, <1>3, <1>7 DEF Ledger, AccountedFor
<1>9. SentAtMostOnce'
  BY <1>1, <1>2, <1>3, <1>5, <1>6, <1>7 DEF Ledger, SentAtMostOnce
<1> QED
  BY <1>8, <1>9 DEF Ledger

(* A publish moves the event in hand to the stream, the failed, or both.    *)
LEMMA PublishLedger ==
    ASSUME TypeOK, Ledger, NEW from, NEW to, Publish(from, to),
           from \in {"publish", "drainPublish"}
    PROVE  Ledger'
<1>1. inHand \in Requests /\ InWorker = {inHand}
  BY RequestsAssumption DEF TypeOK, Publish, InWorker
<1>2. InWorker' = {}
  BY DEF Publish, InWorker
<1>3. UNCHANGED <<queue, refused, queueDrops>> /\ Metered' = Metered
  BY DEF Publish, emitVars, Metered
<1>4. inHand \notin Range(queue) \cup Range(stream) \cup refused \cup failed
  BY <1>1 DEF Ledger, SentAtMostOnce
<1>5. PICK o \in XAdd :
         /\ stream' = stream \o Appended(inHand, o)
         /\ \/ /\ o \in {"ok", "twice"}
               /\ UNCHANGED <<xaddDrops, failed>>
            \/ /\ o \in {"lost", "unacked"}
               /\ xaddDrops' = xaddDrops + 1
               /\ failed' = failed \cup {inHand}
  BY DEF Publish
<1>6. Range(stream') = IF o = "lost" THEN Range(stream) ELSE Range(stream) \cup {inHand}
  BY <1>1, <1>5, XAddType, RangeAppended DEF TypeOK
<1>7. CASE o \in {"ok", "twice"} /\ UNCHANGED <<xaddDrops, failed>>
  <2>1. Range(stream') = Range(stream) \cup {inHand}
    BY <1>6, <1>7
  <2>2. AccountedFor'
    BY <1>1, <1>2, <1>3, <1>7, <2>1 DEF Ledger, AccountedFor
  <2>3. SentAtMostOnce'
    BY <1>1, <1>2, <1>3, <1>4, <1>7, <2>1 DEF Ledger, SentAtMostOnce
  <2> QED
    BY <2>2, <2>3 DEF Ledger
<1>8. CASE /\ o \in {"lost", "unacked"}
           /\ xaddDrops' = xaddDrops + 1
           /\ failed' = failed \cup {inHand}
  <2>1. Cardinality(failed') = Cardinality(failed) + 1
    BY <1>4, <1>8, MarksType, FS_AddElement
  <2>2. /\ Range(stream) \subseteq Range(stream')
        /\ Range(stream') \subseteq Range(stream) \cup {inHand}
    BY <1>6
  <2>3. AccountedFor'
    BY <1>1, <1>2, <1>3, <1>8, <2>1, <2>2 DEF Ledger, AccountedFor
  <2>4. SentAtMostOnce'
    BY <1>1, <1>2, <1>3, <1>4, <1>8, <2>2 DEF Ledger, SentAtMostOnce
  <2> QED
    BY <2>3, <2>4 DEF Ledger
<1> QED
  BY <1>5, <1>7, <1>8

(* Every step keeps the ledger.                                             *)
LEMMA LedgerStep ==
    ASSUME TypeOK, Ledger, [Next]_vars
    PROVE  Ledger'
<1>1. CASE UNCHANGED vars
  BY <1>1, LedgerFrame DEF Metered, vars, workerVars, emitVars
<1>2. CASE Handlers
  <2>1. PICK r \in Requests : Accept(r) \/ TurnAway(r) \/ Emit(r)
    BY <1>2 DEF Handlers
  <2>2. CASE Accept(r)
    <3>1. Metered' = Metered
      BY <2>2 DEF TypeOK, Accept, Metered
    <3> QED
      BY <2>2, <3>1, LedgerFrame DEF Accept, workerVars
  <2>3. CASE TurnAway(r)
    <3>1. Metered' = Metered
      BY <2>3 DEF TypeOK, TurnAway, Metered
    <3> QED
      BY <2>3, <3>1, LedgerFrame DEF TurnAway, workerVars
  <2>4. CASE Emit(r)
    BY <2>4, EmitLedger
  <2> QED
    BY <2>1, <2>2, <2>3, <2>4
<1>3. CASE Run
  <2>1. CASE RunDequeue \/ DrainDequeue
    BY <2>1, DequeueLedger DEF RunDequeue, DrainDequeue
  <2>2. CASE RunPublish \/ DrainPublish
    BY <2>2, PublishLedger DEF RunPublish, DrainPublish
  <2>3. CASE RunDone \/ DrainEmpty
    BY <2>3, LedgerFrame DEF RunDone, DrainEmpty, emitVars, Metered
  <2> QED
    BY <1>3, <2>1, <2>2, <2>3 DEF Run
<1>4. CASE StatsLoop
  BY <1>4, LedgerFrame
  DEF StatsLoop, StatsQueue, StatsXadd, StatsDone, workerVars, emitVars, Metered
<1>5. CASE Signal \/ ListenFails
  BY <1>5, LedgerFrame DEF Signal, ListenFails, workerVars, emitVars, Metered
<1>6. CASE MainStep
  BY <1>6, LedgerFrame
  DEF MainStep, BeginShutdown, ShutdownTimeout, ShutdownReturns, Close, Exit,
      workerVars, emitVars, Metered
<1>7. CASE Terminated
  BY <1>7, <1>1 DEF Terminated
<1> QED
  BY <1>1, <1>2, <1>3, <1>4, <1>5, <1>6, <1>7 DEF Next

(* The ledger starts empty.                                                 *)
LEMMA InitLedger == ASSUME Init PROVE Ledger
<1>1. Metered = {}
  BY DEF Init, Metered
<1>2. Range(queue) = {} /\ Range(stream) = {} /\ DOMAIN queue = {}
  BY DEF Init, Range
<1>3. InWorker = {} /\ Cardinality({}) = 0
  BY FS_EmptySet DEF Init, InWorker
<1> QED
  BY <1>1, <1>2, <1>3 DEF Init, Ledger, AccountedFor, SentAtMostOnce

(* Together with the types, the ledger is an inductive invariant.           *)
THEOREM LedgerHolds == Spec => [](TypeOK /\ Ledger)
<1>1. Init => TypeOK /\ Ledger
  BY InitType, InitLedger
<1>2. TypeOK /\ Ledger /\ [Next]_vars => (TypeOK /\ Ledger)'
  BY TypeStep, LedgerStep
<1> QED
  BY <1>1, <1>2, PTL DEF Spec

(* No event handed to Emit ever goes missing unlogged while the process     *)
(* lives, and both drop counters are exact.                                 *)
THEOREM NothingMissing == Spec => []AccountedFor
<1>1. Ledger => AccountedFor
  BY DEF Ledger
<1> QED
  BY <1>1, LedgerHolds, PTL

(* The worker publishes no event twice.                                     *)
THEOREM NothingTwice == Spec => []SentAtMostOnce
<1>1. Ledger => SentAtMostOnce
  BY DEF Ledger
<1> QED
  BY <1>1, LedgerHolds, PTL

-----------------------------------------------------------------------------
(* The refinement: Metering implements UsageLedger.                         *)

(* The three sets of the usage ledger, as Metering keeps them.              *)
PendingEvents == Range(queue) \cup InWorker
DroppedEvents == refused \cup failed
Entries == <<PendingEvents, Range(stream), DroppedEvents>>

(* A send records its event, as pending or as dropped.                      *)
LEMMA EmitRecords ==
    ASSUME TypeOK, Ledger, NEW r \in Requests, Emit(r)
    PROVE  Usage!Record(r)
<1>1. r \notin Metered
  BY DEF Emit, Metered
<1>2. r \notin PendingEvents \cup Range(stream) \cup DroppedEvents
  BY <1>1 DEF Ledger, AccountedFor, PendingEvents, DroppedEvents
<1>3. stream' = stream /\ failed' = failed /\ InWorker' = InWorker
  BY DEF Emit, workerVars, InWorker
<1>4. CASE queue' = Append(queue, r) /\ UNCHANGED refused
  <2>1. Range(queue') = Range(queue) \cup {r}
    BY <1>4, RangeAppend DEF TypeOK
  <2> QED
    BY <1>2, <1>3, <1>4, <2>1 DEF Usage!Record, PendingEvents, DroppedEvents
<1>5. CASE refused' = refused \cup {r} /\ UNCHANGED queue
  BY <1>2, <1>3, <1>5 DEF Usage!Record, PendingEvents, DroppedEvents
<1> QED
  BY <1>4, <1>5 DEF Emit

(* A receive is invisible: the event was pending and stays so.              *)
LEMMA DequeueStutters ==
    ASSUME TypeOK, NEW from, NEW to, Dequeue(from, to), from \in {"select", "drain"}
    PROVE  UNCHANGED Entries
<1>1. InWorker = {}
  BY DEF TypeOK, Dequeue, InWorker
<1>2. /\ Head(queue) \in Requests
      /\ Range(queue) = {Head(queue)} \cup Range(Tail(queue))
  BY RangeHeadTail DEF TypeOK, Dequeue
<1>3. InWorker' = {Head(queue)}
  BY <1>2, RequestsAssumption DEF InWorker, Dequeue
<1>4. queue' = Tail(queue) /\ UNCHANGED <<stream, refused, failed>>
  BY DEF Dequeue, emitVars
<1> QED
  BY <1>1, <1>2, <1>3, <1>4 DEF Entries, PendingEvents, DroppedEvents

(* A publish settles the event in hand.                                     *)
LEMMA PublishSettles ==
    ASSUME TypeOK, Ledger, NEW from, NEW to, Publish(from, to),
           from \in {"publish", "drainPublish"}
    PROVE  Usage!Settle(inHand) /\ inHand \in Requests
<1>1. inHand \in Requests /\ InWorker = {inHand}
  BY RequestsAssumption DEF TypeOK, Publish, InWorker
<1>2. InWorker' = {} /\ UNCHANGED <<queue, refused>>
  BY DEF Publish, emitVars, InWorker
<1>3. inHand \notin Range(queue)
  BY <1>1 DEF Ledger, SentAtMostOnce
<1>4. PendingEvents' = PendingEvents \ {inHand} /\ inHand \in PendingEvents
  BY <1>1, <1>2, <1>3 DEF PendingEvents
<1>5. PICK o \in XAdd :
         /\ stream' = stream \o Appended(inHand, o)
         /\ \/ o \in {"ok", "twice"} /\ UNCHANGED failed
            \/ o \in {"lost", "unacked"} /\ failed' = failed \cup {inHand}
  BY DEF Publish
<1>6. Range(stream') = IF o = "lost" THEN Range(stream) ELSE Range(stream) \cup {inHand}
  BY <1>1, <1>5, XAddType, RangeAppended DEF TypeOK
<1>7. CASE o \in {"ok", "twice"} /\ UNCHANGED failed
  <2>1. Range(stream') = Range(stream) \cup {inHand} /\ UNCHANGED DroppedEvents
    BY <1>2, <1>6, <1>7 DEF DroppedEvents
  <2> QED
    BY <1>1, <1>4, <2>1 DEF Usage!Settle, PendingEvents, DroppedEvents
<1>8. CASE o \in {"lost", "unacked"} /\ failed' = failed \cup {inHand}
  <2>1. DroppedEvents' = DroppedEvents \cup {inHand}
    BY <1>2, <1>8 DEF DroppedEvents
  <2>2. \/ Range(stream') = Range(stream)
        \/ Range(stream') = Range(stream) \cup {inHand}
    BY <1>6
  <2> QED
    BY <1>1, <1>4, <2>1, <2>2 DEF Usage!Settle, PendingEvents, DroppedEvents
<1> QED
  BY <1>5, <1>7, <1>8

(* Every step is a step of the usage ledger, or leaves it alone.            *)
LEMMA StepRefines ==
    ASSUME TypeOK, Ledger, [Next]_vars
    PROVE  [Usage!Next]_Entries
<1>1. CASE UNCHANGED <<queue, inHand, stream, refused, failed>>
  BY <1>1 DEF Entries, PendingEvents, DroppedEvents, InWorker
<1>2. CASE Handlers
  <2>1. PICK r \in Requests : Accept(r) \/ TurnAway(r) \/ Emit(r)
    BY <1>2 DEF Handlers
  <2>2. CASE Accept(r) \/ TurnAway(r)
    BY <2>2, <1>1 DEF Accept, TurnAway, workerVars
  <2>3. CASE Emit(r)
    BY <2>3, EmitRecords DEF Usage!Next
  <2> QED
    BY <2>1, <2>2, <2>3
<1>3. CASE Run
  <2>1. CASE RunDequeue \/ DrainDequeue
    BY <2>1, DequeueStutters DEF RunDequeue, DrainDequeue
  <2>2. CASE RunPublish \/ DrainPublish
    BY <2>2, PublishSettles DEF RunPublish, DrainPublish, Usage!Next
  <2>3. CASE RunDone \/ DrainEmpty
    BY <2>3, <1>1 DEF RunDone, DrainEmpty, emitVars
  <2> QED
    BY <1>3, <2>1, <2>2, <2>3 DEF Run
<1>4. CASE StatsLoop
  BY <1>4, <1>1 DEF StatsLoop, StatsQueue, StatsXadd, StatsDone, workerVars, emitVars
<1>5. CASE Signal \/ ListenFails \/ MainStep
  BY <1>5, <1>1 DEF Signal, ListenFails, MainStep, BeginShutdown, ShutdownTimeout,
                   ShutdownReturns, Close, Exit, workerVars, emitVars
<1>6. CASE Terminated \/ UNCHANGED vars
  BY <1>6, <1>1 DEF Terminated, vars, workerVars, emitVars
<1> QED
  BY <1>2, <1>3, <1>4, <1>5, <1>6 DEF Next

(* The detailed pipeline implements the usage ledger: for any number of     *)
(* requests and any capacity, an event handed to Emit is recorded once and  *)
(* settled at most once, for good.                                          *)
THEOREM LedgerImplemented == Spec => KeepsLedger
<1>1. Init => Usage!Init
  BY DEF Init, Usage!Init, Range, InWorker
<1>2. TypeOK /\ Ledger /\ [Next]_vars => [Usage!Next]_Usage!ledger
  BY StepRefines DEF Entries, PendingEvents, DroppedEvents, Usage!ledger
<1> QED
  BY <1>1, <1>2, LedgerHolds, PTL DEF Spec, KeepsLedger, Usage!Spec

-----------------------------------------------------------------------------
(* The alerts of statsLoop.                                                 *)

(* A report brings the alerts of one counter up to date.                    *)
LEMMA ReportExact ==
    ASSUME prev \in [Counters -> Nat], alerted = prev,
           NEW c \in Counters, NEW total \in Nat, prev[c] <= total, Report(c, total)
    PROVE  /\ alerted' = prev'
           /\ prev'[c] = total
           /\ \A d \in Counters \ {c} : prev'[d] = prev[d]
<1>1. prev[c] \in Nat
  OBVIOUS
<1>2. (IF total > prev[c] THEN prev[c] + (total - prev[c]) ELSE prev[c]) = total
  BY <1>1
<1>3. alerted' = [prev EXCEPT ![c] = total]
  BY <1>2 DEF Report
<1> QED
  BY <1>3 DEF Report

(* Every step keeps the alerts exact.                                       *)
LEMMA AlertsStep ==
    ASSUME TypeOK, AlertsExact, [Next]_vars
    PROVE  AlertsExact'
<1>1. CASE UNCHANGED statsVars /\ queueDrops' >= queueDrops /\ xaddDrops' >= xaddDrops
  <2>1. /\ prev["queue_full"] \in Nat /\ prev["xadd_failed"] \in Nat
        /\ queueDrops \in Nat /\ xaddDrops \in Nat
    BY DEF TypeOK, Counters
  <2>2. queueDrops' \in Nat /\ xaddDrops' \in Nat
    BY TypeStep DEF TypeOK
  <2>3. prev["queue_full"] <= queueDrops' /\ prev["xadd_failed"] <= xaddDrops'
    BY <1>1, <2>1, <2>2 DEF AlertsExact
  <2> QED
    BY <1>1, <2>3 DEF AlertsExact, statsVars
<1>2. CASE StatsLoop
  <2>1. CASE StatsQueue
    <3>1. UNCHANGED <<queueDrops, xaddDrops>>
      BY <2>1 DEF StatsQueue, workerVars, emitVars
    <3>2. /\ alerted' = prev'
          /\ prev'["queue_full"] = queueDrops
          /\ prev'["xadd_failed"] = prev["xadd_failed"]
      BY <2>1, ReportExact DEF TypeOK, AlertsExact, StatsQueue, Counters
    <3> QED
      BY <3>1, <3>2 DEF TypeOK, AlertsExact
  <2>2. CASE StatsXadd
    <3>1. UNCHANGED <<queueDrops, xaddDrops>>
      BY <2>2 DEF StatsXadd, workerVars, emitVars
    <3>2. /\ alerted' = prev'
          /\ prev'["xadd_failed"] = xaddDrops
          /\ prev'["queue_full"] = prev["queue_full"]
      BY <2>2, ReportExact DEF TypeOK, AlertsExact, StatsXadd, Counters
    <3> QED
      BY <3>1, <3>2 DEF TypeOK, AlertsExact
  <2>3. CASE StatsDone
    BY <2>3 DEF AlertsExact, StatsDone, workerVars, emitVars
  <2> QED
    BY <1>2, <2>1, <2>2, <2>3 DEF StatsLoop
<1>3. CASE Handlers
  <2>1. UNCHANGED <<statsVars, xaddDrops>> /\ queueDrops' \in {queueDrops, queueDrops + 1}
    BY <1>3 DEF Handlers, Accept, TurnAway, Emit, workerVars
  <2> QED
    BY <2>1, <1>1 DEF TypeOK
<1>4. CASE Run
  <2>1. UNCHANGED <<statsVars, queueDrops>> /\ xaddDrops' \in {xaddDrops, xaddDrops + 1}
    BY <1>4 DEF Run, RunDequeue, DrainDequeue, Dequeue, RunPublish, DrainPublish, Publish,
                RunDone, DrainEmpty, emitVars
  <2> QED
    BY <2>1, <1>1 DEF TypeOK
<1>5. CASE Signal \/ ListenFails \/ MainStep \/ Terminated \/ UNCHANGED vars
  <2>1. UNCHANGED <<statsVars, queueDrops, xaddDrops>>
    BY <1>5 DEF Signal, ListenFails, MainStep, BeginShutdown, ShutdownTimeout, ShutdownReturns,
                Close, Exit, Terminated, vars, workerVars, emitVars
  <2> QED
    BY <2>1, <1>1 DEF TypeOK
<1> QED
  BY <1>2, <1>3, <1>4, <1>5 DEF Next

(* The deltas that statsLoop logs add up to the drops it has seen.          *)
THEOREM AlertsAreExact == Spec => []AlertsExact
<1>1. Init => AlertsExact
  BY DEF Init, AlertsExact, Counters
<1>2. TypeOK /\ AlertsExact /\ [Next]_vars => AlertsExact'
  BY AlertsStep
<1> QED
  BY <1>1, <1>2, TypeCorrect, PTL DEF Spec

=============================================================================
