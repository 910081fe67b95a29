------------------------------ MODULE Metering ------------------------------
(***************************************************************************)
(* The usage-metering pipeline of the gateway (gateway/metering.go) and    *)
(* the shutdown of the process that hosts it (main in gateway/main.go).    *)
(*                                                                         *)
(* Request handlers hand one event each to a bounded channel, without ever *)
(* blocking; a single worker goroutine takes events off the channel and    *)
(* XADDs them to a Redis stream from which customers are billed; a third   *)
(* goroutine reports the two drop counters once a minute.  A signal, or a  *)
(* listener that fails, cancels the context they all watch; main then      *)
(* waits for the handlers (ten seconds at most), closes the Redis client   *)
(* and returns, which ends the process whatever the goroutines are doing.  *)
(*                                                                         *)
(* An event is named by the request it belongs to.                         *)
(***************************************************************************)
EXTENDS Integers, Sequences, FiniteSets, Functions

CONSTANTS
    Requests,        \* the requests that may reach the gateway
    QueueCapacity,   \* queueCapacity: slots of the channel
    XAddOutcomes,    \* what Redis may do with an XADD on a live client
    None             \* no event in the worker's hand

(* "ok": appended, and the client is told so.  "lost": not appended, error. *)
(* "unacked": appended, but the client gets an error (the reply is lost).   *)
(* "twice": the client library retried an unacked command, which succeeded. *)
Outcomes == {"ok", "lost", "unacked", "twice"}

ASSUME RequestsAssumption == IsFiniteSet(Requests) /\ None \notin Requests
ASSUME CapacityAssumption == QueueCapacity \in Nat \ {0}
ASSUME OutcomesAssumption == XAddOutcomes \subseteq Outcomes

VARIABLES
    main,        \* where main() is
    listening,   \* the HTTP listener accepts connections
    ctxDone,     \* the context of signal.NotifyContext is cancelled
    handler,     \* the handler goroutine of each request
    queue,       \* m.ch
    worker,      \* where Run is
    inHand,      \* the event taken off the channel and not yet published
    stream,      \* the Redis stream, in order
    queueDrops,  \* m.queueDrops
    xaddDrops,   \* m.xaddDrops
    refused,     \* events with a "metering queue full" line in the log
    failed,      \* events with a "metering xadd" line in the log
    stats,       \* where statsLoop is
    prev,        \* prevQueue and prevXadd of statsLoop
    alerted      \* sum of the deltas that statsLoop has logged, per counter

processVars == <<main, listening, ctxDone>>
workerVars  == <<worker, inHand, stream, xaddDrops, failed>>
emitVars    == <<handler, queueDrops, refused>>
statsVars   == <<stats, prev, alerted>>
vars == <<processVars, queue, workerVars, emitVars, statsVars>>

Counters == {"queue_full", "xadd_failed"}

Init ==
    /\ main = "serving"
    /\ listening = TRUE
    /\ ctxDone = FALSE
    /\ handler = [r \in Requests |-> "idle"]
    /\ queue = <<>>
    /\ worker = "select"
    /\ inHand = None
    /\ stream = <<>>
    /\ queueDrops = 0
    /\ xaddDrops = 0
    /\ refused = {}
    /\ failed = {}
    /\ stats = "wait"
    /\ prev = [c \in Counters |-> 0]
    /\ alerted = [c \in Counters |-> 0]

Alive == main # "exited"

-----------------------------------------------------------------------------
(* Request handlers.                                                        *)

(* A connection is accepted.  From here on the server counts it as active.  *)
Accept(r) ==
    /\ Alive /\ listening
    /\ handler[r] = "idle"
    /\ handler' = [handler EXCEPT ![r] = "running"]
    /\ UNCHANGED <<processVars, queue, workerVars, queueDrops, refused, statsVars>>

(* A middleware answers (429, 401, 503...): handleCheck never runs.         *)
TurnAway(r) ==
    /\ Alive
    /\ handler[r] = "running"
    /\ handler' = [handler EXCEPT ![r] = "turnedAway"]
    /\ UNCHANGED <<processVars, queue, workerVars, queueDrops, refused, statsVars>>

(* Variant of Emit: the channel never refuses.                              *)
EmitUnbounded(r) ==
    /\ Alive
    /\ handler[r] = "running"
    /\ handler' = [handler EXCEPT ![r] = "metered"]
    /\ queue' = Append(queue, r)
    /\ UNCHANGED <<processVars, workerVars, queueDrops, refused, statsVars>>

(* Emit, at the end of handleCheck: a non-blocking send.  The handler never *)
(* waits; a full channel drops the event and counts it.                     *)
Emit(r) ==
    /\ Alive
    /\ handler[r] = "running"
    /\ handler' = [handler EXCEPT ![r] = "metered"]
    /\ \/ /\ Len(queue) < QueueCapacity
          /\ queue' = Append(queue, r)
          /\ UNCHANGED <<queueDrops, refused>>
       \/ /\ Len(queue) = QueueCapacity
          /\ queueDrops' = queueDrops + 1
          /\ refused' = refused \cup {r}
          /\ UNCHANGED queue
    /\ UNCHANGED <<processVars, workerVars, statsVars>>

-----------------------------------------------------------------------------
(* The worker goroutine.                                                    *)

(* A receive from the channel, into the state the worker publishes in.      *)
Dequeue(from, to) ==
    /\ Alive
    /\ worker = from
    /\ queue # <<>>
    /\ inHand' = Head(queue)
    /\ queue' = Tail(queue)
    /\ worker' = to
    /\ UNCHANGED <<processVars, emitVars, stream, xaddDrops, failed, statsVars>>

(* Run's select may take the channel's case even when the context is done:  *)
(* Go chooses among ready cases at random.                                  *)
RunDequeue == Dequeue("select", "publish")

(* Run's select takes ctx.Done().                                           *)
RunDone ==
    /\ Alive
    /\ worker = "select"
    /\ ctxDone
    /\ worker' = "drain"
    /\ UNCHANGED <<processVars, queue, emitVars, inHand, stream, xaddDrops, failed, statsVars>>

(* What XADD may come to.  A command whose context is already cancelled is  *)
(* not sent (Run publishes under the cancelled context, drain under a fresh *)
(* one), and a command on a closed client fails, perhaps after it was sent. *)
XAdd ==
    XAddOutcomes
        \cup (IF ctxDone /\ worker = "publish" THEN {"lost"} ELSE {})
        \cup (IF main = "closed" THEN {"lost", "unacked"} ELSE {})

Appended(e, o) ==
    CASE o = "ok"      -> <<e>>
      [] o = "unacked" -> <<e>>
      [] o = "twice"   -> <<e, e>>
      [] o = "lost"    -> <<>>

(* Variant of Publish: an error is ignored.                                 *)
PublishUncounted(from, to) ==
    /\ Alive
    /\ worker = from
    /\ \E o \in XAdd : stream' = stream \o Appended(inHand, o)
    /\ worker' = to
    /\ inHand' = None
    /\ UNCHANGED <<processVars, queue, emitVars, xaddDrops, failed, statsVars>>

(* Variant of Publish: an event whose XADD fails goes back to the channel.  *)
PublishRequeue(from, to) ==
    /\ Alive
    /\ worker = from
    /\ \E o \in XAdd :
         /\ stream' = stream \o Appended(inHand, o)
         /\ \/ /\ o \in {"ok", "twice"}
               /\ UNCHANGED queue
            \/ /\ o \in {"lost", "unacked"}
               /\ queue' = Append(queue, inHand)
    /\ worker' = to
    /\ inHand' = None
    /\ UNCHANGED <<processVars, emitVars, xaddDrops, failed, statsVars>>

(* Variant of Publish: the first failed XADD ends the worker.               *)
PublishStops(from, to) ==
    /\ Alive
    /\ worker = from
    /\ \E o \in XAdd :
         /\ stream' = stream \o Appended(inHand, o)
         /\ \/ /\ o \in {"ok", "twice"}
               /\ worker' = to
               /\ UNCHANGED <<xaddDrops, failed>>
            \/ /\ o \in {"lost", "unacked"}
               /\ worker' = "returned"
               /\ xaddDrops' = xaddDrops + 1
               /\ failed' = failed \cup {inHand}
    /\ inHand' = None
    /\ UNCHANGED <<processVars, queue, emitVars, statsVars>>

(* publish: one XADD; an error is counted and logged, never retried here.   *)
Publish(from, to) ==
    /\ Alive
    /\ worker = from
    /\ \E o \in XAdd :
         /\ stream' = stream \o Appended(inHand, o)
         /\ \/ /\ o \in {"ok", "twice"}
               /\ UNCHANGED <<xaddDrops, failed>>
            \/ /\ o \in {"lost", "unacked"}
               /\ xaddDrops' = xaddDrops + 1
               /\ failed' = failed \cup {inHand}
    /\ worker' = to
    /\ inHand' = None
    /\ UNCHANGED <<processVars, queue, emitVars, statsVars>>

RunPublish == Publish("publish", "select")

(* drain: receive until the channel is found empty.                         *)
DrainDequeue == Dequeue("drain", "drainPublish")

DrainPublish == Publish("drainPublish", "drain")

(* Variant of DrainEmpty: what is still in the channel is thrown away.      *)
DrainDiscards ==
    /\ Alive
    /\ worker = "drain"
    /\ queue' = <<>>
    /\ worker' = "returned"
    /\ UNCHANGED <<processVars, emitVars, inHand, stream, xaddDrops, failed, statsVars>>

DrainEmpty ==
    /\ Alive
    /\ worker = "drain"
    /\ queue = <<>>
    /\ worker' = "returned"
    /\ UNCHANGED <<processVars, queue, emitVars, inHand, stream, xaddDrops, failed, statsVars>>

-----------------------------------------------------------------------------
(* The statsLoop goroutine.  A tick handles the two counters one after the  *)
(* other; drops may happen in between.                                      *)

(* Variant of Report: the total is logged, not the delta.                   *)
ReportTotal(c, total) ==
    /\ alerted' = [alerted EXCEPT ![c] = @ + total]
    /\ prev' = [prev EXCEPT ![c] = total]

(* Variant of Report: the two counters share one previous value.            *)
ReportShared(c, total) ==
    /\ alerted' = [alerted EXCEPT ![c] = IF total > prev[c] THEN @ + (total - prev[c]) ELSE @]
    /\ prev' = [d \in Counters |-> total]

(* Log the growth of a counter since the last tick, and remember its value. *)
Report(c, total) ==
    /\ alerted' = [alerted EXCEPT ![c] = IF total > prev[c] THEN @ + (total - prev[c]) ELSE @]
    /\ prev' = [prev EXCEPT ![c] = total]

StatsQueue ==
    /\ Alive
    /\ stats = "wait"
    /\ Report("queue_full", queueDrops)
    /\ stats' = "xadd"
    /\ UNCHANGED <<processVars, queue, workerVars, emitVars>>

StatsXadd ==
    /\ Alive
    /\ stats = "xadd"
    /\ Report("xadd_failed", xaddDrops)
    /\ stats' = "wait"
    /\ UNCHANGED <<processVars, queue, workerVars, emitVars>>

StatsDone ==
    /\ Alive
    /\ stats = "wait"
    /\ ctxDone
    /\ stats' = "returned"
    /\ UNCHANGED <<processVars, queue, workerVars, emitVars, prev, alerted>>

-----------------------------------------------------------------------------
(* main.                                                                    *)

(* SIGINT or SIGTERM.                                                       *)
Signal ==
    /\ Alive
    /\ ~ctxDone
    /\ ctxDone' = TRUE
    /\ UNCHANGED <<main, listening, queue, workerVars, emitVars, statsVars>>

(* ListenAndServe returns an error: the goroutine calls stop().             *)
ListenFails ==
    /\ Alive
    /\ listening
    /\ listening' = FALSE
    /\ ctxDone' = TRUE
    /\ UNCHANGED <<main, queue, workerVars, emitVars, statsVars>>

(* main passes <-ctx.Done() and enters srv.Shutdown, which closes the       *)
(* listener.                                                                *)
BeginShutdown ==
    /\ main = "serving"
    /\ ctxDone
    /\ main' = "shutdown"
    /\ listening' = FALSE
    /\ UNCHANGED <<ctxDone, queue, workerVars, emitVars, statsVars>>

(* Variant of ShutdownTimeout: srv.Shutdown is given no deadline.           *)
ShutdownNoTimeout == FALSE /\ UNCHANGED vars

(* srv.Shutdown gives up after ten seconds.                                 *)
ShutdownTimeout ==
    /\ main = "shutdown"
    /\ main' = "returning"
    /\ UNCHANGED <<listening, ctxDone, queue, workerVars, emitVars, statsVars>>

(* srv.Shutdown sees no active connection.                                  *)
ShutdownReturns ==
    /\ main = "shutdown"
    /\ \A r \in Requests : handler[r] # "running"
    /\ main' = "returning"
    /\ UNCHANGED <<listening, ctxDone, queue, workerVars, emitVars, statsVars>>

(* The deferred metering.Close().                                           *)
Close ==
    /\ main = "returning"
    /\ main' = "closed"
    /\ UNCHANGED <<listening, ctxDone, queue, workerVars, emitVars, statsVars>>

(* main returns: the process is gone, its goroutines with it.               *)
Exit ==
    /\ main = "closed"
    /\ main' = "exited"
    /\ UNCHANGED <<listening, ctxDone, queue, workerVars, emitVars, statsVars>>

(* Nothing happens in a process that has exited.                            *)
Terminated == main = "exited" /\ UNCHANGED vars

-----------------------------------------------------------------------------

Handlers == \E r \in Requests : Accept(r) \/ TurnAway(r) \/ Emit(r)

Run == RunDequeue \/ RunPublish \/ RunDone \/ DrainDequeue \/ DrainPublish \/ DrainEmpty

StatsLoop == StatsQueue \/ StatsXadd \/ StatsDone

MainStep == BeginShutdown \/ ShutdownReturns \/ ShutdownTimeout \/ Close \/ Exit

Next ==
    \/ Handlers
    \/ Run
    \/ StatsLoop
    \/ Signal
    \/ ListenFails
    \/ MainStep
    \/ Terminated

Spec == Init /\ [][Next]_vars

(* Goroutines that can run are scheduled, every XADD ends within its        *)
(* timeout, the ticker ticks and Shutdown's timer fires.  Nothing is        *)
(* assumed of clients, signals, or how long a handler takes.                *)
Fairness ==
    /\ WF_vars(Run)
    /\ WF_vars(StatsQueue)
    /\ WF_vars(StatsXadd)
    /\ WF_vars(MainStep)

FairSpec == Spec /\ Fairness

-----------------------------------------------------------------------------
(* Properties.                                                              *)

InWorker == IF inHand = None THEN {} ELSE {inHand}

(* Events that handlers have handed to Emit.                                *)
Metered == {r \in Requests : handler[r] = "metered"}

(* Shapes of the state.  The channel never holds more than its capacity.    *)
TypeOK ==
    /\ main \in {"serving", "shutdown", "returning", "closed", "exited"}
    /\ listening \in BOOLEAN
    /\ ctxDone \in BOOLEAN
    /\ handler \in [Requests -> {"idle", "running", "metered", "turnedAway"}]
    /\ queue \in Seq(Requests) /\ Len(queue) <= QueueCapacity
    /\ worker \in {"select", "publish", "drain", "drainPublish", "returned"}
    /\ inHand \in Requests \cup {None}
    /\ inHand # None <=> worker \in {"publish", "drainPublish"}
    /\ stream \in Seq(Requests)
    /\ queueDrops \in Nat
    /\ xaddDrops \in Nat
    /\ refused \subseteq Requests
    /\ failed \subseteq Requests
    /\ stats \in {"wait", "xadd", "returned"}
    /\ prev \in [Counters -> Nat]
    /\ alerted \in [Counters -> Nat]

(* Whatever the interleaving, while the process lives every event handed to *)
(* Emit is in the channel, in the worker's hand or in the stream, or has    *)
(* been logged as dropped; and nothing else is.  The drop counters number   *)
(* exactly the logged events, so "bills are being undercounted" can be read *)
(* off them.                                                                *)
AccountedFor ==
    /\ Metered = Range(queue) \cup InWorker \cup Range(stream) \cup refused \cup failed
    /\ queueDrops = Cardinality(refused)
    /\ xaddDrops = Cardinality(failed)

(* An event is in one place only: no event that is waiting, or is being     *)
(* published, has a stream entry or a drop line yet, none waits twice, and  *)
(* none that was refused at the channel reaches the stream.  Hence publish  *)
(* sends at most one XADD per request, and no request is billed twice but   *)
(* by the client library's own retry.                                       *)
SentAtMostOnce ==
    /\ \A i, j \in DOMAIN queue : queue[i] = queue[j] => i = j
    /\ Range(queue) \cap (InWorker \cup Range(stream) \cup refused \cup failed) = {}
    /\ InWorker \cap (Range(stream) \cup refused \cup failed) = {}
    /\ refused \cap (Range(stream) \cup failed) = {}

(* The pipeline keeps a usage ledger: seen from outside, each step of any   *)
(* goroutine records one new event, settles one pending event for good, or  *)
(* does nothing.  An event that Emit took on or refused, or that publish    *)
(* has disposed of, never becomes pending again and never changes its fate, *)
(* whatever Redis answers and wherever shutdown finds it.                   *)
Usage == INSTANCE UsageLedger WITH
    pending <- Range(queue) \cup InWorker,
    billed  <- Range(stream),
    dropped <- refused \cup failed

KeepsLedger == Usage!Spec

(* The deltas logged by statsLoop add up to the drops it has seen: a drop   *)
(* is never reported twice, whichever side of a tick it lands on.           *)
AlertsExact ==
    /\ alerted = prev
    /\ prev["queue_full"] <= queueDrops
    /\ prev["xadd_failed"] <= xaddDrops

(* Once the context is done the process ends, even if a handler never       *)
(* returns, Redis is stalled or the channel keeps filling.                  *)
ShutdownCompletes == ctxDone ~> (main = "exited")

(* An event that got into the channel leaves it, unless the process ends    *)
(* first, whatever becomes of its XADD.                                     *)
QueueDrains ==
    \A r \in Requests :
        (r \in Range(queue) \cup InWorker)
            ~> (r \notin Range(queue) \cup InWorker \/ main = "exited")

(* Every drop is reported by statsLoop, unless the process is told to stop. *)
DropsSurface ==
    \A n \in 1..Cardinality(Requests) :
        /\ (queueDrops >= n) ~> (alerted["queue_full"] >= n \/ ctxDone)
        /\ (xaddDrops >= n) ~> (alerted["xadd_failed"] >= n \/ ctxDone)

(* "Drains the queue on ctx done so a graceful shutdown doesn't lose the    *)
(* last few events" (metering.go): no accepted event is lost without trace  *)
(* when the process exits.  The code does not guarantee this, since main    *)
(* does not wait for the worker.                                            *)
GracefulShutdownKeepsEvents ==
    main = "exited" => queue = <<>> /\ inHand = None
=============================================================================
