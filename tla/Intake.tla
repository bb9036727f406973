------------------------------- MODULE Intake -------------------------------
(***************************************************************************)
(* Report intake: the SQS listener with its waiting goroutines and the     *)
(* HTTP handlers, all clients of the scheduler, which is represented by    *)
(* the service it implements (EventService).                               *)
(*                                                                         *)
(* The queue is external: it hides a received message for the visibility   *)
(* timeout, delivers it again when that has passed, and forgets it when it *)
(* is deleted.  A delivery <<m, r>> is the r-th receipt of message m; each *)
(* is one event for the scheduler, and so is each HTTP request.            *)
(***************************************************************************)
EXTENDS Naturals, Sequences, FiniteSets

CONSTANTS
  Messages,     \* the SQS messages that may be published
  Requests,     \* the uploads that may be posted
  None,         \* "no event"
  BatchSize,    \* MaxNumberOfMessages of one ReceiveMessage (10 in the code)
  MaxReceives,  \* bound: receipts of one message
  MaxRestarts   \* bound: restarts of the process

Deliveries == Messages \X (1..MaxReceives)
BusEvents == Deliveries \union Requests

ASSUME IntakeAssumption ==
  /\ None \notin BusEvents
  /\ Requests \intersect Deliveries = {}
  /\ BatchSize \in Nat
  /\ MaxReceives \in Nat
  /\ MaxRestarts \in Nat

VARIABLES
  \* the scheduler and its bus
  sendq, sched, cur, outcome, made, cut, ctxDone,
  \* the queue
  msg,       \* msg[m]: unsent, visible, inflight or deleted
  receipts,  \* receipts[m]: number of receipts handed out
  \* the listener and its goroutines
  listener,  \* where the loop of Start is
  batch,     \* received deliveries it has not parsed yet
  sending,   \* the delivery it is handing to the scheduler
  waiters,   \* deliveries with a goroutine waiting for the answer
  \* the HTTP server
  serving,   \* it accepts connections
  http,      \* http[q]: idle, sending, ok, refused or lost
  restarts

Bus == INSTANCE EventService WITH Events <- BusEvents

busVars == <<sendq, sched, cur, outcome, made, cut, ctxDone>>
queueVars == <<msg, receipts>>
listenerVars == <<listener, batch, sending, waiters>>
httpVars == <<serving, http>>
intakeVars == <<queueVars, listenerVars, httpVars, restarts>>
vars == <<busVars, intakeVars>>

Visible == {m \in Messages : msg[m] = "visible" /\ receipts[m] < MaxReceives}

OnBus(e) == \E i \in 1..Len(sendq) : sendq[i] = e

\* Variant: the bus is a buffered channel and Enqueue returns at once.
ReturnsAtOnce(e) == TRUE

\* Enqueue blocks until the scheduler receives.
EnqueueReturns(e) == ~OnBus(e)

\* Variant: DeleteMessage is called with a context of its own.
Detached == TRUE

\* SQS calls use the manager's context, as the scheduler's API calls do.
Connected == ~ctxDone

\* Variant: the goroutine does not look at the value it received.
Answered(d) == outcome[d] # "none"

Accepted(d) == outcome[d] = "nil"

-----------------------------------------------------------------------------
Init ==
  /\ Bus!Init
  /\ msg = [m \in Messages |-> "unsent"]
  /\ receipts = [m \in Messages |-> 0]
  /\ listener = "select"
  /\ batch = {}
  /\ sending = None
  /\ waiters = {}
  /\ serving = TRUE
  /\ http = [q \in Requests |-> "idle"]
  /\ restarts = 0

\* The queue.
Publish(m) ==
  /\ msg[m] = "unsent"
  /\ msg' = [msg EXCEPT ![m] = "visible"]
  /\ UNCHANGED <<busVars, receipts, listenerVars, httpVars, restarts>>

\* The visibility timeout is one minute; nothing in the code extends it.
VisibilityExpires(m) ==
  /\ msg[m] = "inflight"
  /\ msg' = [msg EXCEPT ![m] = "visible"]
  /\ UNCHANGED <<busVars, receipts, listenerVars, httpVars, restarts>>

HandOut(S) ==
  /\ msg' = [m \in Messages |-> IF m \in S THEN "inflight" ELSE msg[m]]
  /\ receipts' = [m \in Messages |-> IF m \in S THEN receipts[m] + 1 ELSE receipts[m]]

-----------------------------------------------------------------------------
\* The listener looks at the context only between two batches.
Poll ==
  /\ listener = "select"
  /\ ~ctxDone
  /\ listener' = "receive"
  /\ UNCHANGED <<busVars, queueVars, batch, sending, waiters, httpVars, restarts>>

ListenerStop ==
  /\ listener = "select"
  /\ ctxDone
  /\ listener' = "stopped"
  /\ UNCHANGED <<busVars, queueVars, batch, sending, waiters, httpVars, restarts>>

ReceiveNothing ==
  /\ listener = "receive"
  /\ Connected
  /\ listener' = "select"
  /\ UNCHANGED <<busVars, queueVars, batch, sending, waiters, httpVars, restarts>>

Receive(S) ==
  /\ listener = "receive"
  /\ Connected
  /\ S # {} /\ Cardinality(S) <= BatchSize
  /\ HandOut(S)
  /\ batch' = {<<m, receipts'[m]>> : m \in S}
  /\ listener' = "batch"
  /\ UNCHANGED <<busVars, sending, waiters, httpVars, restarts>>

\* ReceiveMessage fails, possibly after the queue handed out messages.
ReceiveFails(S) ==
  /\ listener = "receive"
  /\ Cardinality(S) <= BatchSize
  /\ HandOut(S)
  /\ listener' = "backoff"
  /\ UNCHANGED <<busVars, batch, sending, waiters, httpVars, restarts>>

BackoffEnds ==
  /\ listener = "backoff"
  /\ listener' = "select"
  /\ UNCHANGED <<busVars, queueVars, batch, sending, waiters, httpVars, restarts>>

\* The parser fails, on a wrong body or as soon as one object of an S3
\* notification cannot be read or decoded: the reports of the others are
\* dropped, and the message is left to its visibility timeout.
ParseFails(d) ==
  /\ listener = "batch" /\ sending = None
  /\ d \in batch
  /\ batch' = batch \ {d}
  /\ UNCHANGED <<busVars, queueVars, listener, sending, waiters, httpVars, restarts>>

\* The reports of the delivery go on the bus and the listener blocks.
Parse(d) ==
  /\ listener = "batch" /\ sending = None
  /\ d \in batch
  /\ batch' = batch \ {d}
  /\ sending' = d
  /\ Bus!Enqueue(d)
  /\ UNCHANGED <<queueVars, listener, waiters, httpVars, restarts>>

\* Enqueue returned: a goroutine waits for the answer.
Enqueued ==
  /\ sending # None
  /\ EnqueueReturns(sending)
  /\ waiters' = waiters \union {sending}
  /\ sending' = None
  /\ UNCHANGED <<busVars, queueVars, listener, batch, httpVars, restarts>>

\* Variant: the loop of Start goes on while the last message is handed over.
BatchParsed ==
  /\ listener = "batch"
  /\ batch = {}
  /\ listener' = "select"
  /\ UNCHANGED <<busVars, queueVars, batch, sending, waiters, httpVars, restarts>>

BatchEnds ==
  /\ listener = "batch" /\ sending = None
  /\ batch = {}
  /\ listener' = "select"
  /\ UNCHANGED <<busVars, queueVars, batch, sending, waiters, httpVars, restarts>>

-----------------------------------------------------------------------------
\* A goroutine got an error: the message is left on the queue.
KeepMessage(d) ==
  /\ d \in waiters
  /\ outcome[d] = "error"
  /\ waiters' = waiters \ {d}
  /\ UNCHANGED <<busVars, queueVars, listener, batch, sending, httpVars, restarts>>

\* It got nil, and DeleteMessage succeeds: the queue may ignore an old receipt.
DeleteMessage(d) ==
  /\ d \in waiters
  /\ Accepted(d)
  /\ Connected
  /\ waiters' = waiters \ {d}
  /\ \/ msg' = [msg EXCEPT ![d[1]] = "deleted"]
     \/ /\ msg[d[1]] # "inflight" \/ receipts[d[1]] # d[2]
        /\ msg' = msg
  /\ UNCHANGED <<busVars, receipts, listener, batch, sending, httpVars, restarts>>

\* It got nil, and DeleteMessage fails, as it always does once the context it
\* shares with the scheduler is cancelled.
DeleteFails(d) ==
  /\ d \in waiters
  /\ Accepted(d)
  /\ waiters' = waiters \ {d}
  /\ UNCHANGED <<busVars, queueVars, listener, batch, sending, httpVars, restarts>>

Settle(d) == KeepMessage(d) \/ DeleteMessage(d) \/ DeleteFails(d)

-----------------------------------------------------------------------------
\* An upload that fails authentication, authorization or BindJSON.
Refuse(q) ==
  /\ serving
  /\ http[q] = "idle"
  /\ http' = [http EXCEPT ![q] = "refused"]
  /\ UNCHANGED <<busVars, queueVars, listenerVars, serving, restarts>>

\* The handler puts the reports on the bus and blocks.
Upload(q) ==
  /\ serving
  /\ http[q] = "idle"
  /\ http' = [http EXCEPT ![q] = "sending"]
  /\ Bus!Enqueue(q)
  /\ UNCHANGED <<queueVars, listenerVars, serving, restarts>>

\* Variant: the handler waits for a successful answer.
ReplyWhenProcessed(q) ==
  /\ http[q] = "sending"
  /\ outcome[q] = "nil"
  /\ http' = [http EXCEPT ![q] = IF serving THEN "ok" ELSE "lost"]
  /\ UNCHANGED <<busVars, queueVars, listenerVars, serving, restarts>>

\* Enqueue returned: the result channel is dropped and the reply is 200, if
\* the connection is still open.
Reply(q) ==
  /\ http[q] = "sending"
  /\ EnqueueReturns(q)
  /\ http' = [http EXCEPT ![q] = IF serving THEN "ok" ELSE "lost"]
  /\ UNCHANGED <<busVars, queueVars, listenerVars, serving, restarts>>

\* srv.Close drops the connections; it does not wait for the handlers.
CloseServer ==
  /\ serving
  /\ ctxDone
  /\ serving' = FALSE
  /\ UNCHANGED <<busVars, queueVars, listenerVars, http, restarts>>

\* The server cannot listen, or no longer: that is only logged, and the
\* manager goes on without it.
ListenFails ==
  /\ serving
  /\ \A q \in Requests : http[q] # "sending"
  /\ serving' = FALSE
  /\ UNCHANGED <<busVars, queueVars, listenerVars, http, restarts>>

-----------------------------------------------------------------------------
ServeBus == Bus!Serve /\ UNCHANGED intakeVars

Cancel == Bus!Cancel /\ UNCHANGED intakeVars

\* The process dies at any point, or exits after the shutdown, and starts
\* again: what it held is gone, the queue and the cluster stay.
Restart ==
  /\ restarts < MaxRestarts
  /\ restarts' = restarts + 1
  /\ sendq' = <<>>
  /\ sched' = "select"
  /\ cur' = None
  /\ ctxDone' = FALSE
  /\ listener' = "select"
  /\ batch' = {}
  /\ sending' = None
  /\ waiters' = {}
  /\ serving' = TRUE
  /\ http' = [q \in Requests |-> IF http[q] = "sending" THEN "lost" ELSE http[q]]
  /\ UNCHANGED <<outcome, made, cut, queueVars>>

\* One step of the goroutine running the listener's Start.
Listen ==
  \/ Poll
  \/ ListenerStop
  \/ ReceiveNothing
  \/ \E S \in SUBSET Visible : Receive(S)
  \/ \E S \in SUBSET Visible : ReceiveFails(S)
  \/ BackoffEnds
  \/ \E d \in batch : ParseFails(d)
  \/ \E d \in batch : Parse(d)
  \/ Enqueued
  \/ BatchEnds

Next ==
  \/ \E m \in Messages : Publish(m) \/ VisibilityExpires(m)
  \/ Listen
  \/ \E d \in waiters : KeepMessage(d)
  \/ \E d \in waiters : DeleteMessage(d)
  \/ \E d \in waiters : DeleteFails(d)
  \/ \E q \in Requests : Refuse(q) \/ Upload(q) \/ Reply(q)
  \/ CloseServer
  \/ ListenFails
  \/ ServeBus
  \/ Cancel
  \/ Restart

Spec == Init /\ [][Next]_vars

\* Every goroutine that can take a step takes one: the API calls and the SQS
\* calls return.  Nothing is assumed of the queue, the clients or shutdown.
FairSpec ==
  /\ Spec
  /\ WF_vars(ServeBus)
  /\ WF_vars(Listen)
  /\ WF_vars(CloseServer)
  /\ \A d \in Deliveries : WF_vars(Settle(d))
  /\ \A q \in Requests : WF_vars(Reply(q))

-----------------------------------------------------------------------------
\* Where each goroutine is, and what the channels and the queue hold.
TypeOK ==
  /\ sendq \in Seq(BusEvents)
  /\ sched \in {"select", "busy", "sleep", "stopped"}
  /\ cur \in BusEvents \union {None}
  /\ cur \in BusEvents <=> sched = "busy"
  /\ outcome \in [BusEvents -> {"none", "nil", "error"}]
  /\ made \in SUBSET BusEvents
  /\ cut \in SUBSET BusEvents
  /\ ctxDone \in BOOLEAN
  /\ msg \in [Messages -> {"unsent", "visible", "inflight", "deleted"}]
  /\ receipts \in [Messages -> 0..MaxReceives]
  /\ listener \in {"select", "receive", "backoff", "batch", "stopped"}
  /\ batch \in SUBSET Deliveries
  /\ sending \in Deliveries \union {None}
  /\ listener # "batch" => batch = {} /\ sending = None
  /\ waiters \in SUBSET Deliveries
  /\ serving \in BOOLEAN
  /\ http \in [Requests -> {"idle", "sending", "ok", "refused", "lost"}]
  /\ restarts \in 0..MaxRestarts

\* A delivery whose reports were all evaluated, none of the pipelines lost to
\* the shutdown.
Evaluated(d) == outcome[d] = "nil" /\ d \notin cut

EvaluatedMessages == {m \in Messages : \E r \in 1..MaxReceives : Evaluated(<<m, r>>)}

\* "failed to evaluate reports from message, not deleting message": a message
\* leaves the queue only after one of its deliveries was evaluated, through
\* expired receipts, failed deletions, shutdowns and restarts.
DeletedOnlyAfterEvaluation ==
  \A m \in Messages : msg[m] = "deleted" => m \in EvaluatedMessages

\* A goroutine only waits for an event the scheduler has received, so that at
\* most one is blocked at a time and the shutdown leaves none behind.
NoOrphanWaiter ==
  \A d \in waiters : d = cur \/ outcome[d] # "none"

\* The reply 200 says "processed %d reports" (scheduleReport): when an upload
\* is acknowledged the scheduler has at least received it, so that no shutdown
\* leaves it behind on the bus, only the end of the process.
AcknowledgedIsReceived ==
  [][\A q \in Requests :
       http[q] # "ok" /\ http'[q] = "ok" => q = cur \/ outcome[q] # "none"]_vars

\* The clients on the bus are the listener, with one delivery at most, and
\* the handlers of open requests: nobody waits there twice.
OneEventPerClient ==
  /\ \A i \in 1..Len(sendq) :
       \/ sendq[i] = sending
       \/ sendq[i] \in Requests /\ http[sendq[i]] = "sending"
  /\ \A i, j \in 1..Len(sendq) : sendq[i] = sendq[j] => i = j

\* The queue's view: intake implements at-least-once evaluation.
Delivery == INSTANCE ReportDelivery WITH
  published <- {m \in Messages : msg[m] # "unsent"},
  evaluated <- EvaluatedMessages,
  removed   <- {m \in Messages : msg[m] = "deleted"}

AtLeastOnce == Delivery!Spec

\* Every goroutine waiting for an answer ends, even when the manager shuts
\* down: the scheduler answers the event it has received before it stops.
WaitersEnd == \A d \in Deliveries : d \in waiters ~> d \notin waiters

\* An upload is never starved by the queue: its handler returns unless the
\* manager is shut down.
UploadsReturn ==
  \A q \in Requests : http[q] = "sending" ~> (http[q] # "sending" \/ ctxDone)

\* listener_test.go expects Start to return after the context is cancelled.
ListenerStops == ctxDone ~> listener = "stopped"
=============================================================================
