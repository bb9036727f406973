---------------------------- MODULE Intake_proof ----------------------------
(***************************************************************************)
(* Proofs about report intake, for every number of messages, uploads,      *)
(* receipts and restarts, and every batch size.                            *)
(***************************************************************************)
EXTENDS Intake, TLAPS

USE IntakeAssumption DEF IntakeAssumption

\* The clients on the bus are distinct, unanswered and not being served; the
\* event being processed is unanswered.
BusOK ==
  /\ \A i, j \in 1..Len(sendq) : sendq[i] = sendq[j] => i = j
  /\ \A i \in 1..Len(sendq) : sendq[i] # cur /\ outcome[sendq[i]] = "none"
  /\ cur \in BusEvents => outcome[cur] = "none"

\* The bus and the goroutine serving it: the part of TypeOK about them.
BusTypeOK ==
  /\ sendq \in Seq(BusEvents)
  /\ sched \in {"select", "busy", "sleep", "stopped"}
  /\ cur \in BusEvents \union {None}
  /\ cur \in BusEvents <=> sched = "busy"
  /\ outcome \in [BusEvents -> {"none", "nil", "error"}]
  /\ made \in SUBSET BusEvents
  /\ cut \in SUBSET BusEvents
  /\ ctxDone \in BOOLEAN

-----------------------------------------------------------------------------
\* What the two operations on the bus do to the clients waiting there.
LEMMA EnqueueAdds ==
  ASSUME BusTypeOK, NEW e \in BusEvents, Bus!Enqueue(e)
  PROVE  /\ \A x \in BusEvents : OnBus(x)' <=> OnBus(x) \/ x = e
         /\ ~OnBus(e)
<1>1. Len(sendq') = Len(sendq) + 1 /\ Len(sendq) \in Nat
  BY DEF Bus!Enqueue, BusTypeOK
<1>2. \A i \in 1..Len(sendq) : sendq'[i] = sendq[i]
  BY DEF Bus!Enqueue, BusTypeOK
<1>3. sendq'[Len(sendq) + 1] = e
  BY DEF Bus!Enqueue, BusTypeOK
<1>4. \A i \in 1..Len(sendq') : i \in 1..Len(sendq) \/ i = Len(sendq) + 1
  BY <1>1
<1>5. 1..Len(sendq) \subseteq 1..Len(sendq') /\ Len(sendq) + 1 \in 1..Len(sendq')
  BY <1>1
<1>6. \A x \in BusEvents : OnBus(x)' <=> OnBus(x) \/ x = e
  BY <1>2, <1>3, <1>4, <1>5 DEF OnBus
<1>7. ~OnBus(e)
  BY DEF Bus!Enqueue, Bus!Fresh, OnBus
<1> QED
  BY <1>6, <1>7

LEMMA TakeRemoves ==
  ASSUME BusTypeOK, BusOK, Bus!Take
  PROVE  /\ \A x \in BusEvents : OnBus(x) <=> OnBus(x)' \/ x = cur'
         /\ cur' \in BusEvents /\ ~OnBus(cur)'
         /\ outcome[cur'] = "none"
<1>1. Len(sendq) \in Nat \ {0} /\ Len(sendq') = Len(sendq) - 1 /\ cur' = sendq[1]
  BY DEF Bus!Take, BusTypeOK
<1>2. \A i \in 1..Len(sendq') : sendq'[i] = sendq[i + 1]
  BY DEF Bus!Take, BusTypeOK
<1>3. \A i \in 1..Len(sendq') : i + 1 \in 1..Len(sendq) /\ i + 1 # 1
  BY <1>1
<1>4. \A i \in 1..Len(sendq) : i = 1 \/ (i - 1 \in 1..Len(sendq') /\ (i - 1) + 1 = i)
  BY <1>1
<1>5. 1 \in 1..Len(sendq)
  BY <1>1
<1>6. ASSUME NEW x \in BusEvents PROVE OnBus(x) <=> OnBus(x)' \/ x = cur'
  <2>1. OnBus(x)' => OnBus(x)
    BY <1>2, <1>3 DEF OnBus
  <2>2. x = cur' => OnBus(x)
    BY <1>1, <1>5 DEF OnBus
  <2>3. ASSUME NEW i \in 1..Len(sendq), sendq[i] = x, x # cur' PROVE OnBus(x)'
    <3>1. i # 1
      BY <1>1, <2>3
    <3>2. i - 1 \in 1..Len(sendq') /\ sendq'[i - 1] = x
      BY <1>2, <1>4, <2>3, <3>1
    <3> QED
      BY <3>2 DEF OnBus
  <2> QED
    BY <2>1, <2>2, <2>3 DEF OnBus
<1>7. cur' \in BusEvents /\ outcome[cur'] = "none"
  BY <1>1, <1>5 DEF BusTypeOK, BusOK
<1>8. \A i \in 1..Len(sendq') : sendq'[i] # cur'
  BY <1>1, <1>2, <1>3, <1>5 DEF BusOK
<1> QED
  BY <1>6, <1>7, <1>8 DEF OnBus

\* Every step of the service, and every client, leaves the bus as it must be.
LEMMA BusTypeInductive ==
  ASSUME BusTypeOK, BusOK
  PROVE  /\ \A e \in BusEvents : Bus!Enqueue(e) => BusTypeOK'
         /\ Bus!Serve => BusTypeOK'
         /\ Bus!Cancel => BusTypeOK'
<1> USE DEF BusTypeOK
<1>1. ASSUME NEW e \in BusEvents, Bus!Enqueue(e) PROVE BusTypeOK'
  BY <1>1 DEF Bus!Enqueue
<1>2. CASE Bus!Take
  BY <1>2, TakeRemoves DEF Bus!Take
<1>3. CASE Bus!Create \/ Bus!Interrupt
  BY <1>3 DEF Bus!Create, Bus!Interrupt
<1>4. ASSUME NEW o \in {"nil", "error"}, Bus!Answer(o) PROVE BusTypeOK'
  BY <1>4 DEF Bus!Answer
<1>5. CASE Bus!Wake \/ Bus!Stop
  BY <1>5 DEF Bus!Wake, Bus!Stop
<1>6. CASE Bus!Cancel
  BY <1>6 DEF Bus!Cancel
<1> QED
  BY <1>1, <1>2, <1>3, <1>4, <1>5, <1>6 DEF Bus!Serve

LEMMA BusInductive ==
  ASSUME BusTypeOK, BusOK
  PROVE  /\ \A e \in BusEvents : Bus!Enqueue(e) => BusOK'
         /\ Bus!Serve => BusOK'
         /\ Bus!Cancel => BusOK'
<1> USE DEF BusTypeOK, BusOK
<1>1. ASSUME NEW e \in BusEvents, Bus!Enqueue(e) PROVE BusOK'
  <2>1. Len(sendq') = Len(sendq) + 1 /\ Len(sendq) \in Nat
    BY <1>1 DEF Bus!Enqueue
  <2>2. \A i \in 1..Len(sendq) : sendq'[i] = sendq[i] /\ sendq[i] # e
    BY <1>1 DEF Bus!Enqueue, Bus!Fresh
  <2>3. sendq'[Len(sendq) + 1] = e
    BY <1>1 DEF Bus!Enqueue
  <2>4. e # cur /\ outcome[e] = "none" /\ cur' = cur /\ outcome' = outcome
    BY <1>1 DEF Bus!Enqueue, Bus!Fresh
  <2>5. \A i \in 1..Len(sendq') : i \in 1..Len(sendq) \/ i = Len(sendq) + 1
    BY <2>1
  <2>6. \A i, j \in 1..Len(sendq') : sendq'[i] = sendq'[j] => i = j
    BY <2>2, <2>3, <2>5
  <2>7. \A i \in 1..Len(sendq') : sendq'[i] # cur' /\ outcome'[sendq'[i]] = "none"
    BY <2>2, <2>3, <2>4, <2>5
  <2> QED
    BY <2>4, <2>6, <2>7
<1>2. CASE Bus!Take
  <2>1. Len(sendq) \in Nat \ {0} /\ Len(sendq') = Len(sendq) - 1 /\ outcome' = outcome
    BY <1>2 DEF Bus!Take
  <2>2. \A i \in 1..Len(sendq') : sendq'[i] = sendq[i + 1]
    BY <1>2 DEF Bus!Take
  <2>3. \A i \in 1..Len(sendq') : i + 1 \in 1..Len(sendq)
    BY <2>1
  <2>4. \A i, j \in 1..Len(sendq') : sendq'[i] = sendq'[j] => i = j
    BY <2>2, <2>3
  <2>5. \A i \in 1..Len(sendq') : sendq'[i] # cur'
    BY <1>2, TakeRemoves DEF OnBus
  <2>6. \A i \in 1..Len(sendq') : outcome'[sendq'[i]] = "none"
    BY <2>1, <2>2, <2>3
  <2>7. outcome'[cur'] = "none"
    BY <1>2, <2>1, TakeRemoves
  <2> QED
    BY <2>4, <2>5, <2>6, <2>7
<1>3. ASSUME NEW o \in {"nil", "error"}, Bus!Answer(o) PROVE BusOK'
  <2>1. cur' = None /\ sendq' = sendq
    BY <1>3 DEF Bus!Answer
  <2>2. \A e \in BusEvents : e # cur => outcome'[e] = outcome[e]
    BY <1>3 DEF Bus!Answer
  <2>3. \A i \in 1..Len(sendq) : sendq[i] \in BusEvents
    OBVIOUS
  <2> QED
    BY <2>1, <2>2, <2>3
<1>4. CASE Bus!Create \/ Bus!Interrupt \/ Bus!Wake \/ Bus!Stop \/ Bus!Cancel
  BY <1>4 DEF Bus!Create, Bus!Interrupt, Bus!Wake, Bus!Stop, Bus!Cancel
<1> QED
  BY <1>1, <1>2, <1>3, <1>4 DEF Bus!Serve

-----------------------------------------------------------------------------
\* The queue, the listener, the handlers: the rest of TypeOK.
ClientTypeOK ==
  /\ msg \in [Messages -> {"unsent", "visible", "inflight", "deleted"}]
  /\ receipts \in [Messages -> 0..MaxReceives]
  /\ listener \in {"select", "receive", "backoff", "batch", "stopped"}
  /\ batch \in SUBSET Deliveries
  /\ sending \in Deliveries \union {None}
  /\ listener # "batch" => batch = {} /\ sending = None
  /\ waiters \in SUBSET Deliveries
  /\ serving \in BOOLEAN
  /\ http \in [Requests -> {"idle", "sending", "ok", "refused", "lost"}]
  /\ restarts \in 0..MaxRestarts

LEMMA HandOutTypes ==
  ASSUME ClientTypeOK, NEW S \in SUBSET Visible, HandOut(S)
  PROVE  /\ msg' \in [Messages -> {"unsent", "visible", "inflight", "deleted"}]
         /\ receipts' \in [Messages -> 0..MaxReceives]
         /\ \A m \in Messages : receipts'[m] = IF m \in S THEN receipts[m] + 1 ELSE receipts[m]
         /\ \A m \in S : m \in Messages /\ receipts'[m] \in 1..MaxReceives
         /\ {<<m, receipts'[m]>> : m \in S} \in SUBSET Deliveries
<1>1. \A m \in S : m \in Messages /\ receipts[m] < MaxReceives /\ receipts[m] \in 0..MaxReceives
  BY DEF ClientTypeOK, Visible
<1>2. msg' \in [Messages -> {"unsent", "visible", "inflight", "deleted"}]
  BY DEF ClientTypeOK, HandOut
<1>3. \A m \in Messages : receipts'[m] = IF m \in S THEN receipts[m] + 1 ELSE receipts[m]
  BY DEF HandOut
<1>4. \A m \in S : receipts'[m] \in 1..MaxReceives
  BY <1>1, <1>3
<1>5. \A m \in Messages : receipts'[m] \in 0..MaxReceives
  BY <1>1, <1>3 DEF ClientTypeOK
<1>6. receipts' \in [Messages -> 0..MaxReceives]
  BY <1>5 DEF HandOut
<1>7. {<<m, receipts'[m]>> : m \in S} \in SUBSET Deliveries
  BY <1>1, <1>4 DEF Deliveries
<1> QED
  BY <1>1, <1>2, <1>3, <1>4, <1>6, <1>7

LEMMA ClientTypeInductive ==
  ASSUME ClientTypeOK, [Next]_vars
  PROVE  ClientTypeOK'
<1> USE DEF ClientTypeOK, queueVars, listenerVars, httpVars, intakeVars
<1>1. ASSUME NEW m \in Messages, Publish(m) \/ VisibilityExpires(m) PROVE ClientTypeOK'
  BY <1>1 DEF Publish, VisibilityExpires
<1>2. CASE Poll \/ ListenerStop \/ ReceiveNothing \/ BackoffEnds \/ BatchEnds
  BY <1>2 DEF Poll, ListenerStop, ReceiveNothing, BackoffEnds, BatchEnds
<1>3. ASSUME NEW S \in SUBSET Visible, Receive(S) PROVE ClientTypeOK'
  BY <1>3, HandOutTypes DEF Receive
<1>4. ASSUME NEW S \in SUBSET Visible, ReceiveFails(S) PROVE ClientTypeOK'
  BY <1>4, HandOutTypes DEF ReceiveFails
<1>5. ASSUME NEW d \in batch, ParseFails(d) PROVE ClientTypeOK'
  BY <1>5 DEF ParseFails
<1>6. ASSUME NEW d \in batch, Parse(d) PROVE ClientTypeOK'
  BY <1>6 DEF Parse
<1>7. CASE Enqueued
  BY <1>7 DEF Enqueued
<1>8. ASSUME NEW d \in waiters, KeepMessage(d) \/ DeleteFails(d) PROVE ClientTypeOK'
  BY <1>8 DEF KeepMessage, DeleteFails
<1>9. ASSUME NEW d \in waiters, DeleteMessage(d) PROVE ClientTypeOK'
  BY <1>9 DEF DeleteMessage
<1>10. ASSUME NEW q \in Requests, Refuse(q) \/ Upload(q) \/ Reply(q) PROVE ClientTypeOK'
  BY <1>10 DEF Refuse, Upload, Reply
<1>11. CASE CloseServer \/ ListenFails \/ ServeBus \/ Cancel \/ UNCHANGED vars
  BY <1>11 DEF CloseServer, ListenFails, ServeBus, Cancel, vars
<1>12. CASE Restart
  BY <1>12 DEF Restart
<1> QED
  BY <1>1, <1>2, <1>3, <1>4, <1>5, <1>6, <1>7, <1>8, <1>9, <1>10, <1>11, <1>12
     DEF Next, Listen

\* A step of intake is a step of the service, an event put on the bus, a
\* restart, or leaves the bus alone.
LEMMA StepsOnBus ==
  ASSUME ClientTypeOK, [Next]_vars
  PROVE  \/ Bus!Serve \/ Bus!Cancel
         \/ \E e \in BusEvents : Bus!Enqueue(e)
         \/ Restart
         \/ UNCHANGED busVars
<1>1. ASSUME NEW d \in batch, Parse(d) PROVE \E e \in BusEvents : Bus!Enqueue(e)
  BY <1>1 DEF Parse, ClientTypeOK, BusEvents
<1>2. ASSUME NEW q \in Requests, Upload(q) PROVE \E e \in BusEvents : Bus!Enqueue(e)
  BY <1>2 DEF Upload, BusEvents
<1>3. ASSUME NEW m \in Messages, Publish(m) \/ VisibilityExpires(m) PROVE UNCHANGED busVars
  BY <1>3 DEF Publish, VisibilityExpires
<1>4. CASE Poll \/ ListenerStop \/ ReceiveNothing \/ BackoffEnds \/ BatchEnds \/ Enqueued
  BY <1>4 DEF Poll, ListenerStop, ReceiveNothing, BackoffEnds, BatchEnds, Enqueued
<1>5. ASSUME NEW S, Receive(S) \/ ReceiveFails(S) PROVE UNCHANGED busVars
  BY <1>5 DEF Receive, ReceiveFails
<1>6. ASSUME NEW d, ParseFails(d) \/ KeepMessage(d) \/ DeleteFails(d) \/ DeleteMessage(d)
      PROVE  UNCHANGED busVars
  BY <1>6 DEF ParseFails, KeepMessage, DeleteFails, DeleteMessage
<1>7. ASSUME NEW q \in Requests, Refuse(q) \/ Reply(q) PROVE UNCHANGED busVars
  BY <1>7 DEF Refuse, Reply
<1>8. CASE CloseServer \/ ListenFails \/ UNCHANGED vars
  BY <1>8 DEF CloseServer, ListenFails, vars
<1>9. CASE ServeBus \/ Cancel
  BY <1>9 DEF ServeBus, Cancel
<1> QED
  BY <1>1, <1>2, <1>3, <1>4, <1>5, <1>6, <1>7, <1>8, <1>9 DEF Next, Listen

LEMMA TypesInit == Init => BusTypeOK /\ BusOK /\ ClientTypeOK
<1> SUFFICES ASSUME Init PROVE BusTypeOK /\ BusOK /\ ClientTypeOK
  OBVIOUS
<1>1. sendq \in Seq(BusEvents) /\ Len(sendq) = 0 /\ cur = None
  BY DEF Init, Bus!Init
<1>2. outcome \in [BusEvents -> {"none", "nil", "error"}]
  BY DEF Init, Bus!Init
<1>3. BusTypeOK
  BY <1>1, <1>2 DEF Init, Bus!Init, BusTypeOK
<1>4. BusOK
  BY <1>1 DEF BusOK
<1>5. ClientTypeOK
  BY DEF Init, ClientTypeOK
<1> QED
  BY <1>3, <1>4, <1>5

LEMMA TypesInductive ==
  BusTypeOK /\ BusOK /\ ClientTypeOK /\ [Next]_vars => (BusTypeOK /\ BusOK /\ ClientTypeOK)'
<1> SUFFICES ASSUME BusTypeOK, BusOK, ClientTypeOK, [Next]_vars
             PROVE  BusTypeOK' /\ BusOK'
  BY ClientTypeInductive
<1>1. CASE Bus!Serve \/ Bus!Cancel \/ \E e \in BusEvents : Bus!Enqueue(e)
  BY <1>1, BusTypeInductive, BusInductive
<1>2. CASE Restart
  <2>1. sendq' \in Seq(BusEvents) /\ Len(sendq') = 0 /\ cur' = None
    BY <1>2 DEF Restart
  <2>2. BusTypeOK'
    BY <1>2, <2>1 DEF Restart, BusTypeOK
  <2>3. BusOK'
    BY <2>1 DEF BusOK
  <2> QED
    BY <2>2, <2>3
<1>3. CASE UNCHANGED busVars
  BY <1>3 DEF busVars, BusTypeOK, BusOK
<1> QED
  BY <1>1, <1>2, <1>3, StepsOnBus

LEMMA TypesImply == BusTypeOK /\ ClientTypeOK => TypeOK
BY DEF BusTypeOK, ClientTypeOK, TypeOK

LEMMA BusTypeCorrect == Spec => [](BusTypeOK /\ BusOK /\ ClientTypeOK)
BY TypesInit, TypesInductive, PTL DEF Spec

\* Every goroutine is where the code can be, and the channels and the queue
\* hold what they can hold.
THEOREM TypeCorrect == Spec => []TypeOK
BY TypesImply, BusTypeCorrect, PTL

-----------------------------------------------------------------------------
\* Whoever is on the bus is blocked in Enqueue.
Blocked(e) == e = sending \/ (e \in Requests /\ http[e] = "sending")

ClientsOK == \A e \in BusEvents : OnBus(e) => Blocked(e)

\* Steps that put nothing on the bus and release nobody.
LEMMA ClientsKept ==
  ASSUME ClientsOK, UNCHANGED <<sending, http>>, \A e \in BusEvents : OnBus(e)' => OnBus(e)
  PROVE  ClientsOK'
BY DEF ClientsOK, Blocked

\* The service takes clients off the bus.
LEMMA ServeReleases ==
  ASSUME BusTypeOK, BusOK, Bus!Serve
  PROVE  \A e \in BusEvents : OnBus(e)' => OnBus(e)
<1>1. CASE Bus!Take
  BY <1>1, TakeRemoves
<1>2. CASE UNCHANGED sendq
  BY <1>2 DEF OnBus
<1> QED
  BY <1>1, <1>2 DEF Bus!Serve, Bus!Create, Bus!Interrupt, Bus!Answer, Bus!Wake, Bus!Stop

LEMMA ClientsInductive ==
  ASSUME BusTypeOK, BusOK, ClientTypeOK, ClientsOK, [Next]_vars
  PROVE  ClientsOK'
<1> USE DEF queueVars, listenerVars, httpVars, intakeVars, busVars
<1>1. ASSUME UNCHANGED <<sendq, sending, http>> PROVE ClientsOK'
  BY <1>1, ClientsKept DEF OnBus
<1>2. ASSUME NEW m \in Messages, Publish(m) \/ VisibilityExpires(m) PROVE ClientsOK'
  BY <1>1, <1>2 DEF Publish, VisibilityExpires
<1>3. CASE Poll \/ ListenerStop \/ ReceiveNothing \/ BackoffEnds \/ BatchEnds
  BY <1>1, <1>3 DEF Poll, ListenerStop, ReceiveNothing, BackoffEnds, BatchEnds
<1>4. ASSUME NEW S, Receive(S) \/ ReceiveFails(S) PROVE ClientsOK'
  BY <1>1, <1>4 DEF Receive, ReceiveFails
<1>5. ASSUME NEW d, ParseFails(d) \/ KeepMessage(d) \/ DeleteFails(d) \/ DeleteMessage(d)
      PROVE  ClientsOK'
  BY <1>1, <1>5 DEF ParseFails, KeepMessage, DeleteFails, DeleteMessage
<1>6. CASE CloseServer \/ ListenFails \/ Cancel \/ UNCHANGED vars
  BY <1>1, <1>6 DEF CloseServer, ListenFails, Cancel, Bus!Cancel, vars
<1>7. CASE ServeBus
  BY <1>7, ServeReleases, ClientsKept DEF ServeBus
<1>8. ASSUME NEW d \in batch, Parse(d) PROVE ClientsOK'
  \* The listener was not blocked: whoever was on the bus is an upload.
  <2>1. d \in BusEvents /\ Bus!Enqueue(d) /\ sending' = d /\ http' = http
    BY <1>8 DEF Parse, ClientTypeOK, BusEvents
  <2>2. \A e \in BusEvents : OnBus(e) => e \in Requests /\ http[e] = "sending"
    BY <1>8 DEF Parse, ClientsOK, Blocked
  <2> QED
    BY <2>1, <2>2, EnqueueAdds DEF ClientsOK, Blocked
<1>9. CASE Enqueued
  <2>1. \A e \in BusEvents : OnBus(e)' <=> OnBus(e)
    BY <1>9 DEF Enqueued, OnBus
  <2>2. ~OnBus(sending) /\ http' = http
    BY <1>9 DEF Enqueued, EnqueueReturns
  <2> QED
    BY <2>1, <2>2 DEF ClientsOK, Blocked
<1>10. ASSUME NEW q \in Requests, Upload(q) PROVE ClientsOK'
  <2>1. q \in BusEvents /\ Bus!Enqueue(q) /\ sending' = sending
    BY <1>10 DEF Upload, BusEvents
  <2>2. http' = [http EXCEPT ![q] = "sending"]
    BY <1>10 DEF Upload
  <2>3. \A e \in Requests : http[e] = "sending" => http'[e] = "sending"
    BY <2>2 DEF ClientTypeOK
  <2>4. http'[q] = "sending"
    BY <2>2 DEF ClientTypeOK
  <2> QED
    BY <2>1, <2>3, <2>4, EnqueueAdds DEF ClientsOK, Blocked
<1>11. ASSUME NEW q \in Requests, Refuse(q) \/ Reply(q) PROVE ClientsOK'
  <2>1. q \in BusEvents /\ q # sending
    BY DEF ClientTypeOK, BusEvents
  <2>2. ASSUME Refuse(q) PROVE ~OnBus(q)
    BY <2>1, <2>2 DEF Refuse, ClientsOK, Blocked
  <2>3. ASSUME Reply(q) PROVE ~OnBus(q)
    BY <2>3 DEF Reply, EnqueueReturns
  <2>4. ~OnBus(q)
    BY <1>11, <2>2, <2>3
  <2>5. /\ \A e \in BusEvents : OnBus(e)' <=> OnBus(e)
        /\ sending' = sending
        /\ \A e \in Requests \ {q} : http'[e] = http[e]
    BY <1>11 DEF Refuse, Reply, OnBus, ClientTypeOK
  <2> QED
    BY <2>4, <2>5 DEF ClientsOK, Blocked
<1>12. CASE Restart
  <2>1. Len(sendq') = 0
    BY <1>12 DEF Restart
  <2>2. \A e \in BusEvents : ~OnBus(e)'
    BY <2>1 DEF OnBus
  <2> QED
    BY <2>2 DEF ClientsOK
<1> QED
  BY <1>2, <1>3, <1>4, <1>5, <1>6, <1>7, <1>8, <1>9, <1>10, <1>11, <1>12 DEF Next, Listen

\* The listener and each handler have at most one event on the bus, and only
\* while they are blocked in Enqueue.
THEOREM OneEventEach == Spec => []OneEventPerClient
<1>1. Init => ClientsOK
  <2> SUFFICES ASSUME Init PROVE ClientsOK
    OBVIOUS
  <2>1. Len(sendq) = 0
    BY DEF Init, Bus!Init
  <2> QED
    BY <2>1 DEF ClientsOK, OnBus
<1>2. BusTypeOK /\ BusOK /\ ClientTypeOK /\ ClientsOK /\ [Next]_vars => ClientsOK'
  BY ClientsInductive
<1>3. BusTypeOK /\ BusOK /\ ClientsOK => OneEventPerClient
  <2> SUFFICES ASSUME BusTypeOK, BusOK, ClientsOK, NEW i \in 1..Len(sendq)
               PROVE  Blocked(sendq[i])
    BY DEF OneEventPerClient, BusOK, Blocked
  <2>1. sendq[i] \in BusEvents
    BY DEF BusTypeOK
  <2> QED
    BY <2>1 DEF ClientsOK, OnBus
<1> QED
  BY <1>1, <1>2, <1>3, BusTypeCorrect, PTL DEF Spec

-----------------------------------------------------------------------------
\* A delivery the listener has not put on the bus yet.
Unused(d) ==
  /\ outcome[d] = "none"
  /\ d \notin cut
  /\ d # cur
  /\ ~OnBus(d)
  /\ d \notin waiters
  /\ d # sending

\* Receipts not handed out, and deliveries not parsed, have never been used.
FreshOK ==
  /\ \A d \in Deliveries : receipts[d[1]] < d[2] => Unused(d) /\ d \notin batch
  /\ \A d \in batch : Unused(d)

\* While the context is not cancelled nothing was lost to a shutdown of any
\* event this process still holds: cut remembers earlier processes.
CleanOK == ~ctxDone => sending \notin cut /\ \A d \in waiters : d \notin cut

\* The delivery being handed over is on the bus, or was received from it.
SentOK ==
  sending # None => OnBus(sending) \/ sending = cur \/ outcome[sending] # "none"

DeliveryOK ==
  /\ FreshOK
  /\ CleanOK
  /\ SentOK
  /\ NoOrphanWaiter
  /\ DeletedOnlyAfterEvaluation

IntakeTypeOK == BusTypeOK /\ BusOK /\ ClientTypeOK

\* Used up, a delivery stays used: what a step of the service may change.
LEMMA ServiceKeepsDeliveries ==
  ASSUME IntakeTypeOK, DeliveryOK, ServeBus
  PROVE  DeliveryOK'
<1> USE DEF IntakeTypeOK, intakeVars, queueVars, listenerVars, httpVars
<1>0. UNCHANGED <<msg, receipts, batch, sending, waiters>> /\ Deliveries \subseteq BusEvents
  BY DEF ServeBus, BusEvents
<1>1. sending \in BusEvents \union {None} /\ waiters \subseteq BusEvents /\ batch \subseteq Deliveries
  BY <1>0 DEF ClientTypeOK
<1>2. CASE Bus!Take
  <2>1. cur = None /\ UNCHANGED <<outcome, made, cut, ctxDone>>
    BY <1>2 DEF Bus!Take, BusTypeOK
  <2>2. \A x \in BusEvents : OnBus(x) <=> OnBus(x)' \/ x = cur'
    BY <1>2, TakeRemoves
  <2>3. FreshOK'
    BY <1>0, <1>1, <2>1, <2>2 DEF DeliveryOK, FreshOK, Unused
  <2>4. CleanOK'
    BY <1>0, <2>1 DEF DeliveryOK, CleanOK
  <2>5. SentOK'
    <3>1. sending # None =>
            \/ \E i \in 1..Len(sendq') : sendq'[i] = sending
            \/ sending = cur' \/ outcome[sending] # "none"
      BY <1>1, <2>1, <2>2 DEF DeliveryOK, SentOK, OnBus
    <3> QED
      BY <1>0, <2>1, <3>1 DEF SentOK, OnBus
  <2>6. NoOrphanWaiter'
    BY <1>0, <1>1, <2>1 DEF DeliveryOK, NoOrphanWaiter
  <2>7. DeletedOnlyAfterEvaluation'
    BY <1>0, <2>1 DEF DeliveryOK, DeletedOnlyAfterEvaluation, EvaluatedMessages, Evaluated
  <2> QED
    BY <2>3, <2>4, <2>5, <2>6, <2>7 DEF DeliveryOK
<1>3. ASSUME UNCHANGED <<sendq, cur, outcome, cut, ctxDone>> PROVE DeliveryOK'
  BY <1>0, <1>3 DEF DeliveryOK, FreshOK, Unused, CleanOK, SentOK, OnBus, NoOrphanWaiter,
     DeletedOnlyAfterEvaluation, EvaluatedMessages, Evaluated
<1>4. CASE Bus!Interrupt
  <2>1. /\ cur \in BusEvents /\ outcome[cur] = "none" /\ cut' = cut \union {cur} /\ ctxDone'
        /\ UNCHANGED <<sendq, cur, outcome>>
    BY <1>4 DEF Bus!Interrupt, BusTypeOK, BusOK
  <2>2. \A x \in BusEvents : OnBus(x)' <=> OnBus(x)
    BY <2>1 DEF OnBus
  <2>3. FreshOK'
    BY <1>0, <1>1, <2>1, <2>2 DEF DeliveryOK, FreshOK, Unused
  <2>4. CleanOK' /\ NoOrphanWaiter' /\ SentOK'
    BY <1>0, <2>1 DEF DeliveryOK, CleanOK, NoOrphanWaiter, SentOK, OnBus
  <2>5. \A d \in Deliveries : Evaluated(d) => Evaluated(d)'
    BY <1>0, <2>1 DEF Evaluated
  <2>6. DeletedOnlyAfterEvaluation'
    BY <1>0, <2>5 DEF DeliveryOK, DeletedOnlyAfterEvaluation, EvaluatedMessages, Deliveries
  <2> QED
    BY <2>3, <2>4, <2>6 DEF DeliveryOK
<1>5. ASSUME NEW o \in {"nil", "error"}, Bus!Answer(o) PROVE DeliveryOK'
  <2>1. /\ cur \in BusEvents /\ outcome[cur] = "none" /\ cur' = None
        /\ outcome'[cur] = o
        /\ \A e \in BusEvents : e # cur => outcome'[e] = outcome[e]
        /\ UNCHANGED <<sendq, cut, ctxDone>>
    BY <1>5 DEF Bus!Answer, BusTypeOK, BusOK
  <2>2. \A x \in BusEvents : OnBus(x)' <=> OnBus(x)
    BY <2>1 DEF OnBus
  <2>3. \A d \in Deliveries : d # None /\ d # sending => (Unused(d) => Unused(d)')
    BY <1>0, <2>1, <2>2 DEF Unused
  <2>4. FreshOK'
    BY <1>0, <1>1, <2>1, <2>2, <2>3 DEF DeliveryOK, FreshOK, Unused
  <2>5. CleanOK'
    BY <1>0, <2>1 DEF DeliveryOK, CleanOK
  <2>6. NoOrphanWaiter'
    BY <1>0, <1>1, <2>1 DEF DeliveryOK, NoOrphanWaiter
  <2>7. SentOK'
    BY <1>0, <1>1, <2>1 DEF DeliveryOK, SentOK, OnBus
  <2>8. \A d \in Deliveries : Evaluated(d) => Evaluated(d)'
    BY <1>0, <2>1 DEF Evaluated
  <2>9. DeletedOnlyAfterEvaluation'
    BY <1>0, <2>8 DEF DeliveryOK, DeletedOnlyAfterEvaluation, EvaluatedMessages, Deliveries
  <2> QED
    BY <2>4, <2>5, <2>6, <2>7, <2>9 DEF DeliveryOK
<1>6. CASE Bus!Create \/ Bus!Wake \/ Bus!Stop
  BY <1>3, <1>6 DEF Bus!Create, Bus!Wake, Bus!Stop
<1> QED
  BY <1>2, <1>4, <1>5, <1>6 DEF ServeBus, Bus!Serve

\* A message that leaves the queue does so with a complete evaluation; the
\* messages that had left it stay away.
LEMMA QueueKeepsPromise ==
  ASSUME IntakeTypeOK, DeliveryOK, UNCHANGED <<outcome, cut>>,
         \A m \in Messages : msg'[m] = "deleted" =>
            msg[m] = "deleted" \/ \E r \in 1..MaxReceives : Evaluated(<<m, r>>)
  PROVE  DeletedOnlyAfterEvaluation'
BY DEF DeliveryOK, DeletedOnlyAfterEvaluation, EvaluatedMessages, Evaluated

LEMMA ClientsKeepDeliveries ==
  ASSUME IntakeTypeOK, DeliveryOK, [Next]_vars, ~ServeBus
  PROVE  DeliveryOK'
<1> USE DEF IntakeTypeOK, queueVars, listenerVars, httpVars, intakeVars, busVars
<1>0. /\ Deliveries \subseteq BusEvents /\ None \notin Deliveries
      /\ sending \in Deliveries \union {None} /\ waiters \subseteq Deliveries
      /\ batch \subseteq Deliveries /\ cut \subseteq BusEvents
      /\ \A d \in Deliveries : d[1] \in Messages /\ d[2] \in 1..MaxReceives /\ d = <<d[1], d[2]>>
  BY DEF BusEvents, ClientTypeOK, BusTypeOK, Deliveries
<1>1. ASSUME UNCHANGED <<sendq, cur, outcome, cut, ctxDone, receipts, batch, sending, waiters>>,
             \A m \in Messages : msg'[m] = "deleted" => msg[m] = "deleted"
      PROVE  DeliveryOK'
  <2>1. DeletedOnlyAfterEvaluation'
    BY <1>1, QueueKeepsPromise
  <2> QED
    BY <1>1, <2>1 DEF DeliveryOK, FreshOK, Unused, CleanOK, SentOK, OnBus, NoOrphanWaiter
<1>2. ASSUME NEW m \in Messages, Publish(m) \/ VisibilityExpires(m) PROVE DeliveryOK'
  BY <1>1, <1>2 DEF Publish, VisibilityExpires, ClientTypeOK
<1>3. CASE Poll \/ ListenerStop \/ ReceiveNothing \/ BackoffEnds \/ BatchEnds
  BY <1>1, <1>3 DEF Poll, ListenerStop, ReceiveNothing, BackoffEnds, BatchEnds
<1>4. ASSUME NEW q \in Requests, Refuse(q) \/ Reply(q) PROVE DeliveryOK'
  BY <1>1, <1>4 DEF Refuse, Reply
<1>5. CASE CloseServer \/ ListenFails \/ UNCHANGED vars
  BY <1>1, <1>5 DEF CloseServer, ListenFails, vars
<1>6. CASE Cancel
  BY <1>6 DEF Cancel, Bus!Cancel, DeliveryOK, FreshOK, Unused, CleanOK, SentOK, OnBus,
     NoOrphanWaiter, DeletedOnlyAfterEvaluation, EvaluatedMessages, Evaluated
<1>7. ASSUME NEW S \in SUBSET Visible, HandOut(S),
             UNCHANGED <<sendq, cur, outcome, cut, ctxDone, sending, waiters>>,
             batch' = {} \/ batch' = {<<m, receipts'[m]>> : m \in S} \/ batch' = batch
      PROVE  DeliveryOK'
  <2>1. /\ \A m \in Messages :
             receipts'[m] = IF m \in S THEN receipts[m] + 1 ELSE receipts[m]
        /\ \A m \in S : m \in Messages /\ receipts'[m] \in 1..MaxReceives
        /\ \A m \in Messages : receipts[m] \in 0..MaxReceives
    BY <1>7, HandOutTypes DEF ClientTypeOK
  <2>2. \A d \in Deliveries : Unused(d) => Unused(d)'
    BY <1>7 DEF Unused, OnBus
  <2>3. \A m \in S : <<m, receipts'[m]>> \in Deliveries /\ Unused(<<m, receipts'[m]>>)
    <3> SUFFICES ASSUME NEW m \in S
                 PROVE  <<m, receipts'[m]>> \in Deliveries /\ Unused(<<m, receipts'[m]>>)
      OBVIOUS
    <3> DEFINE d == <<m, receipts'[m]>>
    <3>1. d \in Deliveries /\ d[1] = m /\ d[2] = receipts[m] + 1
      BY <2>1 DEF Deliveries
    <3>2. receipts[d[1]] < d[2]
      BY <2>1, <3>1
    <3> QED
      BY <3>1, <3>2 DEF DeliveryOK, FreshOK
  <2>4. \A d \in Deliveries : receipts'[d[1]] < d[2] => receipts[d[1]] < d[2]
    BY <1>0, <2>1
  <2>5. \A d \in Deliveries : receipts'[d[1]] < d[2] => d \notin batch'
    <3>1. \A m \in S : <<m, receipts'[m]>>[2] = receipts'[<<m, receipts'[m]>>[1]]
      OBVIOUS
    <3>2. \A m \in S : ~(receipts'[m] < receipts'[m])
      BY <2>1
    <3> QED
      BY <1>7, <2>4, <3>1, <3>2 DEF DeliveryOK, FreshOK
  <2>6. FreshOK'
    <3>1. \A d \in batch' : d \in Deliveries /\ Unused(d)
      BY <1>0, <1>7, <2>3 DEF DeliveryOK, FreshOK
    <3> QED
      BY <2>2, <2>4, <2>5, <3>1 DEF DeliveryOK, FreshOK
  <2>7. CleanOK' /\ SentOK' /\ NoOrphanWaiter'
    BY <1>7 DEF DeliveryOK, CleanOK, SentOK, OnBus, NoOrphanWaiter
  <2>8. \A m \in Messages : msg'[m] = "deleted" => msg[m] = "deleted"
    BY <1>7 DEF HandOut
  <2>9. DeletedOnlyAfterEvaluation'
    BY <1>7, <2>8, QueueKeepsPromise
  <2> QED
    BY <2>6, <2>7, <2>9 DEF DeliveryOK
<1>8. ASSUME NEW S \in SUBSET Visible, Receive(S) \/ ReceiveFails(S) PROVE DeliveryOK'
  BY <1>7, <1>8 DEF Receive, ReceiveFails
<1>9. ASSUME NEW d \in batch, ParseFails(d) PROVE DeliveryOK'
  <2>1. FreshOK'
    BY <1>9 DEF ParseFails, DeliveryOK, FreshOK, Unused, OnBus
  <2>2. CleanOK' /\ SentOK' /\ NoOrphanWaiter' /\ DeletedOnlyAfterEvaluation'
    BY <1>9 DEF ParseFails, DeliveryOK, CleanOK, SentOK, OnBus, NoOrphanWaiter,
       DeletedOnlyAfterEvaluation, EvaluatedMessages, Evaluated
  <2> QED
    BY <2>1, <2>2 DEF DeliveryOK
<1>10. ASSUME NEW d \in batch, Parse(d) PROVE DeliveryOK'
  <2>1. /\ d \in Deliveries /\ d \in BusEvents /\ Bus!Enqueue(d) /\ batch' = batch \ {d}
        /\ sending = None /\ sending' = d
        /\ UNCHANGED <<cur, outcome, cut, ctxDone, msg, receipts, waiters>>
    BY <1>0, <1>10 DEF Parse, Bus!Enqueue
  <2>2. \A x \in BusEvents : OnBus(x)' <=> OnBus(x) \/ x = d
    BY <2>1, EnqueueAdds
  <2>3. Unused(d) /\ ~(receipts[d[1]] < d[2])
    BY <2>1 DEF DeliveryOK, FreshOK
  <2>4. \A x \in Deliveries : x # d /\ Unused(x) => Unused(x)'
    BY <1>0, <2>1, <2>2 DEF Unused
  <2>5. FreshOK'
    BY <1>0, <2>1, <2>3, <2>4 DEF DeliveryOK, FreshOK
  <2>6. CleanOK' /\ NoOrphanWaiter' /\ DeletedOnlyAfterEvaluation'
    BY <2>1, <2>3 DEF DeliveryOK, CleanOK, Unused, NoOrphanWaiter,
       DeletedOnlyAfterEvaluation, EvaluatedMessages, Evaluated
  <2>7. \E i \in 1..Len(sendq') : sendq'[i] = d
    BY <2>1, <2>2 DEF OnBus
  <2>8. SentOK'
    BY <2>1, <2>7 DEF SentOK, OnBus
  <2> QED
    BY <2>5, <2>6, <2>8 DEF DeliveryOK
<1>11. CASE Enqueued
  <2>1. /\ sending \in Deliveries /\ ~OnBus(sending)
        /\ waiters' = waiters \union {sending} /\ sending' = None
        /\ UNCHANGED <<sendq, cur, outcome, cut, ctxDone, msg, receipts, batch>>
    BY <1>0, <1>11 DEF Enqueued, EnqueueReturns
  <2>2. \A x \in Deliveries : Unused(x) => Unused(x)'
    BY <1>0, <2>1 DEF Unused, OnBus
  <2>3. FreshOK'
    BY <1>0, <2>1, <2>2 DEF DeliveryOK, FreshOK
  <2>4. CleanOK' /\ SentOK'
    BY <1>0, <2>1 DEF DeliveryOK, CleanOK, SentOK
  <2>5. NoOrphanWaiter' /\ DeletedOnlyAfterEvaluation'
    BY <1>0, <2>1 DEF DeliveryOK, SentOK, NoOrphanWaiter, DeletedOnlyAfterEvaluation,
       EvaluatedMessages, Evaluated
  <2> QED
    BY <2>3, <2>4, <2>5 DEF DeliveryOK
<1>12. ASSUME NEW d \in waiters, KeepMessage(d) \/ DeleteFails(d) \/ DeleteMessage(d)
       PROVE  DeliveryOK'
  <2>1. /\ waiters' \subseteq waiters
        /\ UNCHANGED <<sendq, cur, outcome, cut, ctxDone, receipts, batch, sending>>
    BY <1>12 DEF KeepMessage, DeleteFails, DeleteMessage
  <2>2. \A x \in Deliveries : Unused(x) => Unused(x)'
    BY <2>1 DEF Unused, OnBus
  <2>3. FreshOK' /\ CleanOK' /\ NoOrphanWaiter'
    BY <1>0, <2>1, <2>2 DEF DeliveryOK, FreshOK, CleanOK, NoOrphanWaiter
  <2>4. SentOK'
    BY <2>1 DEF DeliveryOK, SentOK, OnBus
  <2>5. \A m \in Messages : msg'[m] = "deleted" =>
           msg[m] = "deleted" \/ \E r \in 1..MaxReceives : Evaluated(<<m, r>>)
    <3>1. CASE KeepMessage(d) \/ DeleteFails(d)
      BY <3>1 DEF KeepMessage, DeleteFails
    <3>2. CASE DeleteMessage(d)
      <4>1. Evaluated(d)
        BY <3>2 DEF DeleteMessage, Accepted, Connected, Evaluated, DeliveryOK, CleanOK
      <4>2. d[1] \in Messages /\ d[2] \in 1..MaxReceives /\ Evaluated(<<d[1], d[2]>>)
        BY <1>0, <4>1
      <4>3. \A m \in Messages : msg'[m] = "deleted" => msg[m] = "deleted" \/ m = d[1]
        BY <3>2 DEF DeleteMessage, ClientTypeOK
      <4> QED
        BY <4>2, <4>3
    <3> QED
      BY <1>12, <3>1, <3>2
  <2>6. DeletedOnlyAfterEvaluation'
    BY <2>1, <2>5, QueueKeepsPromise
  <2> QED
    BY <2>3, <2>4, <2>6 DEF DeliveryOK
<1>13. ASSUME NEW q \in Requests, Upload(q) PROVE DeliveryOK'
  <2>1. /\ q \in BusEvents /\ q \notin Deliveries /\ Bus!Enqueue(q)
        /\ UNCHANGED <<cur, outcome, cut, ctxDone, msg, receipts, batch, sending, waiters>>
    BY <1>13 DEF Upload, Bus!Enqueue, BusEvents
  <2>2. \A x \in BusEvents : OnBus(x)' <=> OnBus(x) \/ x = q
    BY <2>1, EnqueueAdds
  <2>3. \A x \in Deliveries : Unused(x) => Unused(x)'
    BY <1>0, <2>1, <2>2 DEF Unused
  <2>4. FreshOK' /\ CleanOK' /\ NoOrphanWaiter'
    BY <1>0, <2>1, <2>3 DEF DeliveryOK, FreshOK, CleanOK, NoOrphanWaiter
  <2>5. SentOK'
    <3>1. sending # None =>
            \/ \E i \in 1..Len(sendq') : sendq'[i] = sending
            \/ sending = cur \/ outcome[sending] # "none"
      BY <1>0, <2>2 DEF DeliveryOK, SentOK, OnBus
    <3> QED
      BY <2>1, <3>1 DEF SentOK, OnBus
  <2>6. DeletedOnlyAfterEvaluation'
    BY <2>1, QueueKeepsPromise
  <2> QED
    BY <2>4, <2>5, <2>6 DEF DeliveryOK
<1>14. CASE Restart
  <2>1. /\ Len(sendq') = 0 /\ cur' = None /\ batch' = {} /\ sending' = None /\ waiters' = {}
        /\ UNCHANGED <<outcome, cut, msg, receipts>>
    BY <1>14 DEF Restart
  <2>2. \A x \in Deliveries : Unused(x) => Unused(x)'
    BY <1>0, <2>1 DEF Unused, OnBus
  <2>3. FreshOK' /\ CleanOK' /\ NoOrphanWaiter' /\ SentOK'
    BY <1>0, <2>1, <2>2 DEF DeliveryOK, FreshOK, CleanOK, NoOrphanWaiter, SentOK
  <2>4. DeletedOnlyAfterEvaluation'
    BY <2>1, QueueKeepsPromise
  <2> QED
    BY <2>3, <2>4 DEF DeliveryOK
<1> QED
  BY <1>2, <1>3, <1>4, <1>5, <1>6, <1>8, <1>9, <1>10, <1>11, <1>12, <1>13, <1>14
     DEF Next, Listen

LEMMA DeliveryInit == Init => DeliveryOK
<1> SUFFICES ASSUME Init PROVE DeliveryOK
  OBVIOUS
<1>1. /\ Len(sendq) = 0 /\ cur = None /\ cut = {} /\ waiters = {} /\ batch = {}
      /\ sending = None /\ \A e \in BusEvents : outcome[e] = "none"
      /\ \A m \in Messages : msg[m] = "unsent"
  BY DEF Init, Bus!Init
<1>2. Deliveries \subseteq BusEvents /\ None \notin Deliveries
  BY DEF BusEvents
<1>3. \A d \in Deliveries : Unused(d)
  BY <1>1, <1>2 DEF Unused, OnBus
<1>4. FreshOK
  BY <1>1, <1>3 DEF FreshOK
<1> QED
  BY <1>1, <1>4 DEF DeliveryOK, CleanOK, SentOK, NoOrphanWaiter, DeletedOnlyAfterEvaluation

LEMMA DeliveryInductive == IntakeTypeOK /\ DeliveryOK /\ [Next]_vars => DeliveryOK'
BY ServiceKeepsDeliveries, ClientsKeepDeliveries

LEMMA DeliveryInvariant == Spec => [](IntakeTypeOK /\ DeliveryOK)
<1> QED
  BY DeliveryInit, DeliveryInductive, BusTypeCorrect, PTL DEF Spec, IntakeTypeOK

\* A message leaves the queue only after a complete evaluation of one of its
\* deliveries: the listener deletes on a nil answer only, and with a context
\* that is cancelled no later than the scheduler's.
THEOREM NothingIsLost == Spec => []DeletedOnlyAfterEvaluation
BY DeliveryInvariant, PTL DEF DeliveryOK

\* The listener's goroutines wait for events that were received.
THEOREM WaitersAreServed == Spec => []NoOrphanWaiter
BY DeliveryInvariant, PTL DEF DeliveryOK

-----------------------------------------------------------------------------
\* Only published messages were received.
PublishedOK == \A m \in Messages : msg[m] = "unsent" => receipts[m] = 0

LEMMA PublishedInductive ==
  ASSUME IntakeTypeOK, PublishedOK, [Next]_vars
  PROVE  PublishedOK'
<1> USE DEF PublishedOK, queueVars, listenerVars, httpVars, intakeVars, busVars
<1>1. ASSUME NEW S \in SUBSET Visible, HandOut(S) PROVE PublishedOK'
  BY <1>1 DEF HandOut, Visible
<1>2. ASSUME NEW S \in SUBSET Visible, Receive(S) \/ ReceiveFails(S) PROVE PublishedOK'
  BY <1>1, <1>2 DEF Receive, ReceiveFails
<1>3. ASSUME NEW m \in Messages, Publish(m) \/ VisibilityExpires(m) PROVE PublishedOK'
  BY <1>3 DEF Publish, VisibilityExpires, IntakeTypeOK, ClientTypeOK
<1>4. ASSUME NEW d \in waiters, KeepMessage(d) \/ DeleteFails(d) \/ DeleteMessage(d)
      PROVE  PublishedOK'
  BY <1>4 DEF KeepMessage, DeleteFails, DeleteMessage, IntakeTypeOK, ClientTypeOK
<1>5. ASSUME UNCHANGED queueVars PROVE PublishedOK'
  BY <1>5
<1>6. ASSUME NEW d \in batch, Parse(d) \/ ParseFails(d) PROVE PublishedOK'
  BY <1>5, <1>6 DEF Parse, ParseFails
<1>7. ASSUME NEW q \in Requests, Refuse(q) \/ Upload(q) \/ Reply(q) PROVE PublishedOK'
  BY <1>5, <1>7 DEF Refuse, Upload, Reply
<1>8. CASE Poll \/ ListenerStop \/ ReceiveNothing \/ BackoffEnds \/ BatchEnds \/ Enqueued
  BY <1>5, <1>8 DEF Poll, ListenerStop, ReceiveNothing, BackoffEnds, BatchEnds, Enqueued
<1>9. CASE CloseServer \/ ListenFails \/ ServeBus \/ Cancel \/ Restart \/ UNCHANGED vars
  BY <1>5, <1>9 DEF CloseServer, ListenFails, ServeBus, Cancel, Restart, vars
<1> QED
  BY <1>2, <1>3, <1>4, <1>6, <1>7, <1>8, <1>9 DEF Next, Listen

\* Every step of intake is one of at-least-once delivery, or invisible to it.
LEMMA StepsDeliver ==
  ASSUME IntakeTypeOK, DeliveryOK, DeliveryOK', PublishedOK, [Next]_vars
  PROVE  [Delivery!Next]_(Delivery!deliveryVars)
<1> DEFINE published == {m \in Messages : msg[m] # "unsent"}
           removed == {m \in Messages : msg[m] = "deleted"}
<1> USE DEF IntakeTypeOK, queueVars, listenerVars, httpVars, intakeVars, busVars
<1>0. Deliveries \subseteq BusEvents
  BY DEF BusEvents
<1>1. ASSUME UNCHANGED <<msg, outcome, cut>> PROVE UNCHANGED Delivery!deliveryVars
  BY <1>1 DEF Delivery!deliveryVars, EvaluatedMessages, Evaluated
<1>2. ASSUME NEW m \in Messages, Publish(m) PROVE Delivery!Publish(m)
  BY <1>2 DEF Publish, Delivery!Publish, ClientTypeOK, EvaluatedMessages, Evaluated
<1>3. ASSUME UNCHANGED <<outcome, cut>>, published' = published, removed' = removed
      PROVE  UNCHANGED Delivery!deliveryVars
  BY <1>3 DEF Delivery!deliveryVars, EvaluatedMessages, Evaluated
<1>4. ASSUME NEW m \in Messages, VisibilityExpires(m) PROVE UNCHANGED Delivery!deliveryVars
  BY <1>3, <1>4 DEF VisibilityExpires, ClientTypeOK
<1>5. ASSUME NEW S \in SUBSET Visible, Receive(S) \/ ReceiveFails(S)
      PROVE  UNCHANGED Delivery!deliveryVars
  <2>1. published' = published /\ removed' = removed
    BY <1>5 DEF Receive, ReceiveFails, HandOut, Visible
  <2> QED
    BY <1>3, <1>5, <2>1 DEF Receive, ReceiveFails
<1>6. ASSUME NEW d \in batch, Parse(d) \/ ParseFails(d) PROVE UNCHANGED Delivery!deliveryVars
  BY <1>1, <1>6 DEF Parse, ParseFails, Bus!Enqueue
<1>7. ASSUME NEW q \in Requests, Refuse(q) \/ Upload(q) \/ Reply(q)
      PROVE  UNCHANGED Delivery!deliveryVars
  BY <1>1, <1>7 DEF Refuse, Upload, Reply, Bus!Enqueue
<1>8. CASE Poll \/ ListenerStop \/ ReceiveNothing \/ BackoffEnds \/ BatchEnds \/ Enqueued
  BY <1>1, <1>8 DEF Poll, ListenerStop, ReceiveNothing, BackoffEnds, BatchEnds, Enqueued
<1>9. CASE CloseServer \/ ListenFails \/ Cancel \/ Restart \/ UNCHANGED vars
  BY <1>1, <1>9 DEF CloseServer, ListenFails, Cancel, Bus!Cancel, Restart, vars
<1>10. ASSUME NEW d \in waiters, KeepMessage(d) \/ DeleteFails(d)
       PROVE  UNCHANGED Delivery!deliveryVars
  BY <1>1, <1>10 DEF KeepMessage, DeleteFails
<1>11. ASSUME NEW d \in waiters, DeleteMessage(d) PROVE [Delivery!Next]_(Delivery!deliveryVars)
  <2>1. d[1] \in Messages /\ UNCHANGED <<outcome, cut>>
    BY <1>11 DEF DeleteMessage, ClientTypeOK, Deliveries
  <2>2. EvaluatedMessages' = EvaluatedMessages
    BY <2>1 DEF EvaluatedMessages, Evaluated
  <2>3. CASE msg' = msg
    BY <1>1, <2>1, <2>3
  <2>4. CASE msg' = [msg EXCEPT ![d[1]] = "deleted"]
    <3>1. d[1] \in EvaluatedMessages
      BY <2>1, <2>2, <2>4 DEF DeliveryOK, DeletedOnlyAfterEvaluation, ClientTypeOK
    <3>2. msg[d[1]] # "unsent"
      <4>1. d \in Deliveries /\ ~(receipts[d[1]] < d[2])
        BY DEF ClientTypeOK, DeliveryOK, FreshOK, Unused
      <4>2. d[2] \in 1..MaxReceives /\ receipts[d[1]] \in 0..MaxReceives
        BY <4>1 DEF Deliveries, ClientTypeOK
      <4>3. receipts[d[1]] # 0
        BY <4>1, <4>2
      <4> QED
        BY <2>1, <4>3 DEF PublishedOK
    <3>3. removed' = removed \union {d[1]} /\ published' = published
      BY <2>1, <2>4, <3>2 DEF ClientTypeOK
    <3>4. Delivery!Remove(d[1])
      BY <2>2, <3>1, <3>3 DEF Delivery!Remove
    <3> QED
      BY <2>1, <3>4 DEF Delivery!Next
  <2> QED
    BY <1>11, <2>3, <2>4 DEF DeleteMessage
<1>12. CASE ServeBus
  <2>0. UNCHANGED msg
    BY <1>12 DEF ServeBus
  <2>1. CASE Bus!Take \/ Bus!Create \/ Bus!Wake \/ Bus!Stop
    BY <1>1, <2>0, <2>1 DEF Bus!Take, Bus!Create, Bus!Wake, Bus!Stop
  <2>2. CASE Bus!Interrupt
    <3>1. /\ outcome[cur] = "none" /\ cut' = cut \union {cur} /\ outcome' = outcome
      BY <2>2 DEF Bus!Interrupt, BusOK, BusTypeOK
    <3>2. \A d \in Deliveries : Evaluated(d)' <=> Evaluated(d)
      BY <3>1 DEF Evaluated
    <3>3. EvaluatedMessages' = EvaluatedMessages
      BY <3>2 DEF EvaluatedMessages, Deliveries
    <3> QED
      BY <2>0, <3>3 DEF Delivery!deliveryVars
  <2>3. ASSUME NEW o \in {"nil", "error"}, Bus!Answer(o)
        PROVE  [Delivery!Next]_(Delivery!deliveryVars)
    <3>1. /\ cur \in BusEvents /\ outcome[cur] = "none" /\ outcome'[cur] = o /\ cut' = cut
          /\ \A e \in BusEvents : e # cur => outcome'[e] = outcome[e]
      BY <2>3 DEF Bus!Answer, BusOK, BusTypeOK
    <3>2. CASE cur \in Deliveries /\ o = "nil" /\ cur \notin cut
      <4>1. cur[1] \in Messages /\ cur[2] \in 1..MaxReceives /\ cur = <<cur[1], cur[2]>>
        BY <3>2 DEF Deliveries
      <4>2. \A d \in Deliveries : Evaluated(d)' <=> Evaluated(d) \/ d = cur
        BY <1>0, <3>1, <3>2 DEF Evaluated
      <4>3. EvaluatedMessages' = EvaluatedMessages \union {cur[1]}
        <5>1. \A m \in Messages, r \in 1..MaxReceives :
                Evaluated(<<m, r>>)' <=> Evaluated(<<m, r>>) \/ <<m, r>> = cur
          BY <4>2 DEF Deliveries
        <5>2. ASSUME NEW m \in Messages
              PROVE  m \in EvaluatedMessages' <=> m \in EvaluatedMessages \/ m = cur[1]
          BY <4>1, <5>1 DEF EvaluatedMessages
        <5>3. EvaluatedMessages \subseteq Messages /\ EvaluatedMessages' \subseteq Messages
          BY DEF EvaluatedMessages
        <5> QED
          BY <4>1, <5>2, <5>3
      <4>4. msg[cur[1]] # "unsent"
        <5>1. receipts[cur[1]] \in 0..MaxReceives
          BY <4>1 DEF ClientTypeOK
        <5>2. ~(receipts[cur[1]] < cur[2])
          BY <3>2, <4>1 DEF DeliveryOK, FreshOK, Unused
        <5>3. receipts[cur[1]] # 0
          BY <4>1, <5>1, <5>2
        <5> QED
          BY <4>1, <5>3 DEF PublishedOK
      <4>5. Delivery!Evaluate(cur[1])
        BY <2>0, <4>1, <4>3, <4>4 DEF Delivery!Evaluate
      <4> QED
        BY <4>1, <4>5 DEF Delivery!Next
    <3>3. CASE ~(cur \in Deliveries /\ o = "nil" /\ cur \notin cut)
      <4>1. \A d \in Deliveries : Evaluated(d)' <=> Evaluated(d)
        BY <1>0, <3>1, <3>3 DEF Evaluated
      <4>2. EvaluatedMessages' = EvaluatedMessages
        BY <4>1 DEF EvaluatedMessages, Deliveries
      <4> QED
        BY <2>0, <4>2 DEF Delivery!deliveryVars
    <3> QED
      BY <3>2, <3>3
  <2> QED
    BY <1>12, <2>1, <2>2, <2>3 DEF ServeBus, Bus!Serve
<1> QED
  BY <1>2, <1>4, <1>5, <1>6, <1>7, <1>8, <1>9, <1>10, <1>11, <1>12
     DEF Next, Listen, Delivery!Next

\* Intake implements at-least-once evaluation of the published messages.
THEOREM IntakeDelivers == Spec => AtLeastOnce
<1>1. Init => Delivery!Init /\ PublishedOK
  BY DEF Init, Bus!Init, Delivery!Init, PublishedOK, EvaluatedMessages, Evaluated, Deliveries,
     BusEvents
<1>2. IntakeTypeOK /\ PublishedOK /\ [Next]_vars => PublishedOK'
  BY PublishedInductive
<1>3. IntakeTypeOK /\ DeliveryOK /\ DeliveryOK' /\ PublishedOK /\ [Next]_vars
        => [Delivery!Next]_(Delivery!deliveryVars)
  BY StepsDeliver
<1> QED
  BY <1>1, <1>2, <1>3, DeliveryInvariant, PTL DEF Spec, AtLeastOnce, Delivery!Spec

-----------------------------------------------------------------------------
\* Events that are not on their way to the scheduler yet, or only wait for it,
\* have no pipeline and have lost none, in this process or an earlier one.
NewOK ==
  /\ \A e \in BusEvents : OnBus(e) => e \notin made \union cut
  /\ \A d \in Deliveries : receipts[d[1]] < d[2] \/ d \in batch => d \notin made
  /\ \A q \in Requests :
       http[q] = "idle" => q \notin made \union cut /\ q # cur /\ ~OnBus(q)

LEMMA NewInductive ==
  ASSUME IntakeTypeOK, DeliveryOK, NewOK, [Next]_vars
  PROVE  NewOK'
<1> USE DEF IntakeTypeOK, queueVars, listenerVars, httpVars, intakeVars, busVars
<1>0. /\ Deliveries \subseteq BusEvents /\ Requests \subseteq BusEvents /\ None \notin BusEvents
      /\ batch \subseteq Deliveries /\ \A d \in Deliveries : d \notin Requests
      /\ \A d \in Deliveries : d[1] \in Messages /\ d[2] \in 1..MaxReceives
  BY DEF BusEvents, ClientTypeOK, Deliveries
<1>1. ASSUME UNCHANGED <<sendq, cur, made, cut, receipts, http>>, batch' \subseteq batch
      PROVE  NewOK'
  BY <1>0, <1>1 DEF NewOK, OnBus
<1>2. ASSUME NEW m \in Messages, Publish(m) \/ VisibilityExpires(m) PROVE NewOK'
  BY <1>1, <1>2 DEF Publish, VisibilityExpires
<1>3. CASE Poll \/ ListenerStop \/ ReceiveNothing \/ BackoffEnds \/ BatchEnds \/ Enqueued
  BY <1>1, <1>3 DEF Poll, ListenerStop, ReceiveNothing, BackoffEnds, BatchEnds, Enqueued
<1>4. ASSUME NEW S \in SUBSET Visible, HandOut(S),
             UNCHANGED <<sendq, cur, made, cut, http>>,
             batch' = batch \/ batch' = {<<m, receipts'[m]>> : m \in S}
      PROVE  NewOK'
  <2>1. /\ \A m \in Messages :
             receipts'[m] = IF m \in S THEN receipts[m] + 1 ELSE receipts[m]
        /\ \A m \in S : m \in Messages /\ receipts'[m] \in 1..MaxReceives
        /\ \A m \in Messages : receipts[m] \in 0..MaxReceives
    BY <1>4, HandOutTypes DEF ClientTypeOK
  <2>2. \A d \in Deliveries : receipts'[d[1]] < d[2] => receipts[d[1]] < d[2]
    BY <1>0, <2>1
  <2>3. \A m \in S : /\ <<m, receipts'[m]>> \in Deliveries
                      /\ receipts[<<m, receipts'[m]>>[1]] < <<m, receipts'[m]>>[2]
    BY <2>1 DEF Deliveries
  <2>4. \A d \in batch' : d \in Deliveries /\ d \notin made
    BY <1>0, <1>4, <2>3 DEF NewOK
  <2> QED
    BY <1>4, <2>2, <2>4 DEF NewOK, OnBus
<1>5. ASSUME NEW S \in SUBSET Visible, Receive(S) \/ ReceiveFails(S) PROVE NewOK'
  BY <1>4, <1>5 DEF Receive, ReceiveFails
<1>6. ASSUME NEW d \in batch, ParseFails(d) PROVE NewOK'
  BY <1>1, <1>6 DEF ParseFails
<1>7. ASSUME NEW d \in batch, Parse(d) PROVE NewOK'
  <2>1. /\ d \in Deliveries /\ d \in BusEvents /\ Bus!Enqueue(d) /\ batch' = batch \ {d}
        /\ UNCHANGED <<cur, made, cut, receipts, http>>
    BY <1>0, <1>7 DEF Parse, Bus!Enqueue
  <2>2. \A x \in BusEvents : OnBus(x)' <=> OnBus(x) \/ x = d
    BY <2>1, EnqueueAdds
  <2>3. d \notin made \union cut
    BY <2>1 DEF NewOK, DeliveryOK, FreshOK, Unused
  <2> QED
    BY <1>0, <2>1, <2>2, <2>3 DEF NewOK
<1>8. ASSUME NEW d \in waiters, KeepMessage(d) \/ DeleteFails(d) \/ DeleteMessage(d)
      PROVE  NewOK'
  BY <1>1, <1>8 DEF KeepMessage, DeleteFails, DeleteMessage
<1>9. ASSUME NEW q \in Requests, Upload(q) PROVE NewOK'
  <2>1. /\ q \in BusEvents /\ Bus!Enqueue(q) /\ http[q] = "idle"
        /\ http' = [http EXCEPT ![q] = "sending"]
        /\ UNCHANGED <<cur, made, cut, receipts, batch>>
    BY <1>0, <1>9 DEF Upload, Bus!Enqueue
  <2>2. \A x \in BusEvents : OnBus(x)' <=> OnBus(x) \/ x = q
    BY <2>1, EnqueueAdds
  <2>3. \A r \in Requests : http'[r] = "idle" => http[r] = "idle" /\ r # q
    BY <2>1 DEF ClientTypeOK
  <2> QED
    BY <1>0, <2>1, <2>2, <2>3 DEF NewOK
<1>10. ASSUME NEW q \in Requests, Refuse(q) \/ Reply(q) PROVE NewOK'
  <2>1. \A r \in Requests : http'[r] = "idle" => http[r] = "idle"
    BY <1>10 DEF Refuse, Reply, ClientTypeOK
  <2> QED
    BY <1>10, <2>1 DEF Refuse, Reply, NewOK, OnBus
<1>11. CASE CloseServer \/ ListenFails \/ UNCHANGED vars
  BY <1>1, <1>11 DEF CloseServer, ListenFails, vars
<1>12. CASE Cancel
  BY <1>1, <1>12 DEF Cancel, Bus!Cancel
<1>13. CASE ServeBus
  <2>0. UNCHANGED <<receipts, batch, http>>
    BY <1>13 DEF ServeBus
  <2>1. CASE Bus!Take
    <3>1. \A x \in BusEvents : OnBus(x) <=> OnBus(x)' \/ x = cur'
      BY <2>1, TakeRemoves
    <3> QED
      BY <1>0, <2>0, <2>1, <3>1 DEF NewOK, Bus!Take
  <2>2. CASE Bus!Create \/ Bus!Interrupt
    <3>1. /\ cur \in BusEvents /\ UNCHANGED <<sendq, cur>>
          /\ made' \subseteq made \union {cur} /\ cut' \subseteq cut \union {cur}
      BY <2>2 DEF Bus!Create, Bus!Interrupt, BusTypeOK
    <3>2. ~OnBus(cur) /\ \A x \in BusEvents : OnBus(x)' <=> OnBus(x)
      BY <3>1 DEF BusOK, OnBus
    <3>3. \A d \in Deliveries : receipts[d[1]] < d[2] \/ d \in batch => d # cur
      BY DEF DeliveryOK, FreshOK, Unused
    <3> QED
      BY <1>0, <2>0, <3>1, <3>2, <3>3 DEF NewOK
  <2>3. ASSUME NEW o \in {"nil", "error"}, Bus!Answer(o) PROVE NewOK'
    BY <1>0, <2>0, <2>3 DEF Bus!Answer, NewOK, OnBus
  <2>4. CASE Bus!Wake \/ Bus!Stop
    BY <1>1, <2>0, <2>4 DEF Bus!Wake, Bus!Stop
  <2> QED
    BY <1>13, <2>1, <2>2, <2>3, <2>4 DEF ServeBus, Bus!Serve
<1>14. CASE Restart
  <2>1. /\ Len(sendq') = 0 /\ cur' = None /\ batch' = {} /\ UNCHANGED <<made, cut, receipts>>
        /\ http' = [q \in Requests |-> IF http[q] = "sending" THEN "lost" ELSE http[q]]
    BY <1>14 DEF Restart
  <2>2. \A q \in Requests : http'[q] = "idle" => http[q] = "idle"
    BY <2>1
  <2> QED
    BY <1>0, <2>1, <2>2 DEF NewOK, OnBus
<1> QED
  BY <1>2, <1>3, <1>5, <1>6, <1>7, <1>8, <1>9, <1>10, <1>11, <1>12, <1>13, <1>14
     DEF Next, Listen

LEMMA NewInit == Init => NewOK
<1> SUFFICES ASSUME Init PROVE NewOK
  OBVIOUS
<1>1. Len(sendq) = 0 /\ cur = None /\ made = {} /\ cut = {} /\ Requests \subseteq BusEvents
  BY DEF Init, Bus!Init, BusEvents
<1> QED
  BY <1>1 DEF NewOK, OnBus

-----------------------------------------------------------------------------
\* An upload whose handler is blocked is on the bus, or the scheduler has
\* received it and the handler has yet to notice.
UploadOK ==
  \A q \in Requests : http[q] = "sending" => OnBus(q) \/ q = cur \/ outcome[q] # "none"

LEMMA UploadInductive ==
  ASSUME IntakeTypeOK, UploadOK, [Next]_vars
  PROVE  UploadOK'
<1> USE DEF IntakeTypeOK, queueVars, listenerVars, httpVars, intakeVars, busVars
<1>0. Requests \subseteq BusEvents /\ None \notin BusEvents
  BY DEF BusEvents
<1>1. ASSUME UNCHANGED <<sendq, cur, outcome>>,
             \A q \in Requests : http'[q] = "sending" => http[q] = "sending"
      PROVE  UploadOK'
  BY <1>1 DEF UploadOK, OnBus
<1>2. ASSUME NEW m \in Messages, Publish(m) \/ VisibilityExpires(m) PROVE UploadOK'
  BY <1>1, <1>2 DEF Publish, VisibilityExpires
<1>3. CASE Poll \/ ListenerStop \/ ReceiveNothing \/ BackoffEnds \/ BatchEnds \/ Enqueued
  BY <1>1, <1>3 DEF Poll, ListenerStop, ReceiveNothing, BackoffEnds, BatchEnds, Enqueued
<1>4. ASSUME NEW S \in SUBSET Visible, Receive(S) \/ ReceiveFails(S) PROVE UploadOK'
  BY <1>1, <1>4 DEF Receive, ReceiveFails
<1>5. ASSUME NEW d \in batch, ParseFails(d) PROVE UploadOK'
  BY <1>1, <1>5 DEF ParseFails
<1>6. ASSUME NEW e \in BusEvents, Bus!Enqueue(e),
             \A q \in Requests : http'[q] = "sending" => http[q] = "sending" \/ q = e
      PROVE  UploadOK'
  <2>1. \A x \in BusEvents : OnBus(x)' <=> OnBus(x) \/ x = e
    BY <1>6, EnqueueAdds
  <2>2. UNCHANGED <<cur, outcome>>
    BY <1>6 DEF Bus!Enqueue
  <2> QED
    BY <1>0, <1>6, <2>1, <2>2 DEF UploadOK
<1>7. ASSUME NEW d \in batch, Parse(d) PROVE UploadOK'
  <2>1. d \in BusEvents /\ Bus!Enqueue(d) /\ http' = http
    BY <1>7 DEF Parse, ClientTypeOK, BusEvents
  <2> QED
    BY <1>6, <2>1
<1>8. ASSUME NEW d \in waiters, KeepMessage(d) \/ DeleteFails(d) \/ DeleteMessage(d)
      PROVE  UploadOK'
  BY <1>1, <1>8 DEF KeepMessage, DeleteFails, DeleteMessage
<1>9. ASSUME NEW q \in Requests, Upload(q) PROVE UploadOK'
  <2>1. q \in BusEvents /\ Bus!Enqueue(q)
    BY <1>0, <1>9 DEF Upload
  <2>2. \A r \in Requests : http'[r] = "sending" => http[r] = "sending" \/ r = q
    BY <1>9 DEF Upload, ClientTypeOK
  <2> QED
    BY <1>6, <2>1, <2>2
<1>10. ASSUME NEW q \in Requests, Refuse(q) \/ Reply(q) PROVE UploadOK'
  <2>1. \A r \in Requests : http'[r] = "sending" => http[r] = "sending"
    BY <1>10 DEF Refuse, Reply, ClientTypeOK
  <2> QED
    BY <1>1, <1>10, <2>1 DEF Refuse, Reply
<1>11. CASE CloseServer \/ ListenFails \/ UNCHANGED vars
  BY <1>1, <1>11 DEF CloseServer, ListenFails, vars
<1>12. CASE Cancel
  BY <1>1, <1>12 DEF Cancel, Bus!Cancel
<1>13. CASE ServeBus
  <2>0. http' = http
    BY <1>13 DEF ServeBus
  <2>1. CASE Bus!Take
    <3>1. \A x \in BusEvents : OnBus(x) <=> OnBus(x)' \/ x = cur'
      BY <2>1, TakeRemoves
    <3>2. cur = None /\ outcome' = outcome
      BY <2>1 DEF Bus!Take, BusTypeOK
    <3> QED
      BY <1>0, <2>0, <3>1, <3>2 DEF UploadOK
  <2>2. ASSUME NEW o \in {"nil", "error"}, Bus!Answer(o) PROVE UploadOK'
    <3>1. /\ cur \in BusEvents /\ outcome'[cur] = o /\ sendq' = sendq
          /\ \A e \in BusEvents : e # cur => outcome'[e] = outcome[e]
      BY <2>2 DEF Bus!Answer, BusTypeOK
    <3> QED
      BY <1>0, <2>0, <3>1 DEF UploadOK, OnBus
  <2>3. CASE Bus!Create \/ Bus!Interrupt \/ Bus!Wake \/ Bus!Stop
    BY <1>1, <2>0, <2>3 DEF Bus!Create, Bus!Interrupt, Bus!Wake, Bus!Stop
  <2> QED
    BY <1>13, <2>1, <2>2, <2>3 DEF ServeBus, Bus!Serve
<1>14. CASE Restart
  <2>1. http' = [q \in Requests |-> IF http[q] = "sending" THEN "lost" ELSE http[q]]
    BY <1>14 DEF Restart
  <2> QED
    BY <2>1 DEF UploadOK
<1> QED
  BY <1>2, <1>3, <1>4, <1>5, <1>7, <1>8, <1>9, <1>10, <1>11, <1>12, <1>13, <1>14
     DEF Next, Listen

\* Only Reply answers a request with 200.
LEMMA OnlyReplyAcknowledges ==
  ASSUME IntakeTypeOK, [Next]_vars, NEW q \in Requests, http[q] # "ok", http'[q] = "ok"
  PROVE  Reply(q)
<1> USE DEF IntakeTypeOK, ClientTypeOK, queueVars, listenerVars, httpVars, intakeVars
<1>1. ASSUME http' = http PROVE FALSE
  BY <1>1
<1>2. ASSUME NEW r \in Requests, Refuse(r) \/ Upload(r) PROVE FALSE
  BY <1>2 DEF Refuse, Upload
<1>3. ASSUME NEW r \in Requests, Reply(r) PROVE r = q
  BY <1>3 DEF Reply
<1>4. CASE Restart
  BY <1>4 DEF Restart
<1>5. ASSUME NEW m \in Messages, Publish(m) \/ VisibilityExpires(m) PROVE FALSE
  BY <1>1, <1>5 DEF Publish, VisibilityExpires
<1>6. CASE Poll \/ ListenerStop \/ ReceiveNothing \/ BackoffEnds \/ BatchEnds \/ Enqueued
  BY <1>1, <1>6 DEF Poll, ListenerStop, ReceiveNothing, BackoffEnds, BatchEnds, Enqueued
<1>7. ASSUME NEW S \in SUBSET Visible, Receive(S) \/ ReceiveFails(S) PROVE FALSE
  BY <1>1, <1>7 DEF Receive, ReceiveFails
<1>8. ASSUME NEW d \in batch, Parse(d) \/ ParseFails(d) PROVE FALSE
  BY <1>1, <1>8 DEF Parse, ParseFails
<1>9. ASSUME NEW d \in waiters, KeepMessage(d) \/ DeleteFails(d) \/ DeleteMessage(d)
      PROVE  FALSE
  BY <1>1, <1>9 DEF KeepMessage, DeleteFails, DeleteMessage
<1>10. CASE CloseServer \/ ListenFails \/ ServeBus \/ Cancel \/ UNCHANGED vars
  BY <1>1, <1>10 DEF CloseServer, ListenFails, ServeBus, Cancel, vars
<1> QED
  BY <1>2, <1>3, <1>4, <1>5, <1>6, <1>7, <1>8, <1>9, <1>10 DEF Next, Listen

\* The 200 of an upload is sent after the scheduler has received its reports:
\* a shutdown, in which the scheduler finishes the event it has, cannot lose
\* them any more.
THEOREM UploadsAreReceived == Spec => AcknowledgedIsReceived
<1>1. Init => UploadOK
  BY DEF Init, UploadOK
<1>2. IntakeTypeOK /\ UploadOK /\ [Next]_vars => UploadOK'
  BY UploadInductive
<1>3. IntakeTypeOK /\ UploadOK /\ [Next]_vars
        => [\A q \in Requests :
              http[q] # "ok" /\ http'[q] = "ok" => q = cur \/ outcome[q] # "none"]_vars
  <2> SUFFICES ASSUME IntakeTypeOK, UploadOK, [Next]_vars,
                      NEW q \in Requests, http[q] # "ok", http'[q] = "ok"
               PROVE  q = cur \/ outcome[q] # "none"
    OBVIOUS
  <2>1. Reply(q)
    BY OnlyReplyAcknowledges
  <2> QED
    BY <2>1 DEF Reply, EnqueueReturns, UploadOK
<1> QED
  BY <1>1, <1>2, <1>3, BusTypeCorrect, PTL DEF Spec, AcknowledgedIsReceived, IntakeTypeOK
=============================================================================
