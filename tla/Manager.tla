------------------------------ MODULE Manager ------------------------------
(***************************************************************************)
(* The manager as a whole: the SQS listener with its goroutines and the    *)
(* HTTP handlers (module Intake) in front of the scheduler itself (module  *)
(* Scheduler), instead of the service it is shown to implement, in one     *)
(* process that is shut down, dies and is started again.                   *)
(*                                                                         *)
(* The bus is shared: a client and the scheduler's channel make one step   *)
(* when an event is put on it.  A restart loses the goroutines of both,    *)
(* and keeps the queue and the cluster.                                    *)
(***************************************************************************)
EXTENDS Scheduler

CONSTANTS Messages, Requests, BatchSize, MaxReceives, MaxRestarts

VARIABLES msg, receipts, listener, batch, sending, waiters, serving, http, restarts

clientVars ==
  <<msg, receipts, listener, batch, sending, waiters, serving, http, restarts>>

\* The clients see of the scheduler what EventService says of it.
Clients == INSTANCE Intake WITH
  sched   <- IF phase \in Processing THEN "busy" ELSE phase,
  outcome <- [e \in Events |-> Outcome(e)]

\* What the clients put on the bus is all there is on it.
ASSUME ManagerAssumption ==
  /\ Events = Clients!BusEvents
  /\ Requests \intersect Clients!Deliveries = {}
  /\ BatchSize \in Nat
  /\ MaxReceives \in Nat
  /\ MaxRestarts \in Nat

-----------------------------------------------------------------------------
MInit == Init /\ Clients!Init

\* The goroutine of the scheduler, the cluster and the shutdown.
SchedulerStep ==
  /\ Serve \/ Cluster \/ Cancel
  /\ UNCHANGED clientVars

\* A parsed message, or an upload, goes on the bus.
PutOnBus ==
  \/ \E d \in batch : Enqueue(d) /\ Clients!Parse(d)
  \/ \E q \in Requests : Enqueue(q) /\ Clients!Upload(q)

\* The steps of the clients and of the queue that leave the bus alone.
ClientStep ==
  /\ UNCHANGED vars
  /\ \/ \E m \in Messages : Clients!Publish(m) \/ Clients!VisibilityExpires(m)
     \/ Clients!Poll
     \/ Clients!ListenerStop
     \/ Clients!ReceiveNothing
     \/ \E S \in SUBSET Clients!Visible : Clients!Receive(S)
     \/ \E S \in SUBSET Clients!Visible : Clients!ReceiveFails(S)
     \/ Clients!BackoffEnds
     \/ \E d \in batch : Clients!ParseFails(d)
     \/ Clients!Enqueued
     \/ Clients!BatchEnds
     \/ \E d \in waiters : Clients!Settle(d)
     \/ \E q \in Requests : Clients!Refuse(q) \/ Clients!Reply(q)
     \/ Clients!CloseServer
     \/ Clients!ListenFails

\* Variant: the pipelines that were not created yet are kept for later.
KeepGenerated ==
  /\ sendq' = <<>>
  /\ phase' = "select"
  /\ cur' = None
  /\ pending' = 0
  /\ snapshot' = {}
  /\ left' = {}
  /\ err' = "nil"
  /\ UNCHANGED generated

\* Nothing of the event being processed outlives the process but the
\* pipelines it has created.
ForgetEvent ==
  /\ sendq' = <<>>
  /\ phase' = "select"
  /\ cur' = None
  /\ pending' = 0
  /\ snapshot' = {}
  /\ left' = {}
  /\ generated' = <<>>
  /\ err' = "nil"

\* The new process waits for its informer caches before it starts anything.
MRestart ==
  /\ ForgetEvent
  /\ ctxDone' = FALSE
  /\ cached' = active
  /\ UNCHANGED <<result, waiting, active, history>>
  /\ Clients!Restart

MNext ==
  \/ SchedulerStep
  \/ PutOnBus
  \/ ClientStep
  \/ MRestart

mvars == <<vars, clientVars>>

MSpec == MInit /\ [][MNext]_mvars

-----------------------------------------------------------------------------
\* The types of both sides.
MTypeOK == TypeOK /\ Clients!TypeOK

\* The manager is an Intake: what the clients do in front of the scheduler is
\* what they do in front of the service.
ServesClients == Clients!Spec

\* End to end: every published message stays on the queue until the scheduler
\* has evaluated all of its reports and lost no pipeline to a shutdown.
Delivers == Clients!AtLeastOnce
=============================================================================
