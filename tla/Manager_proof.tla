--------------------------- MODULE Manager_proof ---------------------------
(***************************************************************************)
(* Proofs about the manager as a whole, for every value of the constants:  *)
(* what was proved of the scheduler and of its clients apart holds of the  *)
(* two together, and through restarts.                                     *)
(*                                                                         *)
(* The two proofs lean on each other.  The clients are an Intake only if   *)
(* the scheduler serves them as EventService says, which needs AttemptOK:  *)
(* the event just taken has no pipeline yet.  In one process that follows  *)
(* from its empty result channel; after a crash it does not, since the     *)
(* pipelines of the event that was being processed are still there and its *)
(* channel is empty.  There it follows from NewOK, the clients never put   *)
(* an event on the bus again, which is an invariant of an Intake.          *)
(***************************************************************************)
EXTENDS Manager, Scheduler_proof

\* The lemmas about the clients, with the same substitution as Clients.
ClientsP == INSTANCE Intake_proof WITH
  sched   <- IF phase \in Processing THEN "busy" ELSE phase,
  outcome <- [e \in Events |-> Outcome(e)]

\* What Intake assumes of its constants.
LEMMA InstanceAssumption ==
  /\ None \notin ClientsP!BusEvents
  /\ Requests \intersect ClientsP!Deliveries = {}
  /\ BatchSize \in Nat
  /\ MaxReceives \in Nat
  /\ MaxRestarts \in Nat
BY ManagerAssumption, ConstantsAssumption
   DEF ManagerAssumption, ConstantsAssumption, Clients!BusEvents, ClientsP!BusEvents,
       Clients!Deliveries, ClientsP!Deliveries

LEMMA SameEvents == Events = ClientsP!BusEvents
BY ManagerAssumption
   DEF ManagerAssumption, Clients!BusEvents, ClientsP!BusEvents, Clients!Deliveries,
       ClientsP!Deliveries

-----------------------------------------------------------------------------
\* An event refused with an error has no pipeline, whatever was made before.
LEMMA RejectedInductive ==
  ASSUME TypeOK, BusOK, AttemptOK, RejectedLeavesNothing, [Next]_vars
  PROVE  RejectedLeavesNothing'
<1> SUFFICES ASSUME NEW e \in Events, result'[e] = <<"error">>
             PROVE  e \notin made' \union cut'
  BY DEF RejectedLeavesNothing
<1>1. CASE UNCHANGED <<made, cut, result>> /\ (cur' = cur \/ cur = None)
  BY <1>1 DEF RejectedLeavesNothing
<1>2. CASE /\ cur \in Events /\ result[cur] = <<>> /\ cur' = cur /\ result' = result
           /\ made' \union cut' \subseteq made \union cut \union {cur}
  <2>1. Len(<<>>) # Len(<<"error">>)
    OBVIOUS
  <2>2. e # cur
    BY <1>2, <2>1
  <2> QED
    BY <1>2, <2>2 DEF RejectedLeavesNothing
<1>3. CASE /\ phase = "answer" /\ cur \in Events /\ UNCHANGED <<made, cut>>
           /\ result' = [result EXCEPT ![cur] = <<err>>]
  <2>1. CASE e = cur
    <3>1. err = "error"
      BY <1>3, <2>1 DEF TypeOK
    <3> QED
      BY <1>3, <2>1, <3>1 DEF AttemptOK
  <2>2. CASE e # cur
    BY <1>3, <2>2 DEF RejectedLeavesNothing, TypeOK
  <2> QED
    BY <2>1, <2>2
<1> QED
  BY <1>1, <1>2, <1>3, StepsTry

\* A step of the manager is a step of the scheduler, or a restart.
LEMMA SchedulerSteps ==
  ASSUME [MNext]_mvars, ClientsP!ClientTypeOK
  PROVE  [Next]_vars \/ MRestart
<1>1. CASE SchedulerStep
  BY <1>1 DEF SchedulerStep, Next
<1>2. CASE PutOnBus
  <2>1. batch \subseteq Events /\ Requests \subseteq Events
    BY SameEvents DEF ClientsP!ClientTypeOK, ClientsP!BusEvents
  <2> QED
    BY <1>2, <2>1 DEF PutOnBus, Next
<1>3. CASE ClientStep \/ UNCHANGED mvars
  BY <1>3 DEF ClientStep, mvars
<1> QED
  BY <1>1, <1>2, <1>3 DEF MNext

\* What a restart does to the scheduler: its channel and its goroutine are
\* new, the answers it gave and the pipelines it created are not undone.
LEMMA RestartForgets ==
  ASSUME TypeOK, MRestart
  PROVE  /\ Len(sendq') = 0 /\ cur' = None
         /\ UNCHANGED <<result, made, cut, waiting, active, lag>>
         /\ TypeOK' /\ BusOK' /\ AttemptOK'
<1>1. /\ sendq' = <<>> /\ cur' = None /\ phase' = "select" /\ err' = "nil"
      /\ pending' = 0 /\ left' = {} /\ snapshot' = {} /\ generated' = <<>>
      /\ cached' = active /\ ctxDone' = FALSE
      /\ UNCHANGED <<result, made, cut, waiting, active, lag>>
  BY DEF MRestart, ForgetEvent, history
<1>2. sendq' \in Seq(Events) /\ Len(sendq') = 0 /\ generated' \in Seq(Policies)
  BY <1>1
<1>3. TypeOK'
  <2>1. pending' \in 0..MaxReports /\ cur' \notin Events /\ phase' \notin Processing
    BY <1>1, ConstantsAssumption DEF ConstantsAssumption, Processing
  <2>2. phase' \in Phases /\ cached' \in Nat /\ left' \in SUBSET Policies
        /\ snapshot' \in SUBSET Policies
    BY <1>1 DEF TypeOK, Phases
  <2> QED
    BY <1>1, <1>2, <2>1, <2>2 DEF TypeOK
<1>4. BusOK'
  BY <1>1, <1>2, ConstantsAssumption DEF BusOK, ConstantsAssumption
<1>5. AttemptOK'
  BY <1>1, ConstantsAssumption, <1>3 DEF AttemptOK, TypeOK, ConstantsAssumption
<1> QED
  BY <1>1, <1>2, <1>3, <1>4, <1>5

-----------------------------------------------------------------------------
\* What the scheduler does is what the service of the clients does.
LEMMA SameService ==
  /\ Service!Serve => Clients!Bus!Serve
  /\ Service!Cancel => Clients!Bus!Cancel
  /\ UNCHANGED Service!busVars => UNCHANGED Clients!busVars
BY DEF Service!Serve, Service!Take, Service!Create, Service!Interrupt, Service!Answer,
       Service!Wake, Service!Stop, Service!Cancel, Service!busVars,
       Clients!Bus!Serve, Clients!Bus!Take, Clients!Bus!Create, Clients!Bus!Interrupt,
       Clients!Bus!Answer, Clients!Bus!Wake, Clients!Bus!Stop, Clients!Bus!Cancel,
       Clients!busVars

\* Every step of the manager is a step of its clients in front of the service.
LEMMA ClientsStep ==
  ASSUME TypeOK, BusOK, AttemptOK, [MNext]_mvars
  PROVE  [Clients!Next]_(Clients!vars)
<1>1. CASE SchedulerStep
  <2>1. Service!Serve \/ Service!Cancel \/ UNCHANGED Service!busVars
    BY <1>1, GoroutineServes DEF SchedulerStep
  <2>2. Clients!Bus!Serve \/ Clients!Bus!Cancel \/ UNCHANGED Clients!busVars
    BY <2>1, SameService
  <2>3. UNCHANGED Clients!intakeVars
    BY <1>1 DEF SchedulerStep, clientVars, Clients!intakeVars, Clients!queueVars,
       Clients!listenerVars, Clients!httpVars
  <2> QED
    BY <2>2, <2>3 DEF Clients!Next, Clients!ServeBus, Clients!Cancel, Clients!vars
<1>2. CASE PutOnBus
  BY <1>2 DEF PutOnBus, Clients!Next, Clients!Listen
<1>3. CASE ClientStep
  BY <1>3 DEF ClientStep, Clients!Next, Clients!Listen, Clients!Settle
<1>4. CASE MRestart
  BY <1>4 DEF MRestart, Clients!Next
<1>5. CASE UNCHANGED mvars
  BY <1>5 DEF mvars, vars, busVars, history, clientVars, Clients!vars, Clients!busVars,
     Clients!intakeVars, Clients!queueVars, Clients!listenerVars, Clients!httpVars, Outcome
<1> QED
  BY <1>1, <1>2, <1>3, <1>4, <1>5 DEF MNext

\* The steps of Clients are the steps the lemmas of Intake_proof are about.
LEMMA SameSteps == [Clients!Next]_(Clients!vars) => [ClientsP!Next]_(ClientsP!vars)
<1>1. Clients!ServeBus => ClientsP!ServeBus
  BY DEF Clients!ServeBus, ClientsP!ServeBus, Clients!Bus!Serve, ClientsP!Bus!Serve,
         Clients!Bus!Take, ClientsP!Bus!Take, Clients!Bus!Create, ClientsP!Bus!Create,
         Clients!Bus!Interrupt, ClientsP!Bus!Interrupt, Clients!Bus!Answer,
         ClientsP!Bus!Answer, Clients!Bus!Wake, ClientsP!Bus!Wake, Clients!Bus!Stop,
         ClientsP!Bus!Stop, Clients!intakeVars, ClientsP!intakeVars, Clients!queueVars,
         ClientsP!queueVars, Clients!listenerVars, ClientsP!listenerVars,
         Clients!httpVars, ClientsP!httpVars
<1>2. Clients!Cancel => ClientsP!Cancel
  BY DEF Clients!Cancel, ClientsP!Cancel, Clients!Bus!Cancel, ClientsP!Bus!Cancel,
         Clients!intakeVars, ClientsP!intakeVars, Clients!queueVars,
         ClientsP!queueVars, Clients!listenerVars, ClientsP!listenerVars,
         Clients!httpVars, ClientsP!httpVars
<1>3. Clients!Restart => ClientsP!Restart
  BY DEF Clients!Restart, ClientsP!Restart, Clients!queueVars, ClientsP!queueVars
<1>4. ASSUME NEW m \in Messages, Clients!Publish(m) \/ Clients!VisibilityExpires(m)
      PROVE  ClientsP!Publish(m) \/ ClientsP!VisibilityExpires(m)
  BY <1>4 DEF Clients!Publish, ClientsP!Publish, Clients!VisibilityExpires,
         ClientsP!VisibilityExpires, Clients!busVars, ClientsP!busVars,
         Clients!queueVars, ClientsP!queueVars, Clients!listenerVars,
         ClientsP!listenerVars, Clients!httpVars, ClientsP!httpVars
<1>5. \/ Clients!Poll \/ Clients!ListenerStop \/ Clients!ReceiveNothing \/ Clients!BackoffEnds
      \/ Clients!Enqueued \/ Clients!BatchEnds
      => ClientsP!Listen
  BY DEF Clients!Poll, ClientsP!Poll, Clients!ListenerStop, ClientsP!ListenerStop,
         Clients!ReceiveNothing, ClientsP!ReceiveNothing, Clients!BackoffEnds,
         ClientsP!BackoffEnds, Clients!Enqueued, ClientsP!Enqueued, Clients!BatchEnds,
         ClientsP!BatchEnds, Clients!EnqueueReturns, ClientsP!EnqueueReturns,
         Clients!OnBus, ClientsP!OnBus, Clients!Connected, ClientsP!Connected,
         Clients!busVars, ClientsP!busVars, Clients!queueVars, ClientsP!queueVars,
         Clients!listenerVars, ClientsP!listenerVars, Clients!httpVars,
         ClientsP!httpVars,
         ClientsP!Listen
<1>6. Clients!Visible = ClientsP!Visible
  BY DEF Clients!Visible, ClientsP!Visible
<1>7. ASSUME NEW S, Clients!Receive(S) \/ Clients!ReceiveFails(S)
      PROVE  ClientsP!Receive(S) \/ ClientsP!ReceiveFails(S)
  <2>1. Clients!HandOut(S) => ClientsP!HandOut(S)
    BY DEF Clients!HandOut, ClientsP!HandOut
  <2>2. Clients!Cardinality(S) = ClientsP!Cardinality(S)
    BY DEF Clients!Cardinality, ClientsP!Cardinality
  <2>3. CASE Clients!Receive(S)
    BY <2>1, <2>2, <2>3
       DEF Clients!Receive, ClientsP!Receive, Clients!Connected, ClientsP!Connected,
           Clients!busVars, ClientsP!busVars, Clients!httpVars, ClientsP!httpVars
  <2>4. CASE Clients!ReceiveFails(S)
    BY <2>1, <2>2, <2>4
       DEF Clients!ReceiveFails, ClientsP!ReceiveFails,
           Clients!busVars, ClientsP!busVars, Clients!httpVars, ClientsP!httpVars
  <2> QED
    BY <1>7, <2>3, <2>4
<1>8. ASSUME NEW d, Clients!ParseFails(d) \/ Clients!Parse(d)
      PROVE  ClientsP!ParseFails(d) \/ ClientsP!Parse(d)
  BY <1>8 DEF Clients!ParseFails, ClientsP!ParseFails, Clients!Parse, ClientsP!Parse,
         Clients!Bus!Enqueue, ClientsP!Bus!Enqueue, Clients!Bus!Fresh,
         ClientsP!Bus!Fresh, Clients!busVars, ClientsP!busVars, Clients!queueVars,
         ClientsP!queueVars, Clients!listenerVars, ClientsP!listenerVars,
         Clients!httpVars, ClientsP!httpVars
<1>9. Clients!Listen => ClientsP!Listen
  BY <1>5, <1>6, <1>7, <1>8 DEF Clients!Listen, ClientsP!Listen
<1>10. ASSUME NEW d, Clients!KeepMessage(d) \/ Clients!DeleteMessage(d) \/ Clients!DeleteFails(d)
       PROVE  ClientsP!KeepMessage(d) \/ ClientsP!DeleteMessage(d) \/ ClientsP!DeleteFails(d)
  BY <1>10 DEF Clients!KeepMessage, ClientsP!KeepMessage, Clients!DeleteMessage,
         ClientsP!DeleteMessage, Clients!DeleteFails, ClientsP!DeleteFails,
         Clients!Accepted, ClientsP!Accepted, Clients!Connected, ClientsP!Connected,
         Clients!busVars, ClientsP!busVars, Clients!queueVars, ClientsP!queueVars,
         Clients!listenerVars, ClientsP!listenerVars, Clients!httpVars,
         ClientsP!httpVars
<1>11. ASSUME NEW q \in Requests, Clients!Refuse(q) \/ Clients!Upload(q) \/ Clients!Reply(q)
       PROVE  ClientsP!Refuse(q) \/ ClientsP!Upload(q) \/ ClientsP!Reply(q)
  BY <1>11 DEF Clients!Refuse, ClientsP!Refuse, Clients!Upload, ClientsP!Upload,
         Clients!Reply, ClientsP!Reply, Clients!Bus!Enqueue, ClientsP!Bus!Enqueue,
         Clients!Bus!Fresh, ClientsP!Bus!Fresh, Clients!EnqueueReturns,
         ClientsP!EnqueueReturns, Clients!OnBus, ClientsP!OnBus, Clients!busVars,
         ClientsP!busVars, Clients!queueVars, ClientsP!queueVars, Clients!listenerVars,
         ClientsP!listenerVars, Clients!httpVars, ClientsP!httpVars
<1>12. Clients!CloseServer \/ Clients!ListenFails => ClientsP!CloseServer \/ ClientsP!ListenFails
  BY DEF Clients!CloseServer, ClientsP!CloseServer, Clients!ListenFails,
         ClientsP!ListenFails, Clients!busVars, ClientsP!busVars, Clients!queueVars,
         ClientsP!queueVars, Clients!listenerVars, ClientsP!listenerVars,
         Clients!httpVars, ClientsP!httpVars
<1>13. UNCHANGED Clients!vars => UNCHANGED ClientsP!vars
  BY DEF Clients!vars, ClientsP!vars, Clients!intakeVars, ClientsP!intakeVars,
         Clients!busVars, ClientsP!busVars, Clients!queueVars, ClientsP!queueVars,
         Clients!listenerVars, ClientsP!listenerVars, Clients!httpVars,
         ClientsP!httpVars
<1> QED
  BY <1>1, <1>2, <1>3, <1>4, <1>9, <1>10, <1>11, <1>12, <1>13 DEF Clients!Next, ClientsP!Next

-----------------------------------------------------------------------------
\* What each side needs of itself, and what it needs of the other.
MInv ==
  /\ TypeOK
  /\ BusOK
  /\ AttemptOK
  /\ RejectedLeavesNothing
  /\ LimitOK
  /\ ClientsP!IntakeTypeOK
  /\ ClientsP!DeliveryOK
  /\ ClientsP!NewOK

LEMMA MClientsInit == Clients!Init => ClientsP!Init
BY ManagerAssumption, SameEvents
   DEF ManagerAssumption, Clients!Init, ClientsP!Init, Clients!Bus!Init, ClientsP!Bus!Init

LEMMA MInvInit == MInit => MInv
<1> SUFFICES ASSUME Init, Clients!Init PROVE MInv
  BY DEF MInit
<1>1. TypeOK /\ LimitOK
  BY TypeInit, LimitInit
<1>2. BusOK /\ AttemptOK /\ RejectedLeavesNothing
  BY ConstantsAssumption
     DEF Init, BusOK, AttemptOK, RejectedLeavesNothing, ConstantsAssumption
<1>3. ClientsP!Init
  BY MClientsInit
<1>4. ClientsP!IntakeTypeOK /\ ClientsP!DeliveryOK /\ ClientsP!NewOK
  BY <1>3, InstanceAssumption, ClientsP!TypesInit, ClientsP!DeliveryInit, ClientsP!NewInit
     DEF ClientsP!IntakeTypeOK
<1> QED
  BY <1>1, <1>2, <1>4 DEF MInv

\* The event that is taken comes from the bus, where no event has a pipeline.
LEMMA TakenIsNew ==
  ASSUME TypeOK, ClientsP!NewOK, NEW n \in 0..MaxReports, Take(n)
  PROVE  cur' \notin made \union cut
<1>1. Len(sendq) \in Nat \ {0} /\ cur' = sendq[1] /\ cur' \in Events
  BY DEF Take, TypeOK
<1>2. ClientsP!OnBus(cur')
  BY <1>1 DEF ClientsP!OnBus
<1> QED
  BY <1>1, <1>2, SameEvents DEF ClientsP!NewOK

LEMMA MInvInductive == MInv /\ [MNext]_mvars => MInv'
<1> SUFFICES ASSUME MInv, [MNext]_mvars PROVE MInv'
  OBVIOUS
<1>1. [ClientsP!Next]_(ClientsP!vars)
  BY ClientsStep, SameSteps DEF MInv
<1>2. ClientsP!IntakeTypeOK' /\ ClientsP!DeliveryOK' /\ ClientsP!NewOK'
  BY <1>1, InstanceAssumption, ClientsP!TypesInductive, ClientsP!DeliveryInductive,
     ClientsP!NewInductive DEF MInv, ClientsP!IntakeTypeOK
<1>3. CASE [Next]_vars
  <2>1. TypeOK'
    BY <1>3, TypeInductive DEF MInv
  <2>2. BusOK'
    BY <1>3, <2>1, BusInductive DEF MInv
  <2>3. \A n \in 0..MaxReports : Take(n) => cur' \notin made \union cut
    BY TakenIsNew DEF MInv
  <2>4. AttemptOK'
    BY <1>3, <2>1, <2>3, AttemptInductive DEF MInv
  <2>5. RejectedLeavesNothing'
    BY <1>3, RejectedInductive DEF MInv
  <2>6. LimitOK'
    BY <1>3, <2>1, LimitInductive DEF MInv
  <2> QED
    BY <1>2, <2>1, <2>2, <2>4, <2>5, <2>6 DEF MInv
<1>4. CASE MRestart
  <2>1. /\ UNCHANGED <<result, made, cut, waiting, active, lag>>
        /\ TypeOK' /\ BusOK' /\ AttemptOK'
    BY <1>4, RestartForgets DEF MInv
  <2>2. RejectedLeavesNothing'
    BY <2>1 DEF MInv, RejectedLeavesNothing
  <2>3. phase' = "select"
    BY <1>4 DEF MRestart, ForgetEvent
  <2>4. LimitOK'
    BY <2>1, <2>3 DEF MInv, LimitOK, Incomplete, Bound
  <2> QED
    BY <1>2, <2>1, <2>2, <2>4 DEF MInv
<1> QED
  BY <1>3, <1>4, SchedulerSteps DEF MInv, ClientsP!IntakeTypeOK

LEMMA ManagerInvariant == MSpec => []MInv
BY MInvInit, MInvInductive, PTL DEF MSpec

-----------------------------------------------------------------------------
\* The types of the scheduler and of its clients, through restarts.
THEOREM ManagerTypeCorrect == MSpec => []MTypeOK
<1>1. MInv => MTypeOK
  BY DEF MInv, MTypeOK, ClientsP!IntakeTypeOK, ClientsP!BusTypeOK, ClientsP!ClientTypeOK,
     Clients!TypeOK, Clients!BusEvents, ClientsP!BusEvents, Clients!Deliveries, ClientsP!Deliveries
<1> QED
  BY <1>1, ManagerInvariant, PTL

\* "we reject before pipelines are created in order to allow the message to be
\* requeued", also when the process died over an earlier delivery of it.
THEOREM RejectionIsCleanAfterRestarts == MSpec => []RejectedLeavesNothing
BY ManagerInvariant, PTL DEF MInv

\* One batch for each event that passes the threshold, when the process is
\* restarted too: the new one never resumes an old event.  What its cache has not
\* counted of the old one's pipelines is in the lag, as ever.
THEOREM LimitHoldsAfterRestarts == MSpec => []SoftLimit
<1>1. MInv => SoftLimit
  BY DEF MInv, LimitOK, SoftLimit, Bound, Incomplete
<1> QED
  BY <1>1, ManagerInvariant, PTL

\* The scheduler serves its clients as EventService promises, so that what the
\* listener and the handlers do in the manager is what they do in Intake.
THEOREM ManagerServesClients == MSpec => ServesClients
<1>1. MInit => Clients!Init
  BY DEF MInit
<1>2. MInv /\ [MNext]_mvars => [Clients!Next]_(Clients!vars)
  BY ClientsStep DEF MInv
<1> QED
  BY <1>1, <1>2, ManagerInvariant, PTL DEF MSpec, ServesClients, Clients!Spec

\* Clients and ClientsP say the same of deliveries.
LEMMA SameDelivery ==
  /\ ClientsP!Delivery!Init => Clients!Delivery!Init
  /\ [ClientsP!Delivery!Next]_(ClientsP!Delivery!deliveryVars)
       => [Clients!Delivery!Next]_(Clients!Delivery!deliveryVars)
<1>1. Clients!EvaluatedMessages = ClientsP!EvaluatedMessages
  BY DEF Clients!EvaluatedMessages, ClientsP!EvaluatedMessages,
         Clients!Evaluated, ClientsP!Evaluated
<1>2. (Clients!EvaluatedMessages)' = (ClientsP!EvaluatedMessages)'
  BY DEF Clients!EvaluatedMessages, ClientsP!EvaluatedMessages,
         Clients!Evaluated, ClientsP!Evaluated
<1> QED
  BY <1>1, <1>2
     DEF Clients!Delivery!Init, ClientsP!Delivery!Init, Clients!Delivery!Next,
         ClientsP!Delivery!Next, Clients!Delivery!deliveryVars, ClientsP!Delivery!deliveryVars,
         Clients!Delivery!Publish, Clients!Delivery!Evaluate, Clients!Delivery!Remove,
         ClientsP!Delivery!Publish, ClientsP!Delivery!Evaluate, ClientsP!Delivery!Remove

\* The manager is an Intake in the sense of the lemmas and theorems of Intake.
LEMMA ManagerIsIntake == MSpec => ClientsP!Spec
<1>1. MInit => ClientsP!Init
  BY MClientsInit DEF MInit
<1>2. MInv /\ [MNext]_mvars => [ClientsP!Next]_(ClientsP!vars)
  BY ClientsStep, SameSteps DEF MInv
<1> QED
  BY <1>1, <1>2, ManagerInvariant, PTL DEF MSpec, ClientsP!Spec

\* A message is only deleted after the scheduler has evaluated all of it
\* (the goroutine that waits for the answer), be it in an earlier process.
THEOREM ManagerDeletesEvaluated == MSpec => []Clients!DeletedOnlyAfterEvaluation
<1>1. ClientsP!DeletedOnlyAfterEvaluation => Clients!DeletedOnlyAfterEvaluation
  BY DEF ClientsP!DeletedOnlyAfterEvaluation, Clients!DeletedOnlyAfterEvaluation,
         ClientsP!EvaluatedMessages, Clients!EvaluatedMessages, ClientsP!Evaluated,
         Clients!Evaluated
<1>2. ClientsP!Spec => []ClientsP!DeletedOnlyAfterEvaluation
  BY ClientsP!NothingIsLost, InstanceAssumption
<1> QED
  BY <1>1, <1>2, ManagerIsIntake, PTL

\* Nobody waits on the bus twice (Enqueue blocks its caller), and whoever
\* waits for an answer was received by the scheduler of this process.
THEOREM ManagerWaitersAreServed ==
  MSpec => [](Clients!OneEventPerClient /\ Clients!NoOrphanWaiter)
<1>1. ClientsP!OneEventPerClient => Clients!OneEventPerClient
  BY DEF ClientsP!OneEventPerClient, Clients!OneEventPerClient
<1>2. ClientsP!NoOrphanWaiter => Clients!NoOrphanWaiter
  BY DEF ClientsP!NoOrphanWaiter, Clients!NoOrphanWaiter
<1>3. ClientsP!Spec => []ClientsP!OneEventPerClient
  BY ClientsP!OneEventEach, InstanceAssumption
<1>4. ClientsP!Spec => []ClientsP!NoOrphanWaiter
  BY ClientsP!WaitersAreServed, InstanceAssumption
<1> QED
  BY <1>1, <1>2, <1>3, <1>4, ManagerIsIntake, PTL

\* An upload that is acknowledged (scheduleReport) was received by the
\* scheduler that serves this process.
THEOREM ManagerReceivesUploads == MSpec => Clients!AcknowledgedIsReceived
<1>1. ClientsP!Spec => ClientsP!AcknowledgedIsReceived
  BY ClientsP!UploadsAreReceived, InstanceAssumption
<1> DEFINE A == \A q \in Requests :
                  http[q] # "ok" /\ http'[q] = "ok"
                    => q = cur \/ [e \in Events |-> Outcome(e)][q] # "none"
<1>2. [A]_(ClientsP!vars) => [A]_(Clients!vars)
  BY DEF ClientsP!vars, Clients!vars, ClientsP!busVars, Clients!busVars, ClientsP!intakeVars,
         Clients!intakeVars, ClientsP!queueVars, Clients!queueVars, ClientsP!listenerVars,
         Clients!listenerVars, ClientsP!httpVars, Clients!httpVars
<1> QED
  BY <1>1, <1>2, ManagerIsIntake, PTL
     DEF ClientsP!AcknowledgedIsReceived, Clients!AcknowledgedIsReceived

\* End to end: a message published to the queue stays there, through failed
\* reads, rejections, shutdowns and crashes, until the scheduler has evaluated
\* every report of one of its deliveries and created what they ask for.
THEOREM ManagerDelivers == MSpec => Delivers
<1>1. ClientsP!Spec => ClientsP!AtLeastOnce
  BY ClientsP!IntakeDelivers, InstanceAssumption
<1> QED
  BY <1>1, ManagerIsIntake, SameDelivery, PTL
     DEF Delivers, ClientsP!AtLeastOnce, Clients!AtLeastOnce,
         ClientsP!Delivery!Spec, Clients!Delivery!Spec

=============================================================================
