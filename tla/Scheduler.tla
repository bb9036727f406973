----------------------------- MODULE Scheduler -----------------------------
(***************************************************************************)
(* The report scheduler (internal/reports): one goroutine that receives    *)
(* events from the clients blocked on an unbuffered channel, compares the  *)
(* active pipelines with the threshold, evaluates every report against a   *)
(* list of the policies, and only then creates the pipelines.              *)
(*                                                                         *)
(* Reports, policies' contents and CEL results are data: the outcome of    *)
(* evaluating one policy on one report is chosen from Evaluations, in the  *)
(* order the code tests it.  The cluster is external: it runs and          *)
(* completes the created pipelines, and the informer cache the scheduler   *)
(* counts in follows it with a delay.                                      *)
(***************************************************************************)
EXTENDS Integers, Sequences, FiniteSets

CONSTANTS
  Events,                   \* the events clients may put on the bus
  Policies,                 \* the ChalkReportPolicies of the cluster
  None,                     \* "no event is being processed"
  MaxReports,               \* bound: reports in one event
  MaxValues,                \* bound: values one policy extracts from a report
  rejectPipelineThreshold,  \* flag; 0 or less means no threshold
  maxPipelinesPerPolicy     \* flag; 0 or less means no limit

ASSUME ConstantsAssumption ==
  /\ None \notin Events
  /\ IsFiniteSet(Policies)
  /\ MaxReports \in Nat
  /\ MaxValues \in Nat
  /\ rejectPipelineThreshold \in Int
  /\ maxPipelinesPerPolicy \in Int

VARIABLES
  \* the event bus and its clients
  sendq,      \* clients blocked in Enqueue, oldest first
  result,     \* result[e]: what e's result channel holds
  ctxDone,    \* the manager's context is cancelled
  \* the goroutine running Start
  phase,      \* where it is
  cur,        \* the event received last, None once it is answered
  pending,    \* number of its reports not looked at yet
  snapshot,   \* the policies listed for it
  left,       \* of them, those not yet evaluated on the current report
  generated,  \* the pipelines to create
  err,        \* what processReports returns
  \* the cluster
  waiting,    \* number of created pipelines that have not started
  active,     \* number of started pipelines that have not completed
  cached,     \* number of active pipelines in the informer cache
  \* history
  made,       \* events for which some pipeline was created
  cut,        \* events that had a creation refused because of the shutdown
  lag         \* pipelines the cache did not count when it was last trusted

busVars     == <<sendq, result, ctxDone>>
eventVars   == <<pending, snapshot, left, generated>>
clusterVars == <<waiting, active, cached>>
history     == <<made, cut, lag>>
vars == <<busVars, phase, cur, eventVars, err, clusterVars, history>>

-----------------------------------------------------------------------------
\* One evaluation of one policy on one report, in the order of the tests:
\* Ready condition, CEL programs, match, values.  That the downloader or the
\* profile is not found is only logged.
Evaluations ==
  [ready : BOOLEAN, program : BOOLEAN,
   match : {"true", "false", "error"}, extract : BOOLEAN, values : 0..MaxValues]

WithinLimit(n) == maxPipelinesPerPolicy > 0 => n <= maxPipelinesPerPolicy

Generates(v) ==
  /\ v.ready
  /\ v.program
  /\ v.match = "true"
  /\ v.extract
  /\ WithinLimit(v.values)

\* The pipelines a policy adds to the event, each named by its policy.
FromPolicy(p, v) == [i \in 1..(IF Generates(v) THEN v.values ELSE 0) |-> p]

\* Variant: the threshold itself still passes.
OverThreshold(n) == n > rejectPipelineThreshold

AtThreshold(n) == n >= rejectPipelineThreshold

\* Variants: the pipelines of a report are created before the next report is
\* looked at; the last report is not evaluated against every policy.
ReportEvaluated == left = {}
LastReportTaken == pending = 0

\* Nothing is created before the last report was evaluated.
AllReportsEvaluated == pending = 0 /\ left = {}

\* Variant: Enqueue makes an unbuffered channel.
Unbuffered == 0

\* The channel of a result holds one error (or nil) without a receiver.
ResultBuffer == 1

Processing == {"count", "list", "evaluate", "answer"}
Phases == Processing \union {"select", "sleep", "stopped"}

Fresh(e) ==
  /\ cur # e
  /\ result[e] = <<>>
  /\ \A i \in 1..Len(sendq) : sendq[i] # e

-----------------------------------------------------------------------------
Init ==
  /\ sendq = <<>>
  /\ result = [e \in Events |-> <<>>]
  /\ ctxDone = FALSE
  /\ phase = "select"
  /\ cur = None
  /\ pending = 0
  /\ snapshot = {}
  /\ left = {}
  /\ generated = <<>>
  /\ err = "nil"
  /\ waiting = 0
  /\ active = 0
  /\ cached = 0
  /\ made = {}
  /\ cut = {}
  /\ lag = 0

\* A client sends its event: it blocks until the scheduler receives.
Enqueue(e) ==
  /\ Fresh(e)
  /\ sendq' = Append(sendq, e)
  /\ UNCHANGED <<result, ctxDone, phase, cur, eventVars, err, clusterVars, history>>

\* The select receives an event with n reports.  Without a threshold the
\* active pipelines are not counted.
Take(n) ==
  /\ phase = "select"
  /\ sendq # <<>>
  /\ cur' = Head(sendq)
  /\ sendq' = Tail(sendq)
  /\ pending' = n
  /\ phase' = IF rejectPipelineThreshold > 0 THEN "count" ELSE "list"
  /\ UNCHANGED <<result, ctxDone, snapshot, left, generated, err, clusterVars, history>>

\* processReports returns an error: whatever it had generated is dropped.
Fail ==
  /\ err' = "error"
  /\ phase' = "answer"
  /\ pending' = 0
  /\ left' = {}
  /\ generated' = <<>>
  /\ UNCHANGED <<busVars, cur, snapshot, clusterVars, history>>

CountFails == phase = "count" /\ Fail

Reject == phase = "count" /\ AtThreshold(cached) /\ Fail

PassThreshold ==
  /\ phase = "count"
  /\ ~AtThreshold(cached)
  /\ phase' = "list"
  /\ lag' = waiting + active - cached
  /\ UNCHANGED <<busVars, cur, eventVars, err, clusterVars, made, cut>>

ListFails == phase = "list" /\ Fail

ListPolicies ==
  /\ phase = "list"
  /\ snapshot' \in SUBSET Policies
  /\ phase' = "evaluate"
  /\ UNCHANGED <<busVars, cur, pending, left, generated, err, clusterVars, history>>

\* The next report has an action ID: its turn with every listed policy.
StartReport ==
  /\ phase = "evaluate"
  /\ left = {}
  /\ pending > 0
  /\ pending' = pending - 1
  /\ left' = snapshot
  /\ UNCHANGED <<busVars, phase, cur, snapshot, generated, err, clusterVars, history>>

\* The next report has no usable action ID: the whole event is refused.
InvalidReport ==
  /\ phase = "evaluate"
  /\ left = {}
  /\ pending > 0
  /\ Fail

EvaluatePolicy(p, v) ==
  /\ phase = "evaluate"
  /\ p \in left
  /\ left' = left \ {p}
  /\ generated' = generated \o FromPolicy(p, v)
  /\ UNCHANGED <<busVars, phase, cur, pending, snapshot, err, clusterVars, history>>

\* The API server creates the next pipeline; the reply may be lost, which the
\* code cannot tell from a refusal and which changes nothing in what follows.
CreatePipeline ==
  /\ phase = "evaluate"
  /\ AllReportsEvaluated
  /\ generated # <<>>
  /\ ~ctxDone
  /\ generated' = Tail(generated)
  /\ waiting' = waiting + 1
  /\ made' = made \union {cur}
  /\ UNCHANGED <<busVars, phase, cur, pending, snapshot, left, err, active, cached, cut, lag>>

\* Variant: the error of a creation is returned by processReports.
CreateErrorReturned ==
  /\ phase = "evaluate"
  /\ AllReportsEvaluated
  /\ generated # <<>>
  /\ generated' = <<>>
  /\ cut' = IF ctxDone THEN cut \union {cur} ELSE cut
  /\ err' = "error"
  /\ phase' = "answer"
  /\ UNCHANGED <<busVars, cur, pending, snapshot, left, clusterVars, made, lag>>

\* The creation fails: recorded on the policy, and the next one is tried.
CreateFails ==
  /\ phase = "evaluate"
  /\ AllReportsEvaluated
  /\ generated # <<>>
  /\ generated' = Tail(generated)
  /\ cut' = IF ctxDone THEN cut \union {cur} ELSE cut
  /\ UNCHANGED <<busVars, phase, cur, pending, snapshot, left, err, clusterVars, made, lag>>

\* Every pipeline was tried: processReports returns nil.
Accept ==
  /\ phase = "evaluate"
  /\ AllReportsEvaluated
  /\ generated = <<>>
  /\ phase' = "answer"
  /\ UNCHANGED <<busVars, cur, eventVars, err, clusterVars, history>>

\* The answer is put in the result channel, which nobody may ever read.
Answer ==
  /\ phase = "answer"
  /\ Len(result[cur]) < ResultBuffer
  /\ result' = [result EXCEPT ![cur] = Append(@, err)]
  /\ cur' = None
  /\ err' = "nil"
  /\ snapshot' = {}
  /\ phase' = "sleep"
  /\ UNCHANGED <<sendq, ctxDone, pending, left, generated, clusterVars, history>>

\* time.Sleep ends: it does not look at the context.
Wake ==
  /\ phase = "sleep"
  /\ phase' = "select"
  /\ UNCHANGED <<busVars, cur, eventVars, err, clusterVars, history>>

\* Variant: the goroutine ranges over the bus and never sees the context.
NeverStop == FALSE

\* Variant: the loops of processReports also end with the context.
StopAnywhere ==
  /\ phase \in {"select", "evaluate"}
  /\ ctxDone
  /\ phase' = "stopped"
  /\ UNCHANGED <<busVars, cur, eventVars, err, clusterVars, history>>

\* The select chooses the cancelled context, even with clients waiting.
Stop ==
  /\ phase = "select"
  /\ ctxDone
  /\ phase' = "stopped"
  /\ UNCHANGED <<busVars, cur, eventVars, err, clusterVars, history>>

Cancel ==
  /\ ~ctxDone
  /\ ctxDone' = TRUE
  /\ UNCHANGED <<sendq, result, phase, cur, eventVars, err, clusterVars, history>>

-----------------------------------------------------------------------------
\* The cluster: Ocular starts and completes pipelines, the cache catches up.
StartPipeline ==
  /\ waiting > 0
  /\ waiting' = waiting - 1
  /\ active' = active + 1
  /\ UNCHANGED <<busVars, phase, cur, eventVars, err, cached, history>>

CompletePipeline ==
  /\ active > 0
  /\ active' = active - 1
  /\ UNCHANGED <<busVars, phase, cur, eventVars, err, waiting, cached, history>>

SyncCache ==
  /\ cached # active
  /\ cached' = active
  /\ UNCHANGED <<busVars, phase, cur, eventVars, err, waiting, active, history>>

Cluster == StartPipeline \/ CompletePipeline \/ SyncCache

\* One step of the goroutine running Start.
Serve ==
  \/ \E n \in 0..MaxReports : Take(n)
  \/ CountFails
  \/ Reject
  \/ PassThreshold
  \/ ListFails
  \/ ListPolicies
  \/ StartReport
  \/ InvalidReport
  \/ \E p \in Policies, v \in Evaluations : EvaluatePolicy(p, v)
  \/ CreatePipeline
  \/ CreateFails
  \/ Accept
  \/ Answer
  \/ Wake
  \/ Stop

Next ==
  \/ \E e \in Events : Enqueue(e)
  \/ Serve
  \/ Cancel
  \/ Cluster

Spec == Init /\ [][Next]_vars

\* The goroutine is never blocked for ever by a call: every API call returns.
FairSpec == Spec /\ WF_vars(Serve)

-----------------------------------------------------------------------------
\* The state of the goroutine and its variables: nothing of an event is left
\* between two events, and between two calls of processReports no event is
\* current.
TypeOK ==
  /\ sendq \in Seq(Events)
  /\ result \in [Events -> {<<>>, <<"nil">>, <<"error">>}]
  /\ ctxDone \in BOOLEAN
  /\ phase \in Phases
  /\ cur \in Events \union {None}
  /\ cur \in Events <=> phase \in Processing
  /\ pending \in 0..MaxReports
  /\ snapshot \in SUBSET Policies
  /\ left \in SUBSET Policies
  /\ generated \in Seq(Policies)
  /\ phase # "evaluate" => left = {} /\ generated = <<>>
  /\ err \in {"nil", "error"}
  /\ waiting \in Nat
  /\ active \in Nat
  /\ cached \in Nat
  /\ made \in SUBSET Events
  /\ cut \in SUBSET Events
  /\ lag \in Int

\* "we reject before pipelines are created in order to allow the message to be
\* requeued": an event answered with an error has created no pipeline and has
\* lost none to the shutdown, so processing it again creates nothing twice.
RejectedLeavesNothing ==
  \A e \in Events : result[e] = <<"error">> => e \notin made \union cut

\* The largest number of pipelines one event may ask for.
Batch == MaxReports * Cardinality(Policies) * maxPipelinesPerPolicy

\* The "soft limit" of --reject-report-pipeline-threshold: an event that passes
\* the comparison adds no more than its own batch to the threshold and what the
\* cache did not count then.  That lag is every incomplete pipeline the count
\* misses, created but not started ones included, and nothing in the code bounds
\* it: the sum of the batches of several events is not limited by this.
SoftLimit ==
  rejectPipelineThreshold > 0 /\ maxPipelinesPerPolicy > 0
    => waiting + active <= rejectPipelineThreshold - 1 + lag + Batch

\* An event whose client waits on the bus is answered unless the manager is
\* shut down, whether or not anybody reads the answers given before it.
EveryEventAnswered ==
  \A e \in Events :
    (\E i \in 1..Len(sendq) : sendq[i] = e) ~> (result[e] # <<>> \/ ctxDone)

\* What EventService calls the state of the goroutine and of the channels.
Outcome(e) == IF result[e] = <<>> THEN "none" ELSE result[e][1]

Service == INSTANCE EventService WITH
  sched   <- IF phase \in Processing THEN "busy" ELSE phase,
  outcome <- [e \in Events |-> Outcome(e)]

\* The scheduler is an EventService: one event at a time, first come first
\* served, one answer each, no pipeline behind an error.
ServesEvents == Service!Spec

\* ... and it always goes on serving.
KeepsServing == Service!FairSpec
=============================================================================
