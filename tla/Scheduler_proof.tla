-------------------------- MODULE Scheduler_proof --------------------------
(***************************************************************************)
(* Proofs about the report scheduler, for every number of events, reports, *)
(* policies and values, and every setting of the two limits.               *)
(***************************************************************************)
EXTENDS Scheduler, FiniteSetTheorems, TLAPS

-----------------------------------------------------------------------------
\* One evaluation yields a sequence of pipelines, within the limit of the
\* policy when there is one (createPipelinesForReport drops longer lists).
LEMMA FromPolicyBounded ==
  ASSUME NEW p \in Policies, NEW v \in Evaluations
  PROVE  /\ FromPolicy(p, v) \in Seq(Policies)
         /\ Len(FromPolicy(p, v)) \in Nat
         /\ maxPipelinesPerPolicy > 0 => Len(FromPolicy(p, v)) <= maxPipelinesPerPolicy
<1> DEFINE n == IF Generates(v) THEN v.values ELSE 0
<1>1. n \in Nat
  BY ConstantsAssumption DEF Evaluations, ConstantsAssumption
<1>2. FromPolicy(p, v) \in [1..n -> Policies]
  BY <1>1 DEF FromPolicy
<1>3. FromPolicy(p, v) \in Seq(Policies) /\ Len(FromPolicy(p, v)) = n
  BY <1>1, <1>2
<1>4. maxPipelinesPerPolicy > 0 => n <= maxPipelinesPerPolicy
  BY ConstantsAssumption DEF Generates, WithinLimit, ConstantsAssumption
<1> QED
  BY <1>1, <1>3, <1>4

-----------------------------------------------------------------------------
\* Every step leaves every variable with a value the code can give it.
LEMMA TypeInductive ==
  ASSUME TypeOK, [Next]_vars
  PROVE  TypeOK'
<1> USE ConstantsAssumption DEF TypeOK, ConstantsAssumption, Phases, Processing,
      busVars, eventVars, clusterVars, history
<1>1. ASSUME NEW e \in Events, Enqueue(e) PROVE TypeOK'
  BY <1>1 DEF Enqueue
<1>2. ASSUME NEW n \in 0..MaxReports, Take(n) PROVE TypeOK'
  BY <1>2 DEF Take
<1>3. CASE CountFails
  BY <1>3 DEF CountFails, Fail
<1>4. CASE Reject
  BY <1>4 DEF Reject, Fail
<1>5. CASE PassThreshold
  BY <1>5 DEF PassThreshold
<1>6. CASE ListFails
  BY <1>6 DEF ListFails, Fail
<1>7. CASE ListPolicies
  BY <1>7 DEF ListPolicies
<1>8. CASE StartReport
  BY <1>8 DEF StartReport
<1>9. CASE InvalidReport
  BY <1>9 DEF InvalidReport, Fail
<1>10. ASSUME NEW p \in Policies, NEW v \in Evaluations, EvaluatePolicy(p, v)
       PROVE  TypeOK'
  <2>1. generated' \in Seq(Policies)
    BY <1>10, FromPolicyBounded DEF EvaluatePolicy
  <2> QED
    BY <1>10, <2>1 DEF EvaluatePolicy
<1>11. CASE CreatePipeline
  BY <1>11 DEF CreatePipeline
<1>12. CASE CreateFails
  BY <1>12 DEF CreateFails
<1>13. CASE Accept
  BY <1>13 DEF Accept, AllReportsEvaluated
<1>14. CASE Answer
  <2>1. result[cur] = <<>>
    BY <1>14 DEF Answer, ResultBuffer
  <2>2. result'[cur] \in {<<"nil">>, <<"error">>}
    BY <1>14, <2>1 DEF Answer
  <2>3. \A e \in Events : e # cur => result'[e] = result[e]
    BY <1>14 DEF Answer
  <2>4. result' \in [Events -> {<<>>, <<"nil">>, <<"error">>}]
    BY <1>14, <2>2, <2>3 DEF Answer
  <2> QED
    BY <1>14, <2>4 DEF Answer
<1>15. CASE Wake
  BY <1>15 DEF Wake
<1>16. CASE Stop
  BY <1>16 DEF Stop
<1>17. CASE Cancel
  BY <1>17 DEF Cancel
<1>18. CASE Cluster
  <2>1. waiting' \in Nat /\ active' \in Nat /\ cached' \in Nat
    BY <1>18 DEF Cluster, StartPipeline, CompletePipeline, SyncCache
  <2>2. UNCHANGED <<busVars, phase, cur, eventVars, err, history>>
    BY <1>18 DEF Cluster, StartPipeline, CompletePipeline, SyncCache
  <2> QED
    BY <2>1, <2>2
<1>19. CASE UNCHANGED vars
  BY <1>19 DEF vars
<1> QED
  BY <1>1, <1>2, <1>3, <1>4, <1>5, <1>6, <1>7, <1>8, <1>9, <1>10, <1>11, <1>12,
     <1>13, <1>14, <1>15, <1>16, <1>17, <1>18, <1>19 DEF Next, Serve

LEMMA TypeInit == Init => TypeOK
<1> SUFFICES ASSUME Init PROVE TypeOK
  OBVIOUS
<1> USE ConstantsAssumption DEF Init, Phases, Processing, ConstantsAssumption
<1>1. sendq \in Seq(Events) /\ generated \in Seq(Policies)
  OBVIOUS
<1>2. result \in [Events -> {<<>>, <<"nil">>, <<"error">>}]
  OBVIOUS
<1>3. ctxDone \in BOOLEAN
  OBVIOUS
<1>4. phase \in Phases
  OBVIOUS
<1>5. /\ cur \in Events \union {None}
      /\ cur \in Events <=> phase \in Processing
  OBVIOUS
<1>6. /\ pending \in 0..MaxReports
      /\ waiting \in Nat /\ active \in Nat /\ cached \in Nat /\ lag \in Int
  OBVIOUS
<1> QED
  BY <1>1, <1>2, <1>3, <1>4, <1>5, <1>6 DEF TypeOK

\* The goroutine's variables always have the values the code can give them:
\* no report, policy or pipeline of an event survives its answer.
THEOREM TypeCorrect == Spec => []TypeOK
<1>1. Init => TypeOK
  BY TypeInit
<1>2. TypeOK /\ [Next]_vars => TypeOK'
  BY TypeInductive
<1> QED
  BY <1>1, <1>2, PTL DEF Spec

-----------------------------------------------------------------------------
\* The clients on the bus are distinct, unanswered and not being served, and
\* the event being processed has an empty result channel to be answered in.
BusOK ==
  /\ \A i, j \in 1..Len(sendq) : sendq[i] = sendq[j] => i = j
  /\ \A i \in 1..Len(sendq) : sendq[i] # cur /\ result[sendq[i]] = <<>>
  /\ cur \in Events => result[cur] = <<>>

\* The event being processed has tried to create pipelines only once its last
\* report was evaluated, after which its answer is nil.
AttemptOK ==
  /\ cur \in made \union cut =>
       \/ phase = "evaluate" /\ AllReportsEvaluated
       \/ phase = "answer" /\ err = "nil"
  /\ phase # "answer" => err = "nil"

\* No other event has but those answered nil.
TriedOK ==
  /\ AttemptOK
  /\ \A e \in made \union cut : e = cur \/ result[e] = <<"nil">>

\* The event bus is first in, first out, and no client is on it twice.
Distinct(s) == \A i, j \in 1..Len(s) : s[i] = s[j] => i = j

LEMMA AppendDistinct ==
  ASSUME NEW s \in Seq(Events), NEW e \in Events, Distinct(s),
         \A i \in 1..Len(s) : s[i] # e
  PROVE  /\ Distinct(Append(s, e))
         /\ \A i \in 1..Len(Append(s, e)) :
              Append(s, e)[i] = e \/ \E j \in 1..Len(s) : Append(s, e)[i] = s[j]
<1> DEFINE t == Append(s, e)
<1>1. \A i \in 1..Len(t) :
        \/ i \in 1..Len(s) /\ t[i] = s[i]
        \/ i = Len(s) + 1 /\ t[i] = e
  OBVIOUS
<1> HIDE DEF t
<1>2. ASSUME NEW i \in 1..Len(t), NEW j \in 1..Len(t), t[i] = t[j] PROVE i = j
  <2>1. CASE i \in 1..Len(s) /\ t[i] = s[i]
    BY <1>1, <1>2, <2>1 DEF Distinct
  <2>2. CASE i = Len(s) + 1 /\ t[i] = e
    BY <1>1, <1>2, <2>2
  <2> QED
    BY <1>1, <2>1, <2>2
<1>3. \A i \in 1..Len(t) : t[i] = e \/ \E j \in 1..Len(s) : t[i] = s[j]
  BY <1>1
<1> QED
  BY <1>2, <1>3 DEF Distinct, t

LEMMA TailDistinct ==
  ASSUME NEW s \in Seq(Events), Len(s) > 0, Distinct(s)
  PROVE  /\ Distinct(Tail(s))
         /\ s[1] \in Events
         /\ \A i \in 1..Len(Tail(s)) :
              \E j \in 1..Len(s) : Tail(s)[i] = s[j] /\ s[j] # s[1]
<1> DEFINE t == Tail(s)
<1>1. \A i \in 1..Len(t) : t[i] = s[i + 1] /\ i + 1 \in 1..Len(s)
  OBVIOUS
<1>2. 1 \in 1..Len(s) /\ Len(t) \in Nat
  OBVIOUS
<1> HIDE DEF t
<1>3. ASSUME NEW i \in 1..Len(t), NEW j \in 1..Len(t), t[i] = t[j] PROVE i = j
  <2>1. i + 1 = j + 1
    BY <1>1, <1>3 DEF Distinct
  <2> QED
    BY <1>2, <2>1
<1>4. ASSUME NEW i \in 1..Len(t) PROVE t[i] = s[i + 1] /\ s[i + 1] # s[1]
  <2>1. i + 1 # 1 /\ i + 1 \in 1..Len(s)
    BY <1>1, <1>2
  <2> QED
    BY <1>1, <1>2, <2>1 DEF Distinct
<1> QED
  BY <1>1, <1>2, <1>3, <1>4 DEF Distinct, t

LEMMA BusInductive ==
  ASSUME TypeOK, TypeOK', BusOK, [Next]_vars
  PROVE  BusOK'
<1>0. sendq \in Seq(Events) /\ Distinct(sendq)
  BY DEF TypeOK, BusOK, Distinct
<1>1. ASSUME NEW e \in Events, Enqueue(e) PROVE BusOK'
  <2>1. sendq' = Append(sendq, e) /\ cur' = cur /\ result' = result
    BY <1>1 DEF Enqueue
  <2>2. e # cur /\ result[e] = <<>> /\ \A i \in 1..Len(sendq) : sendq[i] # e
    BY <1>1 DEF Enqueue, Fresh
  <2>3. /\ Distinct(sendq')
        /\ \A i \in 1..Len(sendq') :
             sendq'[i] = e \/ \E j \in 1..Len(sendq) : sendq'[i] = sendq[j]
    BY <1>0, <2>1, <2>2, AppendDistinct
  <2> QED
    BY <2>1, <2>2, <2>3 DEF BusOK, Distinct
<1>2. ASSUME NEW n \in 0..MaxReports, Take(n) PROVE BusOK'
  <2>1. /\ Len(sendq) > 0 /\ sendq' = Tail(sendq)
        /\ cur' = sendq[1] /\ result' = result
    BY <1>0, <1>2 DEF Take
  <2>2. /\ Distinct(sendq')
        /\ \A i \in 1..Len(sendq') :
             \E j \in 1..Len(sendq) : sendq'[i] = sendq[j] /\ sendq[j] # cur'
    BY <1>0, <2>1, TailDistinct
  <2>3. 1 \in 1..Len(sendq)
    BY <1>0, <2>1
  <2> QED
    BY <2>1, <2>2, <2>3 DEF BusOK, Distinct
<1>3. CASE Answer
  <2>1. cur' = None /\ sendq' = sendq /\ \A e \in Events : e # cur => result'[e] = result[e]
    <3>1. DOMAIN result = Events
      BY DEF TypeOK
    <3> QED
      BY <1>3, <3>1 DEF Answer
  <2>2. \A i \in 1..Len(sendq) : sendq[i] \in Events
    BY DEF TypeOK
  <2>3. \A i \in 1..Len(sendq) : sendq[i] # cur /\ result[sendq[i]] = <<>>
    BY DEF BusOK
  <2>4. \A i \in 1..Len(sendq) : result'[sendq[i]] = <<>> /\ sendq[i] # None
    BY <2>1, <2>2, <2>3, ConstantsAssumption DEF ConstantsAssumption
  <2>5. \A i, j \in 1..Len(sendq) : sendq[i] = sendq[j] => i = j
    BY DEF BusOK
  <2> QED
    BY <2>1, <2>4, <2>5, ConstantsAssumption DEF BusOK, ConstantsAssumption
<1> USE ConstantsAssumption DEF TypeOK, BusOK, Phases, Processing, ConstantsAssumption,
      busVars, eventVars, clusterVars, history
<1>4. ASSUME UNCHANGED <<sendq, cur, result>> PROVE BusOK'
  BY <1>4
<1>5. ASSUME NEW p \in Policies, NEW v \in Evaluations, EvaluatePolicy(p, v) PROVE BusOK'
  BY <1>4, <1>5 DEF EvaluatePolicy
<1>6. CASE CountFails \/ Reject \/ PassThreshold \/ ListFails \/ ListPolicies
  BY <1>4, <1>6 DEF CountFails, Reject, PassThreshold, ListFails, ListPolicies, Fail
<1>7. CASE StartReport \/ InvalidReport \/ CreatePipeline \/ CreateFails \/ Accept
  BY <1>4, <1>7 DEF StartReport, InvalidReport, Fail, CreatePipeline, CreateFails, Accept
<1>8. CASE Wake \/ Stop \/ Cancel \/ Cluster \/ UNCHANGED vars
  BY <1>4, <1>8 DEF Wake, Stop, Cancel, Cluster, StartPipeline, CompletePipeline,
     SyncCache, vars
<1> QED
  BY <1>1, <1>2, <1>3, <1>5, <1>6, <1>7, <1>8 DEF Next, Serve

\* An event for which nothing was tried is all that must be known of the one
\* that is taken, whatever process tried to create pipelines before.
LEMMA AttemptInductive ==
  ASSUME TypeOK, TypeOK', AttemptOK, [Next]_vars,
         \A n \in 0..MaxReports : Take(n) => cur' \notin made \union cut
  PROVE  AttemptOK'
<1> USE ConstantsAssumption DEF TypeOK, AttemptOK, AllReportsEvaluated, Phases, Processing,
      ConstantsAssumption, busVars, eventVars, clusterVars, history
<1>1. ASSUME NEW e \in Events, Enqueue(e) PROVE AttemptOK'
  BY <1>1 DEF Enqueue
<1>2. ASSUME NEW n \in 0..MaxReports, Take(n) PROVE AttemptOK'
  BY <1>2 DEF Take
<1>3. CASE Answer
  BY <1>3 DEF Answer
<1>4. CASE CountFails \/ Reject \/ PassThreshold
  BY <1>4 DEF CountFails, Reject, PassThreshold, Fail
<1>5. CASE ListFails \/ ListPolicies
  BY <1>5 DEF ListFails, ListPolicies, Fail
<1>6. CASE StartReport \/ InvalidReport
  BY <1>6 DEF StartReport, InvalidReport, Fail
<1>7. ASSUME NEW p \in Policies, NEW v \in Evaluations, EvaluatePolicy(p, v) PROVE AttemptOK'
  BY <1>7 DEF EvaluatePolicy
<1>8. CASE CreatePipeline \/ CreateFails \/ Accept
  BY <1>8 DEF CreatePipeline, CreateFails, Accept
<1>9. CASE Wake \/ Stop \/ Cancel \/ Cluster \/ UNCHANGED vars
  BY <1>9 DEF Wake, Stop, Cancel, Cluster, StartPipeline, CompletePipeline, SyncCache, vars
<1> QED
  BY <1>1, <1>2, <1>3, <1>4, <1>5, <1>6, <1>7, <1>8, <1>9 DEF Next, Serve

\* What the three variables that say who tried what may become.
LEMMA StepsTry ==
  ASSUME TypeOK, BusOK, [Next]_vars
  PROVE  \/ UNCHANGED <<made, cut, result>> /\ (cur' = cur \/ cur = None)
         \/ /\ cur \in Events /\ result[cur] = <<>> /\ cur' = cur /\ result' = result
            /\ made' \union cut' \subseteq made \union cut \union {cur}
         \/ /\ phase = "answer" /\ cur \in Events /\ UNCHANGED <<made, cut>>
            /\ result' = [result EXCEPT ![cur] = <<err>>]
<1> USE DEF TypeOK, BusOK, Processing, busVars, eventVars, clusterVars, history
<1>1. CASE CreatePipeline \/ CreateFails
  BY <1>1 DEF CreatePipeline, CreateFails
<1>2. CASE Answer
  BY <1>2 DEF Answer
<1>3. ASSUME NEW e \in Events, Enqueue(e)
      PROVE  UNCHANGED <<made, cut, result, cur>>
  BY <1>3 DEF Enqueue
<1>4. ASSUME NEW n \in 0..MaxReports, Take(n)
      PROVE  UNCHANGED <<made, cut, result>> /\ cur = None
  BY <1>4 DEF Take
<1>5. ASSUME NEW p \in Policies, NEW v \in Evaluations, EvaluatePolicy(p, v)
      PROVE  UNCHANGED <<made, cut, result, cur>>
  BY <1>5 DEF EvaluatePolicy
<1>6. CASE CountFails \/ Reject \/ PassThreshold \/ ListFails \/ ListPolicies
  BY <1>6 DEF CountFails, Reject, PassThreshold, ListFails, ListPolicies, Fail
<1>7. CASE StartReport \/ InvalidReport \/ Accept \/ Wake \/ Stop \/ Cancel
  BY <1>7 DEF StartReport, InvalidReport, Fail, Accept, Wake, Stop, Cancel
<1>8. CASE Cluster \/ UNCHANGED vars
  BY <1>8 DEF Cluster, StartPipeline, CompletePipeline, SyncCache, vars
<1> QED
  BY <1>1, <1>2, <1>3, <1>4, <1>5, <1>6, <1>7, <1>8 DEF Next, Serve

LEMMA TriedInductive ==
  ASSUME TypeOK, TypeOK', BusOK, BusOK', TriedOK, [Next]_vars
  PROVE  TriedOK'
<1>1. ASSUME NEW n \in 0..MaxReports, Take(n) PROVE cur' \notin made \union cut
  <2>1. sendq \in Seq(Events) /\ sendq # <<>> /\ cur' = Head(sendq)
    BY <1>1 DEF Take, TypeOK
  <2>2. cur' = sendq[1] /\ 1 \in 1..Len(sendq) /\ cur' \in Events
    BY <2>1
  <2>3. result[cur'] = <<>>
    BY <2>2 DEF BusOK
  <2>4. cur = None /\ result[cur'] = <<>> /\ cur' \in Events
    BY <1>1, <2>2, <2>3 DEF Take, TypeOK, Processing
  <2>5. cur' # cur /\ result[cur'] # <<"nil">>
    BY <2>4, ConstantsAssumption DEF ConstantsAssumption
  <2> QED
    BY <2>5 DEF TriedOK
<1>2. AttemptOK'
  BY <1>1, AttemptInductive DEF TriedOK
<1>3. ASSUME NEW e \in made' \union cut' PROVE e = cur' \/ result'[e] = <<"nil">>
  <2>1. CASE UNCHANGED <<made, cut, result>> /\ (cur' = cur \/ cur = None)
    <3>1. e \in Events /\ (e = cur \/ result[e] = <<"nil">>)
      BY <1>3, <2>1 DEF TriedOK, TypeOK
    <3> QED
      BY <2>1, <3>1, ConstantsAssumption DEF ConstantsAssumption
  <2>2. CASE /\ cur \in Events /\ result[cur] = <<>> /\ cur' = cur /\ result' = result
             /\ made' \union cut' \subseteq made \union cut \union {cur}
    BY <1>3, <2>2 DEF TriedOK
  <2>3. CASE /\ phase = "answer" /\ cur \in Events /\ UNCHANGED <<made, cut>>
             /\ result' = [result EXCEPT ![cur] = <<err>>]
    BY <1>3, <2>3 DEF TriedOK, AttemptOK, TypeOK
  <2> QED
    BY <2>1, <2>2, <2>3, StepsTry
<1> QED
  BY <1>2, <1>3 DEF TriedOK

LEMMA ServingInvariant == Spec => [](TypeOK /\ BusOK /\ TriedOK)
<1>1. Init => BusOK /\ TriedOK
  BY ConstantsAssumption DEF Init, BusOK, TriedOK, AttemptOK, ConstantsAssumption
<1>2. TypeOK /\ TypeOK' /\ BusOK /\ TriedOK /\ [Next]_vars => BusOK' /\ TriedOK'
  BY BusInductive, TriedInductive
<1> QED
  BY <1>1, <1>2, TypeCorrect, PTL DEF Spec

\* An error is only answered to an event that has not tried to create a
\* pipeline: the requeued message starts from nothing.
THEOREM RejectionIsClean == Spec => []RejectedLeavesNothing
<1>1. TypeOK /\ BusOK /\ TriedOK => RejectedLeavesNothing
  <2> SUFFICES ASSUME TypeOK, BusOK, TriedOK, NEW e \in Events, e \in made \union cut
               PROVE  result[e] # <<"error">>
    BY DEF RejectedLeavesNothing
  <2>1. e = cur => result[e] = <<>>
    BY DEF BusOK
  <2> QED
    BY <2>1 DEF TriedOK
<1> QED
  BY <1>1, ServingInvariant, PTL

-----------------------------------------------------------------------------
\* The pipelines the current event may still generate: one batch of each
\* policy for each pending report and for the report being evaluated.
NumPolicies == Cardinality(Policies)
Possible == (pending * NumPolicies + Cardinality(left)) * maxPipelinesPerPolicy

Bound == rejectPipelineThreshold - 1 + lag

\* The pipelines the threshold is about: created and not completed.
Incomplete == waiting + active

LimitOK ==
  rejectPipelineThreshold > 0 /\ maxPipelinesPerPolicy > 0 =>
    /\ Incomplete <= Bound + Batch
    /\ phase = "list" => Incomplete <= Bound
    /\ phase = "evaluate" => Incomplete + Len(generated) + Possible <= Bound + Batch

\* Multiplying by a natural number is monotonic.
LEMMA TimesMonotonic ==
  ASSUME NEW a \in Int, NEW b \in Int, NEW c \in Nat, a <= b
  PROVE  a * c <= b * c
OBVIOUS

LEMMA LeftBounded ==
  ASSUME NEW S \in SUBSET Policies
  PROVE  /\ IsFiniteSet(S) /\ Cardinality(S) \in Nat /\ NumPolicies \in Nat
         /\ Cardinality(S) <= NumPolicies
BY ConstantsAssumption, FS_Subset, FS_CardinalityType DEF ConstantsAssumption, NumPolicies

LEMMA LimitInductive ==
  ASSUME TypeOK, TypeOK', LimitOK, [Next]_vars
  PROVE  LimitOK'
<1> SUFFICES ASSUME rejectPipelineThreshold > 0, maxPipelinesPerPolicy > 0
             PROVE  /\ Incomplete' <= Bound' + Batch
                    /\ phase' = "list" => Incomplete' <= Bound'
                    /\ phase' = "evaluate" =>
                         Incomplete' + Len(generated') + Possible' <= Bound' + Batch
  BY DEF LimitOK, Batch
<1> DEFINE c == maxPipelinesPerPolicy
           K == NumPolicies
           T == rejectPipelineThreshold
<1>0. c \in Nat /\ K \in Nat /\ T \in Nat /\ MaxReports \in Nat
  BY ConstantsAssumption, LeftBounded DEF ConstantsAssumption
<1>1. Batch \in Nat /\ Bound \in Int /\ Bound' \in Int
  <2>1. Batch \in Nat
    BY <1>0 DEF Batch, NumPolicies
  <2>2. lag \in Int /\ lag' \in Int
    BY DEF TypeOK
  <2>3. Bound \in Int /\ Bound' \in Int
    BY <1>0, <2>2 DEF Bound
  <2> QED
    BY <2>1, <2>3
<1>2. /\ Cardinality(left) \in Nat /\ Cardinality(left') \in Nat
      /\ pending \in Nat /\ pending' \in Nat
      /\ Incomplete \in Nat /\ waiting \in Nat /\ active \in Nat
      /\ Len(generated) \in Nat /\ Len(generated') \in Nat
  <2>1. /\ left \in SUBSET Policies /\ left' \in SUBSET Policies
        /\ generated \in Seq(Policies) /\ generated' \in Seq(Policies)
        /\ pending \in Nat /\ pending' \in Nat
        /\ waiting \in Nat /\ active \in Nat
    BY <1>0 DEF TypeOK
  <2>2. Cardinality(left) \in Nat /\ Cardinality(left') \in Nat
    BY <2>1, LeftBounded
  <2>3. Len(generated) \in Nat /\ Len(generated') \in Nat
    BY <2>1
  <2> QED
    BY <2>1, <2>2, <2>3 DEF Incomplete
<1>3. Possible \in Nat /\ Possible' \in Nat
  <2> HIDE DEF c, K
  <2>1. pending * K + Cardinality(left) \in Nat /\ pending' * K + Cardinality(left') \in Nat
    BY <1>0, <1>2
  <2>2. /\ (pending * K + Cardinality(left)) * c \in Nat
        /\ (pending' * K + Cardinality(left')) * c \in Nat
    <3> DEFINE a == pending * K + Cardinality(left)
               b == pending' * K + Cardinality(left')
    <3>1. a \in Nat /\ b \in Nat
      BY <2>1
    <3> HIDE DEF a, b
    <3>2. a * c \in Nat /\ b * c \in Nat
      BY <1>0, <3>1
    <3> QED
      BY <3>2 DEF a, b
  <2> QED
    BY <2>2 DEF Possible, c, K
<1>4. /\ Incomplete <= Bound + Batch
      /\ phase = "list" => Incomplete <= Bound
      /\ phase = "evaluate" => Incomplete + Len(generated) + Possible <= Bound + Batch
  BY DEF LimitOK
<1> USE DEF busVars, eventVars, clusterVars, history
<1>5. CASE PassThreshold
  <2>1. cached < T /\ cached \in Nat /\ lag' = Incomplete - cached
    BY <1>5, <1>0 DEF PassThreshold, AtThreshold, TypeOK, Incomplete
  <2>2. Incomplete' = Incomplete /\ Bound' = T - 1 + (Incomplete - cached)
    BY <1>5, <2>1 DEF PassThreshold, Bound, Incomplete
  <2>3. phase' = "list"
    BY <1>5 DEF PassThreshold
  <2> QED
    BY <1>0, <1>1, <1>2, <2>1, <2>2, <2>3
<1>6. CASE ListPolicies
  <2>1. left' = {} /\ generated' = <<>> /\ pending' = pending /\ pending <= MaxReports
    BY <1>6 DEF ListPolicies, TypeOK
  <2>2. Cardinality(left') = 0 /\ Len(generated') = 0
    BY <2>1, FS_EmptySet
  <2>3. pending * K <= MaxReports * K
    BY <1>0, <1>2, <2>1, TimesMonotonic
  <2>4. (pending * K) * c <= (MaxReports * K) * c
    BY <1>0, <1>2, <2>3, TimesMonotonic
  <2>5. Possible' = (pending * K) * c /\ Batch = (MaxReports * K) * c
    BY <1>0, <1>2, <2>1, <2>2 DEF Possible, Batch, NumPolicies
  <2>6. phase = "list" /\ phase' = "evaluate" /\ Incomplete' = Incomplete /\ Bound' = Bound
    BY <1>6 DEF ListPolicies, Bound, Incomplete
  <2>7. (pending * K) * c \in Nat
    BY <1>0, <1>2
  <2> QED
    BY <1>1, <1>2, <1>4, <2>2, <2>4, <2>5, <2>6, <2>7
<1>7. CASE StartReport
  <2>1. /\ left = {} /\ left' \in SUBSET Policies /\ pending' = pending - 1 /\ pending > 0
        /\ UNCHANGED <<waiting, active, generated, phase, lag>> /\ phase = "evaluate"
    BY <1>7 DEF StartReport, TypeOK
  <2>2. Cardinality(left) = 0 /\ Cardinality(left') <= K
    BY <2>1, FS_EmptySet, LeftBounded
  <2>3. (pending - 1) * K = pending * K - K
    BY <1>0, <1>2
  <2>4. pending' * K + Cardinality(left') <= pending * K + Cardinality(left)
    BY <1>0, <1>2, <2>1, <2>2, <2>3
  <2>5. Possible' <= Possible
    <3>1. pending' * K + Cardinality(left') \in Int /\ pending * K + Cardinality(left) \in Int
      BY <1>0, <1>2
    <3> QED
      BY <1>0, <2>4, <3>1, TimesMonotonic DEF Possible
  <2> QED
    BY <1>1, <1>2, <1>3, <1>4, <2>1, <2>5 DEF Bound, Incomplete
<1>8. ASSUME NEW p \in Policies, NEW v \in Evaluations, EvaluatePolicy(p, v)
      PROVE  /\ Incomplete' <= Bound' + Batch
             /\ phase' = "evaluate"
             /\ Incomplete' + Len(generated') + Possible' <= Bound' + Batch
  <2>1. /\ phase = "evaluate" /\ p \in left /\ left' = left \ {p}
        /\ generated' = generated \o FromPolicy(p, v)
        /\ UNCHANGED <<waiting, active, pending, phase, lag>>
    BY <1>8 DEF EvaluatePolicy
  <2>2. Cardinality(left') = Cardinality(left) - 1
    BY <2>1, LeftBounded, FS_RemoveElement DEF TypeOK
  <2>3. Len(FromPolicy(p, v)) \in Nat /\ Len(FromPolicy(p, v)) <= c
    BY FromPolicyBounded
  <2>4. Len(generated') = Len(generated) + Len(FromPolicy(p, v))
    BY <2>1, FromPolicyBounded DEF TypeOK
  <2>5. pending' * K + Cardinality(left') = (pending * K + Cardinality(left)) - 1
    BY <1>0, <1>2, <2>1, <2>2
  <2>6. Possible' = Possible - c
    <3>1. \A x \in Int : (x - 1) * c = x * c - c
      BY <1>0
    <3>2. pending * K + Cardinality(left) \in Int
      BY <1>0, <1>2
    <3> QED
      BY <2>5, <3>1, <3>2 DEF Possible
  <2> HIDE DEF c
  <2>7. Bound' = Bound /\ Incomplete' = Incomplete
    BY <2>1 DEF Bound, Incomplete
  <2>8. Len(generated') + Possible' <= Len(generated) + Possible
    <3>1. c \in Nat /\ Possible \in Nat /\ Len(generated) \in Nat
      BY <1>0, <1>2, <1>3
    <3> HIDE DEF K
    <3> QED
      BY <2>3, <2>4, <2>6, <3>1
  <2>9. phase' = "evaluate" /\ Incomplete + Len(generated) + Possible <= Bound + Batch
    BY <1>4, <2>1
  <2>10. Incomplete' + Len(generated') + Possible' <= Bound' + Batch
    <3>1. Incomplete \in Nat /\ Possible \in Nat /\ Possible' \in Nat
          /\ Len(generated) \in Nat /\ Len(generated') \in Nat /\ Bound \in Int /\ Batch \in Nat
      BY <1>1, <1>2, <1>3
    <3> HIDE DEF K
    <3> QED
      BY <2>7, <2>8, <2>9, <3>1
  <2>11. Incomplete' <= Bound' + Batch
    BY <1>1, <1>2, <1>3, <2>7, <2>10
  <2> QED
    BY <2>9, <2>10, <2>11
<1>9. CASE CreatePipeline
  <2>1. /\ phase = "evaluate" /\ Len(generated') = Len(generated) - 1
        /\ Incomplete' = Incomplete + 1 /\ UNCHANGED <<pending, left, phase, lag>>
    BY <1>9 DEF CreatePipeline, TypeOK, Incomplete
  <2>2. Possible' = Possible /\ Bound' = Bound
    BY <2>1 DEF Possible, Bound, Incomplete
  <2> QED
    BY <1>1, <1>2, <1>3, <1>4, <2>1, <2>2
<1>10. CASE CreateFails
  <2>1. /\ phase = "evaluate" /\ Len(generated') = Len(generated) - 1
        /\ Incomplete' = Incomplete /\ UNCHANGED <<pending, left, phase, lag>>
    BY <1>10 DEF CreateFails, TypeOK, Incomplete
  <2>2. Possible' = Possible /\ Bound' = Bound
    BY <2>1 DEF Possible, Bound, Incomplete
  <2> QED
    BY <1>1, <1>2, <1>3, <1>4, <2>1, <2>2
<1>11. ASSUME Fail PROVE phase' = "answer" /\ Incomplete' <= Bound' + Batch
  BY <1>4, <1>11 DEF Fail, Bound, Incomplete
<1>12. CASE CountFails \/ Reject \/ ListFails \/ InvalidReport
  BY <1>11, <1>12 DEF CountFails, Reject, ListFails, InvalidReport
<1>13. ASSUME NEW n \in 0..MaxReports, Take(n)
       PROVE  phase' = "count" /\ Incomplete' <= Bound' + Batch
  BY <1>4, <1>13 DEF Take, Bound, Incomplete
<1>14. CASE Cluster
  <2>1. Incomplete' = Incomplete \/ Incomplete' = Incomplete - 1
    <3>1. StartPipeline => Incomplete' = Incomplete
      BY <1>2 DEF StartPipeline, Incomplete
    <3>2. CompletePipeline => Incomplete' = Incomplete - 1
      BY <1>2 DEF CompletePipeline, Incomplete
    <3>3. SyncCache => Incomplete' = Incomplete
      BY DEF SyncCache, Incomplete
    <3> QED
      BY <1>14, <3>1, <3>2, <3>3 DEF Cluster
  <2>2. UNCHANGED <<pending, left, generated, phase, lag>>
    BY <1>14 DEF Cluster, StartPipeline, CompletePipeline, SyncCache
  <2>3. Possible' = Possible /\ Bound' = Bound
    BY <2>2 DEF Possible, Bound, Incomplete
  <2> QED
    BY <1>1, <1>2, <1>3, <1>4, <2>1, <2>2, <2>3
<1>15. ASSUME UNCHANGED <<waiting, active, lag>>, phase' \notin {"list", "evaluate"}
       PROVE  Incomplete' <= Bound' + Batch
  BY <1>4, <1>15 DEF Bound, Incomplete
<1>16. CASE Accept \/ Answer \/ Wake \/ Stop
  BY <1>15, <1>16 DEF Accept, Answer, Wake, Stop
<1>17. ASSUME UNCHANGED <<waiting, active, lag, pending, left, generated, phase>>
       PROVE  /\ Incomplete' <= Bound' + Batch
              /\ phase' = "list" => Incomplete' <= Bound'
              /\ phase' = "evaluate" =>
                   Incomplete' + Len(generated') + Possible' <= Bound' + Batch
  <2>1. Possible' = Possible /\ Bound' = Bound /\ Incomplete' = Incomplete
    BY <1>17 DEF Possible, Bound, Incomplete
  <2> QED
    BY <1>4, <1>17, <2>1
<1>18. ASSUME NEW e \in Events, Enqueue(e)
       PROVE  UNCHANGED <<waiting, active, lag, pending, left, generated, phase>>
  BY <1>18 DEF Enqueue
<1>19. CASE Cancel \/ UNCHANGED vars
  BY <1>17, <1>19 DEF Cancel, vars
<1> QED
  BY <1>5, <1>6, <1>7, <1>8, <1>9, <1>10, <1>12, <1>13, <1>14, <1>16, <1>17, <1>18, <1>19
     DEF Next, Serve

LEMMA LimitInit == Init /\ TypeOK => LimitOK
<1> SUFFICES ASSUME Init, TypeOK PROVE LimitOK
  OBVIOUS
<1> SUFFICES ASSUME rejectPipelineThreshold > 0, maxPipelinesPerPolicy > 0
             PROVE  0 <= rejectPipelineThreshold - 1 + Batch
  BY ConstantsAssumption DEF Init, LimitOK, Bound, Incomplete, ConstantsAssumption
<1>1. Batch \in Nat
  BY ConstantsAssumption, LeftBounded DEF Batch, NumPolicies, ConstantsAssumption
<1> QED
  BY <1>1, ConstantsAssumption DEF ConstantsAssumption

\* The threshold is a soft limit: the last accepted event added no more than its
\* batch to the threshold and what the cache had not counted when it passed.
THEOREM LimitHolds == Spec => []SoftLimit
<1>1. Init /\ TypeOK => LimitOK
  BY LimitInit
<1>2. TypeOK /\ TypeOK' /\ LimitOK /\ [Next]_vars => LimitOK'
  BY LimitInductive
<1>3. LimitOK => SoftLimit
  BY DEF LimitOK, SoftLimit, Bound, Incomplete
<1> QED
  BY <1>1, <1>2, <1>3, TypeCorrect, PTL DEF Spec

-----------------------------------------------------------------------------
\* Every step of the goroutine is a step of the service it promises, or none:
\* counting, listing and evaluating are invisible, a failed creation shows
\* only when the shutdown refused it.
LEMMA GoroutineServes ==
  ASSUME TypeOK, BusOK, AttemptOK, Serve \/ Cluster \/ Cancel
  PROVE  Service!Serve \/ Service!Cancel \/ UNCHANGED Service!busVars
<1> DEFINE sched == IF phase \in Processing THEN "busy" ELSE phase
           outcome == [e \in Events |-> Outcome(e)]
<1> USE ConstantsAssumption DEF TypeOK, Processing, Phases, ConstantsAssumption,
      busVars, eventVars, clusterVars, history
<1>2. ASSUME NEW n \in 0..MaxReports, Take(n) PROVE Service!Take
  BY <1>2 DEF Take, Service!Take, Outcome
<1>3. CASE CreatePipeline
  BY <1>3 DEF CreatePipeline, Service!Serve, Service!Create, Outcome
<1>4. CASE CreateFails
  <2>1. CASE ctxDone
    BY <1>4, <2>1 DEF CreateFails, Service!Serve, Service!Interrupt, Outcome
  <2>2. CASE ~ctxDone
    BY <1>4, <2>2 DEF CreateFails, Service!busVars, Outcome
  <2> QED
    BY <2>1, <2>2
<1>5. CASE Answer
  <2>1. result[cur] = <<>> /\ cur \in Events /\ sched = "busy"
    BY <1>5 DEF Answer, BusOK
  <2>2. err = "error" => cur \notin made \union cut
    BY <1>5, <2>1 DEF Answer, AttemptOK
  <2>3. result' = [result EXCEPT ![cur] = <<err>>]
    BY <1>5, <2>1 DEF Answer
  <2>4. outcome' = [outcome EXCEPT ![cur] = err]
    BY <2>1, <2>3 DEF Outcome
  <2>5. Service!Answer(err)
    BY <1>5, <2>1, <2>2, <2>4 DEF Answer, Service!Answer
  <2> QED
    BY <2>5 DEF Service!Serve
<1>6. CASE Wake
  BY <1>6 DEF Wake, Service!Serve, Service!Wake, Outcome
<1>7. CASE Stop
  BY <1>7 DEF Stop, Service!Serve, Service!Stop, Outcome
<1>8. CASE Cancel
  BY <1>8 DEF Cancel, Service!Cancel, Outcome
<1>9. ASSUME phase \in Processing, phase' \in Processing,
             UNCHANGED <<sendq, cur, result, made, cut, ctxDone>>
      PROVE  UNCHANGED Service!busVars
  BY <1>9 DEF Service!busVars, Outcome
<1>10. CASE CountFails \/ Reject \/ PassThreshold \/ ListFails \/ ListPolicies
  BY <1>9, <1>10 DEF CountFails, Reject, PassThreshold, ListFails, ListPolicies, Fail
<1>11. CASE StartReport \/ InvalidReport \/ Accept
  BY <1>9, <1>11 DEF StartReport, InvalidReport, Accept, Fail
<1>12. ASSUME NEW p \in Policies, NEW v \in Evaluations, EvaluatePolicy(p, v)
       PROVE  UNCHANGED Service!busVars
  BY <1>9, <1>12 DEF EvaluatePolicy
<1>13. CASE Cluster
  BY <1>13 DEF Cluster, StartPipeline, CompletePipeline, SyncCache, Service!busVars, Outcome
<1> QED
  BY <1>2, <1>3, <1>4, <1>5, <1>6, <1>7, <1>8, <1>10, <1>11, <1>12, <1>13
     DEF Serve, Service!Serve

LEMMA StepsServe ==
  ASSUME TypeOK, BusOK, AttemptOK, [Next]_vars
  PROVE  [Service!Next]_(Service!busVars)
<1>1. ASSUME NEW e \in Events, Enqueue(e) PROVE Service!Enqueue(e)
  BY <1>1, ConstantsAssumption
     DEF Enqueue, Fresh, Service!Enqueue, Service!Fresh, Outcome, TypeOK, Processing, Phases,
         eventVars, clusterVars, history, ConstantsAssumption
<1>2. CASE Serve \/ Cluster \/ Cancel
  BY <1>2, GoroutineServes DEF Service!Next
<1>3. CASE UNCHANGED vars
  <2>1. UNCHANGED <<sendq, result, ctxDone, phase, cur, made, cut>>
    BY <1>3 DEF vars, busVars, history
  <2> QED
    BY <2>1 DEF Service!busVars, Outcome
<1> QED
  BY <1>1, <1>2, <1>3 DEF Next, Service!Next

\* The scheduler implements EventService: what module Intake relies on when it
\* puts the clients in front of that service.
THEOREM SchedulerServes == Spec => ServesEvents
<1>1. Init => Service!Init
  BY ConstantsAssumption
     DEF Init, Service!Init, Outcome, Processing, ConstantsAssumption
<1>2. TypeOK /\ BusOK /\ TriedOK /\ [Next]_vars => [Service!Next]_(Service!busVars)
  BY StepsServe DEF TriedOK
<1> QED
  BY <1>1, <1>2, ServingInvariant, PTL DEF Spec, ServesEvents, Service!Spec

-----------------------------------------------------------------------------
\* What is left to do before the event being processed is answered: a step for
\* each report, for each policy it meets and for each pipeline that may come of
\* it, and the steps before and after.
PerPolicy == 1 + MaxValues
PerReport == 1 + NumPolicies * PerPolicy
Ahead == [count |-> 4, list |-> 3, evaluate |-> 2, answer |-> 1]
ToDo  == pending * PerReport + Cardinality(left) * PerPolicy + Len(generated)
Work  == IF phase \in Processing THEN Ahead[phase] + ToDo ELSE 0

\* The steps an event takes at most, from the moment it is received.
Longest == 4 + MaxReports * PerReport
WorkOK  == Work <= Longest

\* Each step of the goroutine brings the answer nearer, and no step of a
\* client or of the cluster puts it off.
Nearer == phase \in Processing => IF Serve THEN Work' < Work ELSE Work' = Work

LEMMA FromPolicyValues ==
  ASSUME NEW p \in Policies, NEW v \in Evaluations
  PROVE  Len(FromPolicy(p, v)) \in Nat /\ Len(FromPolicy(p, v)) < PerPolicy
<1> DEFINE n == IF Generates(v) THEN v.values ELSE 0
<1>1. n \in Nat /\ n <= MaxValues /\ MaxValues \in Nat
  BY ConstantsAssumption DEF Evaluations, ConstantsAssumption
<1>2. FromPolicy(p, v) \in [1..n -> Policies]
  BY <1>1 DEF FromPolicy
<1>3. Len(FromPolicy(p, v)) = n
  BY <1>1, <1>2
<1> QED
  BY <1>1, <1>3 DEF PerPolicy

LEMMA WorkTyped ==
  ASSUME TypeOK
  PROVE  /\ pending \in Nat /\ Cardinality(left) \in Nat /\ Len(generated) \in Nat
         /\ PerPolicy \in Nat /\ PerReport \in Nat /\ NumPolicies \in Nat
         /\ ToDo \in Nat /\ Longest \in Nat
<1>1. MaxReports \in Nat /\ MaxValues \in Nat
  BY ConstantsAssumption DEF ConstantsAssumption
<1>2. pending \in Nat /\ Len(generated) \in Nat /\ left \in SUBSET Policies
  BY <1>1 DEF TypeOK
<1>3. Cardinality(left) \in Nat /\ NumPolicies \in Nat
  BY <1>2, LeftBounded
<1>4. PerPolicy \in Nat
  BY <1>1 DEF PerPolicy
<1>5. PerReport \in Nat
  BY <1>3, <1>4 DEF PerReport
<1>6. pending * PerReport \in Nat /\ MaxReports * PerReport \in Nat
  BY <1>1, <1>2, <1>5
<1>7. Cardinality(left) * PerPolicy \in Nat
  BY <1>3, <1>4
<1> DEFINE reports  == pending * PerReport
           policies == Cardinality(left) * PerPolicy
           longest  == MaxReports * PerReport
<1>8. reports \in Nat /\ policies \in Nat /\ longest \in Nat
  BY <1>6, <1>7
<1>9. ToDo = reports + policies + Len(generated) /\ Longest = 4 + longest
  BY DEF ToDo, Longest
<1> HIDE DEF reports, policies, longest
<1>10. ToDo \in Nat /\ Longest \in Nat
  BY <1>2, <1>8, <1>9
<1> QED
  BY <1>2, <1>3, <1>4, <1>5, <1>10

\* A step that only moves on in the sequence of phases.
LEMMA PhaseNearer ==
  ASSUME TypeOK, UNCHANGED eventVars \/ ToDo' = 0,
         phase \in Processing, phase' \in Processing, Ahead[phase'] < Ahead[phase]
  PROVE  Work' < Work
<1>1. ToDo' = ToDo \/ ToDo' = 0
  BY DEF ToDo, eventVars
<1>2. ToDo \in Nat
  BY WorkTyped
<1>3. Ahead[phase] \in Nat /\ Ahead[phase'] \in Nat
  BY DEF Ahead, Processing
<1> QED
  BY <1>1, <1>2, <1>3 DEF Work

LEMMA StepNearer ==
  ASSUME TypeOK, Serve, phase \in Processing
  PROVE  Work' < Work
<1>1. /\ pending \in Nat /\ Cardinality(left) \in Nat /\ Len(generated) \in Nat
      /\ PerPolicy \in Nat /\ PerReport \in Nat /\ NumPolicies \in Nat /\ ToDo \in Nat
  BY WorkTyped
<1>2. ASSUME Fail, phase \in {"count", "list", "evaluate"} PROVE Work' < Work
  <2>1. pending' = 0 /\ left' = {} /\ generated' = <<>> /\ phase' = "answer"
    BY <1>2 DEF Fail
  <2>2. ToDo' = 0
    BY <2>1, <1>1, FS_EmptySet DEF ToDo, PerReport, PerPolicy
  <2>3. Ahead[phase'] < Ahead[phase] /\ phase' \in Processing
    BY <1>2, <2>1 DEF Ahead, Processing
  <2> QED
    BY <2>2, <2>3, PhaseNearer
<1>3. CASE CountFails \/ Reject \/ ListFails \/ InvalidReport
  BY <1>2, <1>3 DEF CountFails, Reject, ListFails, InvalidReport
<1>4. CASE PassThreshold \/ ListPolicies \/ Accept
  <2>1. UNCHANGED <<pending, left, generated>>
    BY <1>4 DEF PassThreshold, ListPolicies, Accept, eventVars
  <2>2. ToDo' = ToDo
    BY <2>1 DEF ToDo
  <2>3. /\ phase \in Processing /\ phase' \in Processing
        /\ Ahead[phase] \in Nat /\ Ahead[phase'] \in Nat /\ Ahead[phase'] < Ahead[phase]
    BY <1>4 DEF PassThreshold, ListPolicies, Accept, Ahead, Processing
  <2> QED
    BY <1>1, <2>2, <2>3 DEF Work
<1>5. CASE Answer
  <2>1. phase = "answer" /\ phase' = "sleep"
    BY <1>5 DEF Answer
  <2>2. Work' = 0 /\ Work = 1 + ToDo
    BY <2>1 DEF Work, Ahead, Processing
  <2> QED
    BY <1>1, <2>2
<1>6. ASSUME phase = "evaluate", phase' = "evaluate", ToDo' \in Nat, ToDo' < ToDo
      PROVE  Work' < Work
  <2>1. Work = 2 + ToDo
    BY <1>6 DEF Work, Ahead, Processing
  <2>2. Work' = 2 + ToDo'
    BY <1>6 DEF Work, Ahead, Processing
  <2>3. \A m, n \in Nat : m < n => 2 + m < 2 + n
    OBVIOUS
  <2> QED
    BY <1>1, <1>6, <2>1, <2>2, <2>3
<1>7. CASE StartReport
  <2>1. /\ phase = "evaluate" /\ phase' = "evaluate" /\ left = {} /\ pending > 0
        /\ pending' = pending - 1 /\ left' = snapshot /\ generated' = generated
    BY <1>7 DEF StartReport
  <2>2. snapshot \in SUBSET Policies
    BY DEF TypeOK
  <2>3. Cardinality(left) = 0 /\ Cardinality(left') \in Nat /\ Cardinality(left') <= NumPolicies
    BY <2>1, <2>2, FS_EmptySet, LeftBounded
  <2>4. pending' * PerReport = pending * PerReport - PerReport
    BY <1>1, <2>1
  <2>5. Cardinality(left') * PerPolicy <= NumPolicies * PerPolicy
    BY <1>1, <2>3, TimesMonotonic
  <2>6. Cardinality(left') * PerPolicy < PerReport
    <3>1. Cardinality(left') * PerPolicy \in Int /\ NumPolicies * PerPolicy \in Int
      BY <1>1, <2>3
    <3> QED
      BY <2>5, <3>1 DEF PerReport
  <2>7. ToDo = pending * PerReport + Len(generated)
    BY <1>1, <2>3 DEF ToDo
  <2>8. ToDo' = (pending * PerReport - PerReport) + Cardinality(left') * PerPolicy + Len(generated)
    BY <2>1, <2>4 DEF ToDo, PerReport, PerPolicy, NumPolicies
  <2>9. pending * PerReport \in Nat /\ pending' * PerReport \in Nat
        /\ Cardinality(left') * PerPolicy \in Nat
    BY <1>1, <2>1, <2>3
  <2>10. ToDo' < ToDo /\ ToDo' \in Nat
    <3> DEFINE reports  == pending * PerReport
               policies == Cardinality(left') * PerPolicy
    <3>1. reports \in Nat /\ policies \in Nat /\ reports - PerReport \in Nat
      BY <2>4, <2>9
    <3>2. ToDo = reports + Len(generated) /\ policies < PerReport
      BY <2>6, <2>7
    <3>3. ToDo' = (reports - PerReport) + policies + Len(generated)
      BY <2>8
    <3> HIDE DEF reports, policies
    <3> QED
      BY <1>1, <3>1, <3>2, <3>3
  <2> QED
    BY <1>6, <2>1, <2>10
<1>8. ASSUME NEW p \in Policies, NEW v \in Evaluations, EvaluatePolicy(p, v)
      PROVE  Work' < Work
  <2>1. /\ phase = "evaluate" /\ phase' = "evaluate" /\ p \in left /\ left' = left \ {p}
        /\ pending' = pending /\ generated' = generated \o FromPolicy(p, v)
    BY <1>8 DEF EvaluatePolicy
  <2>2. Cardinality(left') = Cardinality(left) - 1 /\ Cardinality(left) - 1 \in Nat
    <3>1. left \in SUBSET Policies /\ left' \in SUBSET Policies
      BY <2>1 DEF TypeOK
    <3>2. IsFiniteSet(left) /\ Cardinality(left') \in Nat
      BY <3>1, LeftBounded
    <3>3. Cardinality(left') = Cardinality(left) - 1
      BY <2>1, <3>2, FS_RemoveElement
    <3> QED
      BY <3>2, <3>3
  <2>3. Len(FromPolicy(p, v)) \in Nat /\ Len(FromPolicy(p, v)) < PerPolicy
    BY FromPolicyValues
  <2>4. Len(generated') = Len(generated) + Len(FromPolicy(p, v))
    BY <2>1, FromPolicyBounded DEF TypeOK
  <2>5. Cardinality(left') * PerPolicy = Cardinality(left) * PerPolicy - PerPolicy
    BY <1>1, <2>2
  <2>6. /\ pending * PerReport \in Nat /\ Cardinality(left) * PerPolicy \in Nat
        /\ Cardinality(left') * PerPolicy \in Nat
    BY <1>1, <2>2
  <2>7. ToDo' = pending * PerReport + Cardinality(left') * PerPolicy + Len(generated')
    BY <2>1 DEF ToDo, PerReport, PerPolicy, NumPolicies
  <2>8. ToDo' < ToDo /\ ToDo' \in Nat
    <3> DEFINE reports == pending * PerReport
               policies == Cardinality(left) * PerPolicy
    <3>1. ToDo = reports + policies + Len(generated)
      BY DEF ToDo
    <3>2. ToDo' = reports + (policies - PerPolicy) + (Len(generated) + Len(FromPolicy(p, v)))
      BY <2>4, <2>5, <2>7
    <3>3. reports \in Nat /\ policies \in Nat /\ policies - PerPolicy \in Nat
      BY <2>5, <2>6
    <3> HIDE DEF reports, policies
    <3> QED
      BY <1>1, <2>3, <3>1, <3>2, <3>3
  <2> QED
    BY <1>6, <2>1, <2>8
<1>9. CASE CreatePipeline \/ CreateFails
  <2>1. /\ phase = "evaluate" /\ phase' = "evaluate" /\ left' = left /\ pending' = pending
        /\ generated # <<>> /\ generated' = Tail(generated) /\ generated \in Seq(Policies)
    BY <1>9 DEF CreatePipeline, CreateFails, TypeOK
  <2>2. Len(generated') = Len(generated) - 1 /\ Len(generated') \in Nat
    BY <2>1
  <2>3. pending * PerReport \in Nat /\ Cardinality(left) * PerPolicy \in Nat
    BY <1>1
  <2>4. ToDo' = pending * PerReport + Cardinality(left) * PerPolicy + Len(generated')
    BY <2>1 DEF ToDo, PerReport, PerPolicy, NumPolicies
  <2>5. ToDo' < ToDo /\ ToDo' \in Nat
    <3> DEFINE before == pending * PerReport + Cardinality(left) * PerPolicy
    <3>1. before \in Nat
      BY <2>3
    <3>2. ToDo = before + Len(generated) /\ ToDo' = before + Len(generated')
      BY <2>4 DEF ToDo
    <3> HIDE DEF before
    <3> QED
      BY <1>1, <2>2, <3>1, <3>2
  <2> QED
    BY <1>6, <2>1, <2>5
<1>10. /\ ~ \E n \in 0..MaxReports : Take(n)
       /\ ~Wake /\ ~Stop
  BY DEF Processing, Take, Wake, Stop
<1> QED
  BY <1>3, <1>4, <1>5, <1>7, <1>8, <1>9, <1>10 DEF Serve

LEMMA StepsNearer ==
  ASSUME TypeOK, [Next]_vars
  PROVE  Nearer
<1> SUFFICES ASSUME phase \in Processing, ~Serve
             PROVE  Work' = Work
  BY StepNearer DEF Nearer
<1>1. UNCHANGED <<phase, pending, left, generated>>
  BY DEF Next, Enqueue, Cancel, Cluster, StartPipeline, CompletePipeline, SyncCache, vars, eventVars
<1> QED
  BY <1>1 DEF Work, ToDo, Ahead

\* Receiving an event is what sets the work there is.
LEMMA WorkInductive ==
  ASSUME TypeOK, TypeOK', WorkOK, [Next]_vars
  PROVE  WorkOK'
<1> SUFFICES Work' <= Longest
  BY DEF WorkOK, Longest, PerReport, PerPolicy, NumPolicies
<1>1. Longest \in Nat /\ PerReport \in Nat /\ PerPolicy \in Nat
  BY WorkTyped
<1>2. Work \in Nat /\ Work' \in Nat
  <2>1. ToDo \in Nat
    BY WorkTyped
  <2>2. Ahead[phase] \in Nat \/ phase \notin Processing
    BY DEF Ahead, Processing
  <2>3. Ahead[phase'] \in Nat \/ phase' \notin Processing
    BY DEF Ahead, Processing
  <2>4. ToDo' \in Nat
    <3>1. pending' \in Nat /\ Len(generated') \in Nat /\ left' \in SUBSET Policies
      BY ConstantsAssumption DEF TypeOK, ConstantsAssumption
    <3>2. Cardinality(left') \in Nat
      BY <3>1, LeftBounded
    <3>3. \A m, n \in Nat : m * n \in Nat
      OBVIOUS
    <3>4. pending' * PerReport \in Nat /\ Cardinality(left') * PerPolicy \in Nat
      BY <1>1, <3>1, <3>2, <3>3
    <3>5. ToDo' = pending' * PerReport + Cardinality(left') * PerPolicy + Len(generated')
      BY DEF ToDo, PerReport, PerPolicy, NumPolicies
    <3> QED
      BY <3>1, <3>4, <3>5
  <2> QED
    BY <2>1, <2>2, <2>3, <2>4 DEF Work, Ahead
<1>3. CASE phase \in Processing
  BY <1>1, <1>2, <1>3, StepsNearer DEF Nearer, WorkOK
<1>4. ASSUME phase \notin Processing, NEW n \in 0..MaxReports, Take(n) PROVE Work' <= Longest
  <2>1. pending' = n /\ left' = {} /\ generated' = <<>> /\ phase' \in {"count", "list"}
    BY <1>4 DEF Take, TypeOK
  <2>2. n \in Nat /\ MaxReports \in Nat /\ n <= MaxReports
    BY ConstantsAssumption DEF ConstantsAssumption
  <2>3. n * PerReport <= MaxReports * PerReport
    BY <1>1, <2>2, TimesMonotonic
  <2>4. ToDo' = n * PerReport
    <3>1. Cardinality(left') = 0 /\ Len(generated') = 0
      BY <2>1, FS_EmptySet
    <3>2. ToDo' = n * PerReport + 0 * PerPolicy + 0
      BY <2>1, <3>1 DEF ToDo, PerReport, PerPolicy, NumPolicies
    <3>3. n * PerReport \in Nat /\ 0 * PerPolicy = 0
      BY <1>1, <2>2
    <3> QED
      BY <3>2, <3>3
  <2>5. Work' <= 4 + n * PerReport
    <3>1. n * PerReport \in Nat
      BY <1>1, <2>2
    <3> QED
      BY <2>1, <2>4, <3>1 DEF Work, Ahead, Processing
  <2>6. n * PerReport \in Nat /\ MaxReports * PerReport \in Nat
    BY <1>1, <2>2
  <2> QED
    BY <1>2, <2>3, <2>5, <2>6 DEF Longest
<1>5. ASSUME phase \notin Processing, ~ \E n \in 0..MaxReports : Take(n)
      PROVE  phase' \notin Processing
  BY <1>5 DEF Processing, Next, Serve, CountFails, Reject, PassThreshold, ListFails, ListPolicies,
     StartReport, InvalidReport, EvaluatePolicy, CreatePipeline, CreateFails, Accept, Answer, Wake,
     Stop, Enqueue, Cancel, Cluster, StartPipeline, CompletePipeline, SyncCache, vars
<1>6. phase' \notin Processing => Work' = 0
  BY DEF Work
<1> QED
  BY <1>1, <1>3, <1>4, <1>5, <1>6

\* The result channel of the event being answered has room: Start does not
\* wait for the client to read.
AnswerFits == phase = "answer" => Len(result[cur]) < ResultBuffer

\* Start answers every event it receives: within Longest of its own steps,
\* which no client can add to, and without waiting for the client to read.
THEOREM AnswerIsNear == Spec => [][Nearer]_vars /\ [](WorkOK /\ AnswerFits)
<1>1. Init /\ TypeOK => WorkOK
  BY WorkTyped DEF Init, Work, WorkOK, Processing
<1>2. TypeOK /\ TypeOK' /\ WorkOK /\ [Next]_vars => WorkOK'
  BY WorkInductive
<1>3. TypeOK /\ [Next]_vars => [Nearer]_vars
  BY StepsNearer
<1>4. TypeOK /\ BusOK => AnswerFits
  BY DEF TypeOK, BusOK, AnswerFits, Processing, ResultBuffer
<1> QED
  BY <1>1, <1>2, <1>3, <1>4, ServingInvariant, PTL DEF Spec
=============================================================================
