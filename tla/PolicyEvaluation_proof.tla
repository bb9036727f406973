----------------------- MODULE PolicyEvaluation_proof -----------------------
(***************************************************************************)
(* What a policy generates and tells, for every set of items, every length *)
(* of forEach and every limit.                                             *)
(***************************************************************************)
EXTENDS PolicyEvaluation, FiniteSetTheorems, TLAPS

Values == [target : Activations, profile : Seq(Activations), downloader : Seq(Activations)]

\* The list of activations that Match computes.
ActivationLists == Lists \union {<<NoEach>>}

LEMMA ListType == ActivationLists \subseteq Seq(Activations)
<1> SUFFICES ASSUME NEW s \in ActivationLists PROVE s \in Seq(Activations)
  OBVIOUS
<1>1. CASE s \in Lists
  <2>1. PICK n \in 0..MaxItems : s \in [1..n -> Items]
    BY <1>1 DEF Lists
  <2>2. n \in Nat
    BY EvaluationAssumption DEF EvaluationAssumption
  <2>3. s \in Seq(Items)
    BY <2>1, <2>2
  <2> QED
    BY <2>3 DEF Activations
<1>2. CASE s = <<NoEach>>
  BY <1>2 DEF Activations
<1> QED
  BY <1>1, <1>2 DEF ActivationLists

(***************************************************************************)
(* The values extracted so far are those of the first activations, which   *)
(* are what the policy asks for and well formed; until all of them are     *)
(* there, nothing is created and nobody told; then each try leaves a       *)
(* pipeline or an event.                                                   *)
(***************************************************************************)
Good(a) == TargetOf(a) /\ ParamsOf(a)

Inputs ==
  /\ forEach \in ForEachValues
  /\ before \in Nat

Extracting ==
  /\ phase = "match" => activations = <<>> /\ values = <<>>
  /\ phase \in {"extract", "create"} \/ activations # <<>> => activations = Asked
  /\ phase = "extract" => forEach.kind # "fails"
  /\ \A i \in 1..Len(values) : values[i] = Value(activations[i]) /\ Good(activations[i])

Quiet ==
  phase \in {"match", "extract"} =>
    events = {} /\ created = {} /\ tried = 0 /\ pipelines = <<>>

Generated ==
  /\ phase = "create" => Len(pipelines) = Len(activations)
  /\ \A i \in 1..Len(pipelines) : pipelines[i] = PipelineFor(Asked[i])

Failure(i) == Event("FailedToCreatePipeline", i - 1)

Counted ==
  /\ \A i \in 1..tried : i \in created <=> Failure(i) \notin events
  /\ \A e \in events : e.reason = "FailedToCreatePipeline" => e.number < tried

Refused == (Told("PolicyExtractFailed") \/ Told("TooManyPipelinesGenerated")) /\ created = {}

Ended ==
  phase = "done" /\ activations # <<>> =>
    Refused \/ (tried = Len(pipelines) /\ Len(pipelines) = Len(activations))

IInv ==
  TypeOK /\ Inputs /\ Extracting /\ Quiet /\ Generated /\ Counted /\ Ended

LEMMA AskedType == Inputs => Asked \in ActivationLists
<1> SUFFICES ASSUME Inputs PROVE Asked \in ActivationLists
  OBVIOUS
<1>1. forEach.kind # "absent" => forEach.items \in Lists
  <2>1. <<>> \in Lists
    BY EvaluationAssumption DEF EvaluationAssumption, Lists
  <2> QED
    BY <2>1 DEF Inputs, ForEachValues
<1> QED
  BY <1>1 DEF Asked, ActivationLists

LEMMA InitHolds == Init => IInv
<1> SUFFICES ASSUME Init PROVE IInv
  OBVIOUS
<1>1. <<>> \in Lists
  BY EvaluationAssumption DEF EvaluationAssumption, Lists
<1>2. before \in Nat
  BY EvaluationAssumption DEF EvaluationAssumption, Init
<1>3. TypeOK
  BY <1>1, <1>2 DEF Init, TypeOK
<1>4. Extracting /\ Quiet /\ Generated /\ Counted /\ Ended
  BY DEF Init, Extracting, Quiet, Generated, Counted, Ended
<1> QED
  BY <1>2, <1>3, <1>4 DEF Init, Inputs, IInv

\* A policy that is skipped, with or without an event.
LEMMA SkipKeeps ==
  ASSUME IInv, Skip, phase \in {"match", "extract"},
         NEW reason \in Reasons \ {"FailedToCreatePipeline"},
         events' = events \/ Record(reason, 0),
         activations # <<>> => events' # events /\ reason \in {"PolicyExtractFailed", "TooManyPipelinesGenerated"}
  PROVE  IInv'
<1>1. events = {} /\ created = {} /\ tried = 0 /\ pipelines = <<>>
  BY DEF IInv, Quiet
<1>2. /\ events' \in {{}, {Event(reason, 0)}}
      /\ phase' = "done"
      /\ UNCHANGED <<forEach, before, activations, values, pipelines, tried, created>>
  BY <1>1 DEF Record, Skip, policyVars, creationVars
<1>3. UNCHANGED <<Asked>>
  BY <1>2 DEF Asked
<1>4. TypeOK'
  BY <1>1, <1>2 DEF IInv, TypeOK, Event
<1>5. Inputs' /\ Quiet' /\ Generated' /\ Counted'
  BY <1>1, <1>2 DEF IInv, Inputs, Quiet, Generated, Counted, Event
<1>6. Extracting'
  BY <1>2, <1>3 DEF IInv, Extracting, Good, TargetOf, ParamsOf, Value, Skip, policyVars
<1>7. Ended'
  BY <1>1, <1>2 DEF Ended, Refused, Told, Event
<1> QED
  BY <1>4, <1>5, <1>6, <1>7 DEF IInv

LEMMA MatchKeeps == ASSUME IInv, Match PROVE IInv'
<1>1. /\ events = {} /\ created = {} /\ tried = 0 /\ pipelines = <<>> /\ values = <<>>
      /\ phase' = "extract" /\ forEach.kind # "fails"
      /\ UNCHANGED <<forEach, before, values, pipelines, tried, created, events>>
  BY DEF IInv, Quiet, Extracting, Match, policyVars, creationVars
<1>2. activations' = Asked /\ Asked' = Asked /\ Asked \in ActivationLists
  BY <1>1, AskedType DEF Match, Asked, IInv
<1>3. Len(Asked) \in Nat
  BY <1>2, ListType
<1>4. TypeOK'
  BY <1>1, <1>2, <1>3 DEF IInv, TypeOK, ActivationLists
<1> QED
  BY <1>1, <1>2, <1>4 DEF IInv, Inputs, Extracting, Quiet, Generated, Counted, Ended

LEMMA ValueType == \A a \in Activations : Value(a) \in Values
BY DEF Value, Values

LEMMA ExtractKeeps == ASSUME IInv, ExtractValue PROVE IInv'
<1>1. /\ phase = "extract" /\ phase' = "extract"
      /\ UNCHANGED <<forEach, target, profile, downloader, before, activations, pipelines, tried, created, events>>
      /\ values' = Append(values, Value(Each))
      /\ Len(values) < Len(activations) /\ Good(Each)
  BY DEF ExtractValue, Good, policyVars, creationVars
<1>2. activations \in Seq(Activations) /\ values \in Seq(Values)
  BY ListType DEF IInv, TypeOK, ActivationLists, Values
<1>3. Each = activations[Len(values) + 1] /\ Each \in Activations
  BY <1>1, <1>2 DEF Each
<1>4. /\ values' \in Seq(Values)
      /\ Len(values') = Len(values) + 1
      /\ \A i \in 1..Len(values) : values'[i] = values[i]
      /\ values'[Len(values) + 1] = Value(Each)
  BY <1>1, <1>2, <1>3, ValueType
<1>5. TypeOK'
  <2>1. Len(values') <= Len(activations)
    BY <1>1, <1>2, <1>4
  <2> QED
    BY <1>1, <1>4, <2>1 DEF IInv, TypeOK, Values
<1>6. Extracting'
  <2>1. ASSUME NEW i \in 1..Len(values')
        PROVE  values'[i] = Value(activations[i]) /\ Good(activations[i])
    <3>1. i \in 1..Len(values) \/ i = Len(values) + 1
      BY <1>2, <1>4
    <3> QED
      BY <1>1, <1>3, <1>4, <3>1 DEF IInv, Extracting
  <2> QED
    BY <1>1, <2>1 DEF IInv, Extracting, Good, TargetOf, ParamsOf, Value, Asked
<1> QED
  BY <1>1, <1>5, <1>6 DEF IInv, Inputs, Quiet, Generated, PipelineFor, Asked, Counted, Ended

\* The pipeline of a value is that of its activation.
LEMMA PipelineIsOwn ==
  \A a \in Activations : Pipeline(Value(a)) = PipelineFor(a)
<1> SUFFICES ASSUME NEW a \in Activations PROVE Pipeline(Value(a)) = PipelineFor(a)
  OBVIOUS
<1>1. <<"template">> \o <<>> = <<"template">>
  OBVIOUS
<1>2. <<"template">> \o <<a>> = <<"template", a>>
  <2> DEFINE s == <<"template">> \o <<a>>
             T == {"template", a}
  <2>1. s \in Seq(T) /\ Len(s) = 2 /\ s[1] = "template" /\ s[2] = a
    OBVIOUS
  <2> DEFINE t == <<"template", a>>
  <2>2. t \in Seq(T) /\ Len(t) = 2 /\ t[1] = "template" /\ t[2] = a
    OBVIOUS
  <2>3. \A i \in 1..2 : s[i] = t[i]
    <3> HIDE DEF s, t
    <3>1. \A i \in 1..2 : i = 1 \/ i = 2
      OBVIOUS
    <3> QED
      BY <2>1, <2>2, <3>1
  <2> HIDE DEF s, t, T
  <2>4. s = t
    BY <2>1, <2>2, <2>3
  <2> QED
    BY <2>4 DEF s, t
<1> QED
  BY <1>1, <1>2 DEF Pipeline, Value, PipelineFor

LEMMA GenerateKeeps == ASSUME IInv, Generate PROVE IInv'
<1>1. /\ phase = "extract" /\ phase' = "create"
      /\ UNCHANGED <<forEach, target, profile, downloader, before, activations, values, tried, created, events>>
      /\ pipelines' = [i \in DOMAIN values |-> Pipeline(values[i])]
      /\ Len(values) = Len(activations)
      /\ events = {} /\ created = {} /\ tried = 0
      /\ activations = Asked
  BY DEF IInv, Quiet, Extracting, Generate, policyVars, creationVars
<1>2. activations \in Seq(Activations) /\ values \in Seq(Values)
  BY ListType DEF IInv, TypeOK, ActivationLists, Values
<1>3. /\ DOMAIN values = 1..Len(values) /\ Len(values) \in Nat
      /\ Len(pipelines') = Len(values)
  BY <1>1, <1>2
<1>4. ASSUME NEW i \in 1..Len(values)
      PROVE  pipelines'[i] = PipelineFor(Asked[i])
  <2>1. values[i] = Value(activations[i]) /\ activations[i] \in Activations
    BY <1>1, <1>2 DEF IInv, Extracting
  <2> QED
    BY <1>1, <1>3, <2>1, PipelineIsOwn
<1>5. TypeOK'
  BY <1>1, <1>3 DEF IInv, TypeOK
<1>6. Generated'
  BY <1>1, <1>3, <1>4 DEF Generated, PipelineFor, Asked
<1>7. Extracting'
  BY <1>1 DEF IInv, Extracting, Good, TargetOf, ParamsOf, Value, Asked
<1> QED
  BY <1>1, <1>5, <1>6, <1>7 DEF IInv, Inputs, Quiet, Counted, Ended

\* One try: a pipeline more, or an event with its number.
LEMMA TryKeeps ==
  ASSUME IInv, CreatePipeline \/ CreateFails
  PROVE  IInv'
<1>1. /\ phase = "create" /\ phase' = "create" /\ tried < Len(pipelines) /\ tried' = tried + 1
      /\ UNCHANGED <<forEach, target, profile, downloader, before, activations, values, pipelines>>
      /\ \/ created' = created \union {tried'} /\ events' = events
         \/ created' = created /\ events' = events \union {Event("FailedToCreatePipeline", tried)}
  BY DEF CreatePipeline, CreateFails, ReportFailure, Record, More, policyVars
<1>2. /\ tried \in Nat /\ Len(pipelines) \in Nat
      /\ created \subseteq 1..tried
      /\ events \subseteq [reason : Reasons, number : Nat]
      /\ pipelines # <<>> => Len(pipelines) = Len(activations)
  <2>1. activations \in Seq(Activations)
    BY ListType DEF IInv, TypeOK, ActivationLists
  <2>2. Len(pipelines) = Len(activations)
    BY <1>1 DEF IInv, Generated
  <2> QED
    BY <2>1, <2>2 DEF IInv, TypeOK
<1>3. TypeOK'
  <2> DEFINE n == tried + 1
  <2>1. tried' \in 0..Len(pipelines) /\ created' \subseteq 1..tried'
    <3>1. tried' = n /\ n \in 0..Len(pipelines) /\ n \in 1..n /\ 1..tried \subseteq 1..n
      BY <1>1, <1>2
    <3>2. created' = created \/ created' = created \union {n}
      BY <1>1
    <3> HIDE DEF n
    <3> QED
      BY <1>2, <3>1, <3>2
  <2>2. events' \subseteq [reason : Reasons, number : Nat]
    BY <1>1, <1>2 DEF Event, Reasons
  <2> QED
    BY <1>1, <2>1, <2>2 DEF IInv, TypeOK
<1>4. Counted'
  <2>1. \A e \in events' : e.reason = "FailedToCreatePipeline" => e.number < tried + 1
    BY <1>1, <1>2 DEF IInv, Counted, Event
  <2>2. Failure(tried + 1) \notin events
    BY <1>2 DEF IInv, Counted, Failure, Event
  <2>3. ASSUME NEW i \in 1..(tried + 1)
        PROVE  i \in created' <=> Failure(i) \notin events'
    <3>1. CASE i = tried + 1
      <4>1. tried + 1 \notin created /\ (tried + 1) - 1 = tried
        BY <1>2
      <4> QED
        BY <1>1, <2>2, <3>1, <4>1 DEF Failure
    <3>2. CASE i # tried + 1
      <4>1. i \in 1..tried /\ i - 1 # tried
        BY <1>2, <3>2
      <4>2. Failure(i) # Event("FailedToCreatePipeline", tried)
        BY <4>1 DEF Failure, Event
      <4> QED
        BY <1>1, <3>2, <4>1, <4>2 DEF IInv, Counted
    <3> QED
      BY <3>1, <3>2
  <2> QED
    BY <1>1, <2>1, <2>3 DEF Counted, Failure
<1>5. Extracting' /\ Generated' /\ Inputs'
  BY <1>1 DEF IInv, Extracting, Good, TargetOf, ParamsOf, Generated, Inputs, Value, PipelineFor, Asked
<1> QED
  BY <1>1, <1>3, <1>4, <1>5 DEF IInv, Quiet, Ended

LEMMA EndKeeps == ASSUME IInv, CreationEnds PROVE IInv'
<1>1. /\ phase = "create" /\ phase' = "done" /\ tried = Len(pipelines)
      /\ UNCHANGED <<forEach, target, profile, downloader, before, activations, values, pipelines, tried, created>>
      /\ events' = events \/ events' = events \union {Event("PipelinesCreated", before)}
  BY DEF CreationEnds, Record, policyVars, creationVars
<1>2. Len(pipelines) = Len(activations)
  BY <1>1 DEF IInv, Generated
<1>3. Event("PipelinesCreated", before) \in [reason : Reasons, number : Nat]
  BY DEF IInv, Inputs, Event, Reasons
<1>4. TypeOK'
  BY <1>1, <1>3 DEF IInv, TypeOK
<1>5. Counted'
  BY <1>1 DEF IInv, Counted, Failure, Event
<1>6. Extracting' /\ Generated' /\ Inputs'
  BY <1>1 DEF IInv, Extracting, Good, TargetOf, ParamsOf, Generated, Inputs, Value, PipelineFor, Asked
<1> QED
  BY <1>1, <1>2, <1>4, <1>5, <1>6 DEF IInv, Quiet, Ended

LEMMA Inductive == Spec => []IInv
<1>1. IInv /\ [Next]_vars => IInv'
  <2> SUFFICES ASSUME IInv, [Next]_vars PROVE IInv'
    OBVIOUS
  <2>1. CASE MatchFails
    BY <2>1, SkipKeeps DEF MatchFails, IInv, Extracting, Reasons
  <2>2. CASE NoMatch
    <3>1. Skip /\ phase = "match" /\ events' = events /\ activations = <<>>
      BY <2>2 DEF NoMatch, IInv, Extracting
    <3>2. "PolicyEvalFailed" \in Reasons \ {"FailedToCreatePipeline"}
      BY DEF Reasons
    <3> QED
      BY <3>1, <3>2, SkipKeeps
  <2>3. CASE Match
    BY <2>3, MatchKeeps
  <2>4. CASE ForEachFails
    BY <2>4, SkipKeeps DEF ForEachFails, IInv, Extracting, Reasons
  <2>5. CASE ExtractValue
    BY <2>5, ExtractKeeps
  <2>6. CASE ExtractFails
    BY <2>6, SkipKeeps DEF ExtractFails, Record, Event, IInv, Quiet, Reasons
  <2>7. CASE TooMany
    <3>1. /\ Skip /\ phase = "extract" /\ Record("TooManyPipelinesGenerated", 0)
          /\ OverLimit(Len(values)) /\ Len(values) = Len(activations)
      BY <2>7 DEF TooMany, SkipTooMany
    <3>2. events' # events
      BY <3>1 DEF IInv, Quiet, Record
    <3>3. "TooManyPipelinesGenerated" \in Reasons \ {"FailedToCreatePipeline"}
      BY DEF Reasons
    <3> QED
      BY <3>1, <3>2, <3>3, SkipKeeps
  <2>8. CASE Generate
    BY <2>8, GenerateKeeps
  <2>9. CASE CreatePipeline \/ CreateFails
    BY <2>9, TryKeeps
  <2>10. CASE CreationEnds
    BY <2>10, EndKeeps
  <2>11. CASE UNCHANGED vars
    <3>1. /\ UNCHANGED <<forEach, target, profile, downloader, before, tried, created>>
          /\ UNCHANGED <<phase, activations, values, pipelines, events>>
      BY <2>11 DEF vars, policyVars, creationVars
    <3>2. TypeOK' /\ Inputs'
      BY <3>1 DEF IInv, TypeOK, Inputs
    <3>3. Asked' = Asked
      BY <3>1 DEF Asked
    <3>4. Extracting'
      BY <3>1, <3>3 DEF IInv, Extracting, Good, TargetOf, ParamsOf, Value
    <3>5. Quiet' /\ Counted'
      BY <3>1 DEF IInv, Quiet, Counted, Failure
    <3>6. Generated'
      BY <3>1, <3>3 DEF IInv, Generated, PipelineFor
    <3>7. Ended'
      BY <3>1, <3>3 DEF IInv, Ended, Refused, Told
    <3> QED
      BY <3>2, <3>4, <3>5, <3>6, <3>7 DEF IInv
  <2> QED
    BY <2>1, <2>2, <2>3, <2>4, <2>5, <2>6, <2>7, <2>8, <2>9, <2>10, <2>11 DEF Next
<1> QED
  BY InitHolds, <1>1, PTL DEF Spec

-----------------------------------------------------------------------------
\* The type invariant, and nothing created before the evaluation is over.
THEOREM TypeCorrect == Spec => []TypeOK
<1>1. IInv => TypeOK
  BY DEF IInv
<1> QED
  BY <1>1, Inductive, PTL

\* Extract is all or nothing, in the order of forEach (policy.go).
THEOREM AllOrNothing == Spec => []OnePipelinePerItem
<1>1. IInv => OnePipelinePerItem
  <2> SUFFICES ASSUME IInv, pipelines # <<>>
               PROVE  /\ Len(pipelines) = Len(Asked)
                      /\ \A i \in DOMAIN pipelines : pipelines[i] = PipelineFor(Asked[i])
    BY DEF OnePipelinePerItem
  <2>1. Len(pipelines) = Len(activations)
    BY DEF IInv, TypeOK
  <2> QED
    BY <2>1 DEF IInv, Extracting, Generated
<1> QED
  BY <1>1, Inductive, PTL

\* No pipeline of a matching report is lost in silence (processReports).
THEOREM NothingIsSilent == Spec => []CreatedOrTold
<1>1. IInv => CreatedOrTold
  <2> SUFFICES ASSUME IInv, phase = "done", activations # <<>>, ~Refused,
                      NEW i \in DOMAIN Asked
               PROVE  i \in created <=> Event("FailedToCreatePipeline", i - 1) \notin events
    BY DEF CreatedOrTold, Refused
  <2>1. activations = Asked /\ tried = Len(activations)
    BY DEF IInv, Extracting, Ended
  <2>2. activations \in Seq(Activations)
    BY ListType DEF IInv, TypeOK, ActivationLists
  <2>3. i \in 1..tried
    BY <2>1, <2>2
  <2> QED
    BY <2>3 DEF IInv, Counted, Failure
<1> QED
  BY <1>1, Inductive, PTL

-----------------------------------------------------------------------------
\* The pipelines the scheduler has yet to create, when there are n of them.
Rest(n) == [i \in 1..n |-> "policy"]

LEMMA RestFacts ==
  ASSUME NEW n \in Nat
  PROVE  /\ <<>> \o Rest(n) = Rest(n)
         /\ n # 0 => Rest(n) # <<>> /\ Tail(Rest(n)) = Rest(n - 1)
<1>1. Rest(n) \in Seq({"policy"}) /\ Len(Rest(n)) = n
  BY DEF Rest
<1>2. <<>> \o Rest(n) = Rest(n)
  BY <1>1
<1>3. ASSUME n # 0 PROVE Rest(n) # <<>> /\ Tail(Rest(n)) = Rest(n - 1)
  <2>1. Rest(n - 1) \in Seq({"policy"}) /\ Len(Rest(n - 1)) = n - 1
    BY <1>3 DEF Rest
  <2>2. Tail(Rest(n)) \in Seq({"policy"}) /\ Len(Tail(Rest(n))) = n - 1
    BY <1>1, <1>3
  <2>3. \A i \in 1..(n - 1) : Tail(Rest(n))[i] = Rest(n - 1)[i]
    BY <1>1, <1>3 DEF Rest
  <2> QED
    BY <1>1, <1>3, <2>1, <2>2, <2>3
<1> QED
  BY <1>2, <1>3

\* A step that evaluates the policy when its match condition yields m: to the
\* number of pipelines that its whole list comes to.
Came(m) == IF Sched!Generates(Verdict(m)) THEN Len(Asked) ELSE 0

Evaluated(m) == Verdict(m) \in Sched!Evaluations /\ Sched!EvaluatePolicy("policy", Verdict(m))

LEMMA AskedBounded == Inputs => Len(Asked) \in 0..(MaxItems + 1)
<1> SUFFICES ASSUME Inputs PROVE Len(Asked) \in 0..(MaxItems + 1)
  OBVIOUS
<1>1. CASE Asked \in Lists
  <2>1. PICK n \in 0..MaxItems : Asked \in [1..n -> Items]
    BY <1>1 DEF Lists
  <2>2. n \in Nat /\ MaxItems \in Nat /\ Len(Asked) = n
    BY <2>1, EvaluationAssumption DEF EvaluationAssumption
  <2> QED
    BY <2>1, <2>2
<1>2. CASE Asked = <<NoEach>>
  BY <1>2, EvaluationAssumption DEF EvaluationAssumption
<1> QED
  BY <1>1, <1>2, AskedType DEF ActivationLists

LEMMA Evaluates ==
  ASSUME Inputs, NEW m \in {"true", "false", "error"},
         phase \in {"match", "extract"}, phase' \in {"create", "done"},
         pipelines = <<>>, tried = 0, tried' = 0, Len(pipelines') = Came(m), created' = created
  PROVE  Evaluated(m)
<1> DEFINE v == Verdict(m)
           n == Came(m)
<1>1. Len(Asked) \in 0..(MaxItems + 1) /\ n \in Nat
  BY AskedBounded, EvaluationAssumption DEF EvaluationAssumption, Came
<1>2. v \in Sched!Evaluations
  <2>1. WellFormed \in BOOLEAN
    BY DEF WellFormed
  <2> QED
    BY <1>1, <2>1 DEF Sched!Evaluations, Verdict
<1>3. Sched!FromPolicy("policy", v) = Rest(n)
  <2>1. (IF Sched!Generates(v) THEN v.values ELSE 0) = n
    BY DEF Came, Verdict
  <2> QED
    BY <2>1 DEF Sched!FromPolicy, Rest
<1> HIDE DEF n
<1>4. /\ [i \in 1..(Len(pipelines) - tried) |-> "policy"] = <<>>
      /\ [i \in 1..(Len(pipelines') - tried') |-> "policy"] = Rest(n)
  BY <1>1 DEF Rest, n
<1>5. [i \in 1..(Len(pipelines') - tried') |-> "policy"]
        = [i \in 1..(Len(pipelines) - tried) |-> "policy"] \o Sched!FromPolicy("policy", v)
  BY <1>1, <1>3, <1>4, RestFacts
<1> HIDE DEF v
<1>6. Sched!EvaluatePolicy("policy", v)
  BY <1>5 DEF Sched!EvaluatePolicy, Sched!busVars, Sched!clusterVars, Sched!history
<1> QED
  BY <1>2, <1>6 DEF Evaluated, v

\* A policy that is given up generates nothing, and rightly so.
LEMMA SkipEvaluates ==
  ASSUME IInv, phase \in {"match", "extract"}, Skip,
         NEW m \in {"true", "false", "error"}, ~Sched!Generates(Verdict(m))
  PROVE  Evaluated(m)
<1>1. pipelines = <<>> /\ tried = 0 /\ Inputs
  BY DEF IInv, Quiet
<1>2. phase' = "done" /\ UNCHANGED <<pipelines, tried, created>>
  BY DEF Skip, creationVars
<1>3. Len(pipelines') = Came(m)
  BY <1>1, <1>2 DEF Came
<1> QED
  BY <1>1, <1>2, <1>3, Evaluates

\* An item that fails is one of the list.
LEMMA FailureIsOfPolicy ==
  ASSUME IInv, ExtractFails
  PROVE  ~WellFormed
<1>1. /\ activations = Asked /\ Len(values) < Len(activations)
      /\ ~(TargetOf(Each) /\ ParamsOf(Each))
  BY DEF IInv, Extracting, ExtractFails
<1>2. activations \in Seq(Activations) /\ Len(values) \in Nat
  BY ListType DEF IInv, TypeOK, ActivationLists
<1>3. Len(values) + 1 \in DOMAIN Asked /\ Each = Asked[Len(values) + 1]
  BY <1>1, <1>2 DEF Each
<1> QED
  BY <1>1, <1>3 DEF WellFormed

\* A list that is dropped is longer than the limit, and only such a list is.
LEMMA DroppedIsOver ==
  ASSUME IInv, Len(values) = Len(activations), phase = "extract"
  PROVE  OverLimit(Len(values)) <=> ~Sched!WithinLimit(Len(Asked))
<1>1. Len(values) = Len(Asked) /\ Len(Asked) \in Nat
  BY AskedBounded, EvaluationAssumption DEF IInv, Extracting, EvaluationAssumption
<1> QED
  BY <1>1, EvaluationAssumption DEF OverLimit, Sched!WithinLimit, EvaluationAssumption

\* What is generated is the whole list, all of it well formed.
LEMMA GenerateEvaluates ==
  ASSUME IInv, Generate
  PROVE  Evaluated("true")
<1>1. /\ phase = "extract" /\ phase' = "create" /\ UNCHANGED <<tried, created>>
      /\ pipelines = <<>> /\ tried = 0 /\ Inputs
      /\ pipelines' = [i \in DOMAIN values |-> Pipeline(values[i])]
      /\ Len(values) = Len(activations) /\ ~OverLimit(Len(values))
      /\ activations = Asked /\ forEach.kind # "fails"
  BY DEF IInv, Quiet, Extracting, Generate, creationVars
<1>2. values \in Seq(Values) /\ activations \in Seq(Activations)
  BY ListType DEF IInv, TypeOK, Values, ActivationLists
<1>3. Len(pipelines') = Len(values) /\ DOMAIN Asked = 1..Len(values)
  BY <1>1, <1>2
<1>4. WellFormed
  BY <1>1, <1>3 DEF IInv, Extracting, Good, WellFormed
<1>5. Sched!WithinLimit(Len(Asked))
  BY <1>1, DroppedIsOver
<1>6. Sched!Generates(Verdict("true"))
  BY <1>4, <1>5 DEF Sched!Generates, Verdict
<1>7. Len(pipelines') = Came("true")
  BY <1>1, <1>3, <1>6 DEF Came
<1> QED
  BY <1>1, <1>7, Evaluates

\* Each try creates one of the pipelines that are left, or fails to.
LEMMA TryCreates ==
  ASSUME IInv, CreatePipeline \/ CreateFails
  PROVE  Sched!CreatePipeline \/ Sched!CreateFails
<1>1. /\ phase = "create" /\ phase' = "create" /\ tried < Len(pipelines) /\ tried' = tried + 1
      /\ pipelines' = pipelines
      /\ \/ CreatePipeline /\ created' = created \union {tried + 1}
         \/ CreateFails /\ created' = created
  BY DEF CreatePipeline, CreateFails, More
<1>2. tried \in Nat /\ Len(pipelines) \in Nat /\ created \subseteq 1..tried
  <2>1. activations \in Seq(Activations) /\ Len(pipelines) = Len(activations)
    BY <1>1, ListType DEF IInv, TypeOK, Generated, ActivationLists
  <2> QED
    BY <2>1 DEF IInv, TypeOK
<1> DEFINE n == Len(pipelines) - tried
<1>3. n \in Nat /\ n # 0 /\ Len(pipelines') - tried' = n - 1
  BY <1>1, <1>2
<1>4. /\ [i \in 1..(Len(pipelines) - tried) |-> "policy"] = Rest(n)
      /\ [i \in 1..(Len(pipelines') - tried') |-> "policy"] = Rest(n - 1)
  BY <1>3 DEF Rest
<1>5. Rest(n) # <<>> /\ Rest(n - 1) = Tail(Rest(n))
  BY <1>3, RestFacts
<1>6. /\ [i \in 1..(Len(pipelines) - tried) |-> "policy"] # <<>>
      /\ [i \in 1..(Len(pipelines') - tried') |-> "policy"]
           = Tail([i \in 1..(Len(pipelines) - tried) |-> "policy"])
  BY <1>4, <1>5
<1> HIDE DEF n
<1>7. CASE created' = created
  BY <1>1, <1>6, <1>7
     DEF Sched!CreateFails, Sched!AllReportsEvaluated, Sched!busVars, Sched!clusterVars
<1>8. CASE created' = created \union {tried + 1}
  <2>1. IsFiniteSet(created) /\ tried + 1 \notin created
    <3>1. IsFiniteSet(1..tried)
      BY <1>2, FS_Interval
    <3>2. IsFiniteSet(created)
      BY <1>2, <3>1, FS_Subset
    <3>3. tried + 1 \notin 1..tried
      BY <1>2
    <3> QED
      BY <1>2, <3>2, <3>3
  <2>2. Cardinality(created') = Cardinality(created) + 1 /\ created' # {}
    BY <1>8, <2>1, FS_AddElement
  <2> QED
    BY <1>1, <1>6, <2>2
       DEF Sched!CreatePipeline, Sched!AllReportsEvaluated, Sched!busVars
<1> QED
  BY <1>1, <1>7, <1>8

\* What a policy generates and has created is what the scheduler's proofs take
\* it for: at most the limit, created one by one (createPipelinesForReport).
THEOREM EvaluationIsOfScheduler == Spec => ImplementsScheduler
<1> DEFINE A == \/ \E m \in {"true", "false", "error"} :
                     /\ Verdict(m) \in Sched!Evaluations
                     /\ phase = "extract" => m = "true"
                     /\ Sched!EvaluatePolicy("policy", Verdict(m))
                \/ Sched!CreatePipeline
                \/ Sched!CreateFails
<1>1. IInv /\ [Next]_vars => [A]_(Sched!vars)
  <2> SUFFICES ASSUME IInv, [Next]_vars PROVE [A]_(Sched!vars)
    OBVIOUS
  <2>1. ASSUME UNCHANGED <<pipelines, tried, created>>,
               phase' \in {"match", "extract"} <=> phase \in {"match", "extract"}
        PROVE  UNCHANGED Sched!vars
    BY <2>1 DEF Sched!vars, Sched!busVars, Sched!eventVars, Sched!clusterVars, Sched!history
  <2>2. ASSUME NEW m \in {"true", "false", "error"}, Evaluated(m), phase = "extract" => m = "true"
        PROVE  A
    BY <2>2 DEF Evaluated
  <2> HIDE DEF A
  <2>3. CASE MatchFails \/ NoMatch
    <3>1. phase = "match" /\ Skip /\ ~Sched!Generates(Verdict("false"))
      BY <2>3 DEF MatchFails, NoMatch, Sched!Generates, Verdict
    <3> QED
      BY <2>2, <3>1, SkipEvaluates
  <2>4. CASE ForEachFails
    <3>1. phase = "match" /\ Skip /\ ~Sched!Generates(Verdict("true"))
      BY <2>4 DEF ForEachFails, WellFormed, Sched!Generates, Verdict
    <3> QED
      BY <2>2, <3>1, SkipEvaluates
  <2>5. CASE ExtractFails
    <3>1. phase = "extract" /\ Skip /\ ~Sched!Generates(Verdict("true"))
      BY <2>5, FailureIsOfPolicy DEF ExtractFails, Sched!Generates, Verdict
    <3> QED
      BY <2>2, <3>1, SkipEvaluates
  <2>6. CASE TooMany
    <3>1. phase = "extract" /\ Skip /\ ~Sched!WithinLimit(Len(Asked))
      BY <2>6, DroppedIsOver DEF TooMany, SkipTooMany
    <3>2. ~Sched!Generates(Verdict("true"))
      BY <3>1 DEF Sched!Generates, Verdict
    <3> QED
      BY <2>2, <3>1, <3>2, SkipEvaluates
  <2>7. CASE Match \/ ExtractValue
    BY <2>1, <2>7 DEF Match, ExtractValue, creationVars
  <2>8. CASE Generate
    BY <2>2, <2>8, GenerateEvaluates
  <2>9. CASE CreatePipeline \/ CreateFails
    BY <2>9, TryCreates DEF A
  <2>10. CASE CreationEnds
    BY <2>1, <2>10 DEF CreationEnds, creationVars
  <2>11. CASE UNCHANGED vars
    BY <2>1, <2>11 DEF vars, creationVars
  <2> QED
    BY <2>3, <2>4, <2>5, <2>6, <2>7, <2>8, <2>9, <2>10, <2>11 DEF Next
<1> QED
  BY <1>1, Inductive, PTL DEF Spec, ImplementsScheduler
=============================================================================
