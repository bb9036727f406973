-------------------------- MODULE PolicyEvaluation --------------------------
(***************************************************************************)
(* One Ready policy against one report: Matches, Extract, the limit of     *)
(* pipelines per policy, the pipelines built from the template and their   *)
(* creation one by one, with what is recorded as events on the policy: the *)
(* client that sent the report gets no error for any of it.                *)
(*                                                                         *)
(* External: CEL.  An expression is the kind of value it has for each      *)
(* activation (an item of forEach, or NoEach without one).  The content of *)
(* a target or of a parameter list is the activation it was computed from. *)
(***************************************************************************)
EXTENDS Integers, Sequences, FiniteSets

CONSTANTS
  Items,                  \* values that forEach may list
  NoEach,                 \* the activation of a policy without forEach
  MaxItems,               \* bound: items of one list
  MaxBefore,              \* bound: pipelines created before for the same event
  maxPipelinesPerPolicy   \* the flag; 0 or less for no limit

ASSUME EvaluationAssumption ==
  /\ MaxItems \in Nat
  /\ MaxBefore \in Nat
  /\ maxPipelinesPerPolicy \in Int
  /\ NoEach \notin Items

Activations == Items \union {NoEach}

\* A target is a string map with an identifier, one without, or a list of
\* such maps; any other value, and an error of the evaluation, is "fails".
TargetKinds == {"map", "anonymous", "list", "fails"}

\* Parameters are a string map; there may be no expression.
ParamKinds == {"absent", "map", "fails"}

Lists == UNION {[1..n -> Items] : n \in 0..MaxItems}

\* forEach may be left out, fail or be no list.
ForEachValues ==
  [kind : {"absent", "fails"}, items : {<<>>}] \union [kind : {"list"}, items : Lists]

VARIABLES
  forEach,      \* the value of forEach
  target,       \* the kind of extraction.target for each activation
  profile,      \* the kind of profileParams for each activation
  downloader,   \* the kind of downloaderParams for each activation
  phase,        \* where the evaluation is
  activations,  \* those of Extract, in order
  values,       \* those extracted so far
  pipelines,    \* the pipelines generated
  before,       \* pipelines of the groups before (createdPipelines)
  tried,        \* pipelines whose creation was tried
  created,      \* of them, those that exist
  events        \* the events recorded on the policy

policyVars == <<forEach, target, profile, downloader, before>>
creationVars == <<tried, created>>
vars == <<policyVars, phase, activations, values, pipelines, creationVars, events>>

\* The reason of an event, and the number in its text (0 for none).
Event(reason, n) == [reason |-> reason, number |-> n]

Record(reason, n) == events' = events \union {Event(reason, n)}

Value(a) ==
  [target     |-> a,
   profile    |-> IF profile[a] = "absent" THEN <<>> ELSE <<a>>,
   downloader |-> IF downloader[a] = "absent" THEN <<>> ELSE <<a>>]

\* evalTarget wants one map with an identifier, evalParameters a map.
TargetOf(a) == target[a] = "map"
ParamsOf(a) == profile[a] # "fails" /\ downloader[a] # "fails"

\* A pipeline is a copy of the template with the parameters appended.
Pipeline(v) ==
  [target     |-> v.target,
   profile    |-> <<"template">> \o v.profile,
   downloader |-> <<"template">> \o v.downloader]

\* Variant: a list is dropped when it reaches the limit.
AtLimit(n) == maxPipelinesPerPolicy > 0 /\ n >= maxPipelinesPerPolicy

OverLimit(n) == maxPipelinesPerPolicy > 0 /\ n > maxPipelinesPerPolicy

-----------------------------------------------------------------------------
\* An expression is there or not whatever the activation.
Init ==
  /\ forEach \in ForEachValues
  /\ target \in [Activations -> TargetKinds]
  /\ profile \in [Activations -> {"absent"}] \union [Activations -> ParamKinds \ {"absent"}]
  /\ downloader \in [Activations -> {"absent"}] \union [Activations -> ParamKinds \ {"absent"}]
  /\ phase = "match"
  /\ activations = <<>>
  /\ values = <<>>
  /\ pipelines = <<>>
  /\ before \in 0..MaxBefore
  /\ tried = 0
  /\ created = {}
  /\ events = {}

Skip ==
  /\ phase' = "done"
  /\ UNCHANGED <<policyVars, activations, values, pipelines, creationVars>>

\* The match condition fails or is no boolean.
MatchFails == phase = "match" /\ Skip /\ Record("PolicyEvalFailed", 0)

NoMatch == phase = "match" /\ Skip /\ UNCHANGED events

\* Extract: evalForEach gives the activations.
Match ==
  /\ phase = "match"
  /\ forEach.kind # "fails"
  /\ activations' = IF forEach.kind = "absent" THEN <<NoEach>> ELSE forEach.items
  /\ phase' = "extract"
  /\ UNCHANGED <<policyVars, values, pipelines, creationVars, events>>

ForEachFails ==
  /\ phase = "match"
  /\ forEach.kind = "fails"
  /\ Skip
  /\ Record("PolicyExtractFailed", 0)

\* Variant: every target is evaluated with the first item.
FirstItem == activations[1]

\* The item of the next activation.
Each == activations[Len(values) + 1]

ExtractValue ==
  /\ phase = "extract"
  /\ Len(values) < Len(activations)
  /\ TargetOf(Each)
  /\ ParamsOf(Each)
  /\ values' = Append(values, Value(Each))
  /\ UNCHANGED <<policyVars, phase, activations, pipelines, creationVars, events>>

\* One item that fails ends the extraction, with nothing of the others.
ExtractFails ==
  /\ phase = "extract"
  /\ Len(values) < Len(activations)
  /\ ~(TargetOf(Each) /\ ParamsOf(Each))
  /\ Skip
  /\ Record("PolicyExtractFailed", 0)

\* Variant: the first pipelines are created up to the limit.
Truncate ==
  /\ phase' = "create"
  /\ pipelines' = [i \in 1..maxPipelinesPerPolicy |-> Pipeline(values[i])]
  /\ UNCHANGED <<policyVars, activations, values, creationVars, events>>

SkipTooMany == Skip /\ Record("TooManyPipelinesGenerated", 0)

TooMany ==
  /\ phase = "extract"
  /\ Len(values) = Len(activations)
  /\ OverLimit(Len(values))
  /\ SkipTooMany

Generate ==
  /\ phase = "extract"
  /\ Len(values) = Len(activations)
  /\ ~OverLimit(Len(values))
  /\ pipelines' = [i \in DOMAIN values |-> Pipeline(values[i])]
  /\ phase' = "create"
  /\ UNCHANGED <<policyVars, activations, values, creationVars, events>>

-----------------------------------------------------------------------------
More == phase = "create" /\ tried < Len(pipelines)

CreatePipeline ==
  /\ More
  /\ tried' = tried + 1
  /\ created' = created \union {tried'}
  /\ UNCHANGED <<policyVars, phase, activations, values, pipelines, events>>

\* Variant: the error is only logged.
LogOnly == UNCHANGED events

\* The event counts from 0.
ReportFailure == Record("FailedToCreatePipeline", tried)

\* A pipeline that fails does not keep the others from being created.
CreateFails ==
  /\ More
  /\ tried' = tried + 1
  /\ ReportFailure
  /\ UNCHANGED <<policyVars, phase, activations, values, pipelines, created>>

\* The event is formatted before the policy's own pipelines are counted.
CreationEnds ==
  /\ phase = "create"
  /\ tried = Len(pipelines)
  /\ phase' = "done"
  /\ IF created # {} THEN Record("PipelinesCreated", before) ELSE UNCHANGED events
  /\ UNCHANGED <<policyVars, activations, values, pipelines, creationVars>>

Next ==
  \/ MatchFails
  \/ NoMatch
  \/ Match
  \/ ForEachFails
  \/ ExtractValue
  \/ ExtractFails
  \/ TooMany
  \/ Generate
  \/ CreatePipeline
  \/ CreateFails
  \/ CreationEnds

Spec == Init /\ [][Next]_vars

-----------------------------------------------------------------------------
\* What the policy asks for: one item for each pipeline.
Asked == IF forEach.kind = "absent" THEN <<NoEach>> ELSE forEach.items

\* The pipeline of one item, with nothing of another item.
PipelineFor(a) ==
  [target     |-> a,
   profile    |-> IF profile[a] = "absent" THEN <<"template">> ELSE <<"template", a>>,
   downloader |-> IF downloader[a] = "absent" THEN <<"template">> ELSE <<"template", a>>]

Reasons ==
  {"PolicyEvalFailed", "PolicyExtractFailed", "TooManyPipelinesGenerated",
   "FailedToCreatePipeline", "PipelinesCreated"}

Told(reason) == \E e \in events : e.reason = reason

\* Types; nothing is created before the whole policy was evaluated.
TypeOK ==
  /\ phase \in {"match", "extract", "create", "done"}
  /\ activations \in Lists \union {<<NoEach>>}
  /\ values \in Seq([target : Activations, profile : Seq(Activations), downloader : Seq(Activations)])
  /\ Len(values) <= Len(activations)
  /\ pipelines # <<>> => Len(pipelines) = Len(activations)
  /\ tried \in 0..Len(pipelines)
  /\ created \subseteq 1..tried
  /\ before \in Nat
  /\ events \subseteq [reason : Reasons, number : Nat]

\* Extract is all or nothing: a policy generates the pipeline of every item it
\* asked for, in order and each with its own target and parameters, or none.
OnePipelinePerItem ==
  pipelines # <<>> =>
    /\ Len(pipelines) = Len(Asked)
    /\ \A i \in DOMAIN pipelines : pipelines[i] = PipelineFor(Asked[i])

\* "If pipelines fail to be created the errors will be logged to the policies
\* events": of a report that matched, every pipeline the policy asks for exists,
\* or the policy tells of it, and not both.
CreatedOrTold ==
  phase = "done" /\ activations # <<>> =>
    \/ /\ Told("PolicyExtractFailed") \/ Told("TooManyPipelinesGenerated")
       /\ created = {}
    \/ \A i \in DOMAIN Asked :
         i \in created <=> Event("FailedToCreatePipeline", i - 1) \notin events

\* The scheduler as far as it is evaluating this policy on this report: it has
\* the policy before it until the pipelines are generated or given up, and
\* then creates those.
Sched == INSTANCE Scheduler WITH
  Events     <- {"event"},
  Policies   <- {"policy"},
  None       <- "none",
  MaxReports <- 1,
  MaxValues  <- MaxItems + 1,
  rejectPipelineThreshold <- 0,
  sendq      <- <<>>,
  result     <- [e \in {"event"} |-> <<>>],
  ctxDone    <- FALSE,
  phase      <- "evaluate",
  cur        <- "event",
  pending    <- 0,
  snapshot   <- {"policy"},
  left       <- IF phase \in {"match", "extract"} THEN {"policy"} ELSE {},
  generated  <- [i \in 1..(Len(pipelines) - tried) |-> "policy"],
  err        <- "nil",
  waiting    <- Cardinality(created),
  active     <- 0,
  cached     <- 0,
  made       <- IF created = {} THEN {} ELSE {"event"},
  cut        <- {},
  lag        <- 0

\* The policy's evaluation as one outcome, computed from the whole of forEach
\* and not item by item, when its match condition yields m.
WellFormed ==
  forEach.kind # "fails" /\ \A i \in DOMAIN Asked : TargetOf(Asked[i]) /\ ParamsOf(Asked[i])

Verdict(m) ==
  [ready |-> TRUE, program |-> TRUE, match |-> m, extract |-> WellFormed, values |-> Len(Asked)]

\* createPipelinesForReport is one evaluation to the scheduler: whichever item
\* fails first and however many were extracted before, it yields the pipelines
\* of the whole list when every item is well formed and the list is within the
\* limit that SoftLimit counts on, exactly at the limit too, and none otherwise.
\* Then each of them is created, or is not, once.
ImplementsScheduler ==
  [][\/ \E m \in {"true", "false", "error"} :
          /\ Verdict(m) \in Sched!Evaluations
          /\ phase = "extract" => m = "true"
          /\ Sched!EvaluatePolicy("policy", Verdict(m))
     \/ Sched!CreatePipeline
     \/ Sched!CreateFails]_(Sched!vars)

\* The documented behaviour of a target that is a list of maps: a pipeline
\* for each (Target of ChalkReportPolicyExtraction), and never a failure.
TargetsMayBeLists ==
  phase = "done" /\ Told("PolicyExtractFailed") =>
    \/ forEach.kind = "fails"
    \/ \E i \in DOMAIN Asked : target[Asked[i]] \in {"anonymous", "fails"} \/ ~ParamsOf(Asked[i])

\* The event "report ... created %d pipeline" gives the number of pipelines
\* that were created for this report and policy.
SummaryIsOwn ==
  \A e \in events : e.reason = "PipelinesCreated" => e.number = Cardinality(created)
=============================================================================
