-------------------------- MODULE PolicyLifecycle --------------------------
(***************************************************************************)
(* The life of a ChalkReportPolicy: users create, edit and delete it in    *)
(* the API server, the reconciler adds and removes its finalizer and       *)
(* writes its Ready condition, and the scheduler evaluates it.  Both use   *)
(* the compiler, an LRU cache of CEL programs, each with its own and       *)
(* possibly old copy of the policy, read from the informer cache.          *)
(* Unless a deployment disables them, the admission webhooks default and   *)
(* validate every spec that is created or updated, the reconciler's too.   *)
(*                                                                         *)
(* External: the API server (an update is refused unless it is based on    *)
(* the stored object, a new spec has a new generation, a name used again   *)
(* has a new UID), the watch that feeds the informer in order, and the     *)
(* work queue.  A spec is a value; compiling it fails for Broken ones and  *)
(* the webhook refuses Refused ones.                                       *)
(***************************************************************************)
EXTENDS Naturals, Sequences, FiniteSets

CONSTANTS
  Names,          \* names of policies
  Specs,          \* contents of a policy's spec
  Broken,         \* of them, those with an expression that does not compile
  Refused,        \* of them, those whose pipeline template has a target
  Default,        \* Default[s]: s with a downloader in its pipeline template
  None,           \* no object, no program
  CacheSize,      \* entries of the LRU cache (1024 in the code)
  MaxUid,         \* bound: policies created in all
  MaxGeneration,  \* bound: generations of one policy
  MaxFailures     \* bound: refusals of an update that could have succeeded, and restarts

ASSUME PolicyAssumption ==
  /\ Broken \subseteq Specs
  /\ Refused \subseteq Specs
  /\ CacheSize \in Nat \ {0}
  /\ MaxUid \in Nat
  /\ MaxGeneration \in Nat \ {0}
  /\ MaxFailures \in Nat

ASSUME DefaultAssumption ==
  /\ Default \in [Specs -> Specs]
  /\ \A s \in Specs : Default[Default[s]] = Default[s]

VARIABLES
  \* the API server
  store,      \* store[n]: the policy named n, or None
  wanted,     \* wanted[n]: the spec its users asked for last
  webhooks,   \* whether the webhooks are enabled in the cluster
  uids,       \* number of UIDs used
  failures,   \* updates refused for other reasons than a conflict, restarts
  \* the manager's informer and work queue
  watch,      \* watch[n]: versions of n not yet delivered, oldest first
  informer,   \* informer[n]: the version of n the process sees
  dirty,      \* names to reconcile
  \* the compiler
  cache,      \* its entries: key, generation and program
  \* the reconciler's goroutine
  step,       \* where Reconcile is
  policy,     \* its copy of the policy, or None
  \* the scheduler's goroutine
  snapshot    \* the policies listed for the current event

apiVars == <<store, wanted, webhooks, uids, failures>>
informerVars == <<watch, informer, dirty>>
reconcilerVars == <<step, policy>>
vars == <<apiVars, informerVars, cache, reconcilerVars, snapshot>>

Conditions == {"Unknown", "True", "False"}

Objects ==
  [name : Names, uid : 1..MaxUid, generation : 1..MaxGeneration + 2, spec : Specs,
   ready : Conditions, observed : 0..MaxGeneration + 2,
   finalizer : BOOLEAN, deleting : BOOLEAN]

-----------------------------------------------------------------------------
\* The compiler.
\* Variant: entries are keyed by the name of the policy.
ByName(o) == o.name

Key(o) == o.uid

Programs ==
  [key : {Key(o) : o \in Objects}, generation : 1..MaxGeneration + 2, spec : Specs]

ASSUME NoneAssumption == None \notin Objects \union Programs

Compile(o) == [key |-> Key(o), generation |-> o.generation, spec |-> o.spec]

\* Variant: an entry is used whatever generation it was compiled from.
AnyEntry(o) == {c \in cache : c.key = Key(o)}

\* The entry Get may use instead of compiling.
Hits(o) == {c \in cache : c.key = Key(o) /\ c.generation = o.generation}

\* Variant: the cache never evicts.
AddOnly(p) == cache' = {c \in cache : c.key # p.key} \union {p}

\* The new entry replaces the one with its key, and evicts another one when
\* the cache is full (any: which one is a matter of performance).
Add(p) ==
  LET others == {c \in cache : c.key # p.key}
  IN  IF Cardinality(others) < CacheSize
      THEN cache' = others \union {p}
      ELSE \E old \in others : cache' = (others \ {old}) \union {p}

\* Compiler.Get(o) returns program p, or None with an error.  It holds the
\* mutex from the lookup to the insertion: one step.
Get(o, p) ==
  \/ p \in Hits(o) /\ UNCHANGED cache
  \/ Hits(o) = {} /\ o.spec \in Broken /\ p = None /\ UNCHANGED cache
  \/ Hits(o) = {} /\ o.spec \notin Broken /\ p = Compile(o) /\ Add(p)

-----------------------------------------------------------------------------
\* The webhooks fill in the downloader of a spec before they validate it.
Admission(s) == IF webhooks THEN Default[s] ELSE s

Admits(s) == webhooks => Admission(s) \notin Refused

\* The API server stores version o of the policy named n, and the watch
\* delivers it later.
Store(n, o) ==
  /\ store' = [store EXCEPT ![n] = o]
  /\ watch' = [watch EXCEPT ![n] = Append(@, o)]

Init ==
  /\ store = [n \in Names |-> None]
  /\ wanted = [n \in Names |-> None]
  /\ webhooks \in BOOLEAN
  /\ uids = 0
  /\ failures = 0
  /\ watch = [n \in Names |-> <<>>]
  /\ informer = [n \in Names |-> None]
  /\ dirty = {}
  /\ cache = {}
  /\ step = "idle"
  /\ policy = None
  /\ snapshot = {}

Create(n, s) ==
  /\ store[n] = None
  /\ uids < MaxUid
  /\ Admits(s)
  /\ uids' = uids + 1
  /\ Store(n, [name |-> n, uid |-> uids + 1, generation |-> 1, spec |-> Admission(s),
               ready |-> "Unknown", observed |-> 0, finalizer |-> FALSE, deleting |-> FALSE])
  /\ wanted' = [wanted EXCEPT ![n] = s]
  /\ UNCHANGED <<webhooks, failures, informer, dirty, cache, reconcilerVars, snapshot>>

Edit(n, s) ==
  /\ store[n] # None
  /\ Admits(s)
  /\ Admission(s) # store[n].spec
  /\ store[n].generation < MaxGeneration
  /\ Store(n, [store[n] EXCEPT !.spec = Admission(s), !.generation = @ + 1])
  /\ wanted' = [wanted EXCEPT ![n] = s]
  /\ UNCHANGED <<webhooks, uids, failures, informer, dirty, cache, reconcilerVars, snapshot>>

\* Without a finalizer the policy is gone at once.  Setting the deletion
\* timestamp gives it a new generation.
Delete(n) ==
  /\ store[n] # None
  /\ ~store[n].deleting
  /\ Store(n, IF store[n].finalizer
              THEN [store[n] EXCEPT !.deleting = TRUE, !.generation = @ + 1]
              ELSE None)
  /\ UNCHANGED <<wanted, webhooks, uids, failures, informer, dirty, cache, reconcilerVars, snapshot>>

\* The watch delivers the next version and the name is queued.
Deliver(n) ==
  /\ watch[n] # <<>>
  /\ informer' = [informer EXCEPT ![n] = Head(watch[n])]
  /\ watch' = [watch EXCEPT ![n] = Tail(@)]
  /\ dirty' = dirty \union {n}
  /\ UNCHANGED <<apiVars, cache, reconcilerVars, snapshot>>

-----------------------------------------------------------------------------
Steps == {"idle", "release", "forget", "adopt", "compile", "ready", "unready"}

Return ==
  /\ step' = "idle"
  /\ policy' = None

\* Reconcile reads its copy; a policy that is not found needs nothing.
StartReconcile(n) ==
  /\ step = "idle"
  /\ n \in dirty
  /\ dirty' = dirty \ {n}
  /\ IF informer[n] = None
     THEN Return
     ELSE /\ policy' = informer[n]
          /\ step' = IF informer[n].deleting        THEN "forget"
                     ELSE IF informer[n].finalizer  THEN "compile"
                     ELSE "adopt"
  /\ UNCHANGED <<apiVars, watch, informer, cache, snapshot>>

\* The policy is being deleted: its programs are dropped first.
Forget ==
  /\ step = "forget"
  /\ cache' = {c \in cache : c.key # Key(policy)}
  /\ step' = "release"
  /\ UNCHANGED <<apiVars, informerVars, policy, snapshot>>

\* The condition Reconcile sets; without a change there is nothing to write.
Condition(p) == IF p = None THEN "False" ELSE "True"

CompilePolicy(p) ==
  /\ step = "compile"
  /\ Get(policy, p)
  /\ IF policy.ready = Condition(p) /\ policy.observed = policy.generation
     THEN Return
     ELSE /\ step' = IF p = None THEN "unready" ELSE "ready"
          /\ UNCHANGED policy
  /\ UNCHANGED <<apiVars, informerVars, snapshot>>

\* What Reconcile writes back: the policy loses its finalizer when it is being
\* deleted (which removes it), gains it when it is new (and the webhook may
\* default it, which is a new generation), or has its condition.
Written ==
  CASE step = "release" -> None
    [] step = "adopt"   -> [policy EXCEPT !.finalizer = TRUE, !.spec = Admission(@),
                                          !.generation = IF Admission(policy.spec) = policy.spec
                                                         THEN @ ELSE @ + 1]
    [] step = "ready"   -> [policy EXCEPT !.ready = "True", !.observed = policy.generation]
    [] step = "unready" -> [policy EXCEPT !.ready = "False", !.observed = policy.generation]

\* Variant: the update carries no resource version.
Exists == store[policy.name] # None

\* Variant: it carries the generation instead.
SameGeneration ==
  store[policy.name] # None /\ store[policy.name].generation = policy.generation

\* An update is refused unless its copy is the stored version.
Current == store[policy.name] = policy

\* The webhooks see the updates of a policy, not those of its status.
Allowed == step \in {"release", "adopt"} => Admits(policy.spec)

Write ==
  /\ step \in {"release", "adopt", "ready", "unready"}
  /\ Current
  /\ Allowed
  /\ Store(policy.name, Written)
  /\ Return
  /\ UNCHANGED <<wanted, webhooks, uids, failures, informer, dirty, cache, snapshot>>

\* Variant: the error of the update is dropped.
ErrorDropped == dirty' = dirty

\* Reconcile returns the error, and the policy is queued again.
Retry == dirty' = dirty \union {policy.name}

\* The update conflicts, or is refused by the webhook or for another reason.
WriteFails ==
  /\ step \in {"release", "adopt", "ready", "unready"}
  /\ \/ ~(Current /\ Allowed) /\ UNCHANGED failures
     \/ failures < MaxFailures /\ failures' = failures + 1
  /\ Retry
  /\ Return
  /\ UNCHANGED <<store, wanted, webhooks, uids, watch, informer, cache, snapshot>>

-----------------------------------------------------------------------------
\* The scheduler lists the policies of the informer once for an event, and for
\* each of its reports gets the program of each policy that is Ready, whatever
\* generation Ready is of.
ListPolicies ==
  /\ snapshot' = {informer[n] : n \in Names} \ {None}
  /\ UNCHANGED <<apiVars, informerVars, cache, reconcilerVars>>

EvaluatePolicy(o, p) ==
  /\ o \in snapshot
  /\ IF o.ready = "True"
     THEN Get(o, p)
     ELSE p = None /\ UNCHANGED cache
  /\ UNCHANGED <<apiVars, informerVars, reconcilerVars, snapshot>>

\* A new process lists the policies, queues them all and has an empty cache.
\* It may be a new deployment, with the webhooks enabled or disabled.
Restart ==
  /\ failures < MaxFailures
  /\ failures' = failures + 1
  /\ informer' = store
  /\ watch' = [n \in Names |-> <<>>]
  /\ dirty' = {n \in Names : store[n] # None}
  /\ cache' = {}
  /\ Return
  /\ snapshot' = {}
  /\ webhooks' \in BOOLEAN
  /\ UNCHANGED <<store, wanted, uids>>

Reconcile ==
  \/ \E n \in Names : StartReconcile(n)
  \/ Forget
  \/ \E p \in Programs \union {None} : CompilePolicy(p)
  \/ Write
  \/ WriteFails

Schedule ==
  \/ ListPolicies
  \/ \E o \in snapshot, p \in Programs \union {None} : EvaluatePolicy(o, p)

Next ==
  \/ \E n \in Names, s \in Specs : Create(n, s) \/ Edit(n, s)
  \/ \E n \in Names : Delete(n) \/ Deliver(n)
  \/ Reconcile
  \/ Schedule
  \/ Restart

\* The watch and the reconciler's goroutine go on; nothing is assumed of the
\* users, of the scheduler and of failures.
Fairness ==
  /\ \A n \in Names : WF_vars(Deliver(n))
  /\ WF_vars(Reconcile)

Spec == Init /\ [][Next]_vars

FairSpec == Spec /\ Fairness

-----------------------------------------------------------------------------
\* Types, and the cache within its size with one entry for each key.
TypeOK ==
  /\ store \in [Names -> Objects \union {None}]
  /\ wanted \in [Names -> Specs \union {None}]
  /\ webhooks \in BOOLEAN
  /\ uids \in 0..MaxUid
  /\ failures \in 0..MaxFailures
  /\ watch \in [Names -> Seq(Objects \union {None})]
  /\ informer \in [Names -> Objects \union {None}]
  /\ dirty \subseteq Names
  /\ cache \subseteq Programs
  /\ Cardinality(cache) <= CacheSize
  /\ \A c, d \in cache : c.key = d.key => c = d
  /\ step \in Steps
  /\ policy \in Objects \union {None}
  /\ step = "idle" <=> policy = None
  /\ snapshot \subseteq Objects

\* The program the compiler returns for a copy of a policy (Compiler.Get) was
\* compiled from that very spec, and is what compiling that copy again would
\* return, although the reconciler and the scheduler share the cache with
\* copies of different ages, a name may be used again by a new policy, and the
\* scheduler may cache a program of a policy already deleted.
ProgramOfItsSpec ==
  \A o \in snapshot \union ({policy} \ {None}) : \A c \in Hits(o) :
    c = Compile(o) /\ o.spec \notin Broken

\* A Ready condition of the stored generation (Reconcile, ObservedGeneration)
\* says whether its expressions compile, though it was computed from a copy
\* and with a program that may have been cached by the scheduler.
ReadyIsTrue ==
  \A n \in Names :
    store[n] # None /\ store[n].observed = store[n].generation =>
      store[n].ready = IF store[n].spec \in Broken THEN "False" ELSE "True"

\* What Reconcile writes from its copy never overwrites an edit its users
\* made meanwhile (r.Update of the whole object with its resource version),
\* but for the downloader the webhook fills in, be it at that update.
EditsSurvive ==
  \A n \in Names : store[n] # None => store[n].spec \in {wanted[n], Default[wanted[n]]}

\* What Reconcile writes from its copy (r.Update and r.Status().Update) undoes
\* nothing of what was written meanwhile: a stored policy is not replaced by
\* an older one of its name, its generations do not go back, its deletion
\* stays requested, its finalizer stays until then, and one that has the
\* finalizer is only removed when its deletion was requested, be there an
\* older one of its name still being released.
NothingIsUndone ==
  [][\A n \in Names : store[n] # None =>
       IF store'[n] = None
       THEN store[n].finalizer => store[n].deleting
       ELSE /\ store'[n].uid = store[n].uid
            /\ store'[n].generation >= store[n].generation
            /\ store'[n].observed >= store[n].observed
            /\ store[n].deleting => store'[n].deleting
            /\ store[n].finalizer => store'[n].finalizer]_vars

\* A policy stored while the webhooks were disabled and which they refuse can
\* be neither adopted nor released once they are enabled.
Settled(n) ==
  \/ store[n] = None
  \/ ~Admits(store[n].spec)
  \/ ~store[n].deleting /\ store[n].finalizer /\ store[n].observed = store[n].generation

\* When its users let it be, a policy ends up gone or with the condition of
\* its generation, whatever conflicts, failed updates and restarts come in
\* between: every early return of Reconcile is followed by a new attempt.
Converges == \A n \in Names : <>[]Settled(n)
=============================================================================
