----------------------- MODULE PolicyLifecycle_proof -----------------------
(***************************************************************************)
(* Proofs about the policies and the compiler they share, for every set of *)
(* names and specs, every size of the cache and every bound.               *)
(***************************************************************************)
EXTENDS PolicyLifecycle, FiniteSetTheorems, TLAPS

USE PolicyAssumption DEF PolicyAssumption

-----------------------------------------------------------------------------
\* The cache is an LRU of CacheSize entries with one entry for each key.
CacheOK ==
  /\ cache \subseteq Programs
  /\ IsFiniteSet(cache)
  /\ Cardinality(cache) <= CacheSize
  /\ \A c, d \in cache : c.key = d.key => c = d

\* Adding a program keeps the cache in its bounds (lru.Cache.Add).
LEMMA AddKeepsCache ==
  ASSUME CacheOK, NEW p \in Programs, Add(p)
  PROVE  /\ CacheOK'
         /\ cache' \subseteq cache \union {p}
<1> DEFINE others == {c \in cache : c.key # p.key}
<1>1. /\ IsFiniteSet(others)
      /\ Cardinality(others) \in Nat
      /\ Cardinality(others) <= CacheSize
      /\ p \notin others
  <2>1. IsFiniteSet(others) /\ Cardinality(others) <= Cardinality(cache)
    BY FS_Subset DEF CacheOK
  <2>2. Cardinality(others) \in Nat /\ Cardinality(cache) \in Nat
    BY <2>1, FS_CardinalityType DEF CacheOK
  <2> QED
    BY <2>1, <2>2 DEF CacheOK
<1>2. ASSUME NEW kept, kept \subseteq others, IsFiniteSet(kept), Cardinality(kept) < CacheSize,
             cache' = kept \union {p}
      PROVE  CacheOK'
  <2>1. IsFiniteSet(cache') /\ Cardinality(cache') = Cardinality(kept) + 1
    BY <1>1, <1>2, FS_AddElement
  <2>2. Cardinality(cache') <= CacheSize
    BY <1>2, <2>1, FS_CardinalityType
  <2>3. cache' \subseteq Programs
    BY <1>2 DEF CacheOK
  <2>4. \A c, d \in cache' : c.key = d.key => c = d
    BY <1>2 DEF CacheOK
  <2> QED
    BY <2>1, <2>2, <2>3, <2>4 DEF CacheOK
<1>3. CASE Cardinality(others) < CacheSize
  <2>1. cache' = others \union {p}
    BY <1>3 DEF Add
  <2> HIDE DEF others
  <2>2. CacheOK'
    BY <1>1, <1>2, <1>3, <2>1
  <2> QED
    BY <2>1, <2>2 DEF others
<1>4. CASE ~(Cardinality(others) < CacheSize)
  <2>1. PICK old \in others : cache' = (others \ {old}) \union {p}
    BY <1>4 DEF Add
  <2> HIDE DEF others
  <2>2. IsFiniteSet(others \ {old}) /\ Cardinality(others \ {old}) = Cardinality(others) - 1
    BY <1>1, <2>1, FS_RemoveElement
  <2>3. Cardinality(others \ {old}) < CacheSize
    BY <1>1, <2>2
  <2>4. CacheOK'
    BY <1>2, <2>1, <2>2, <2>3
  <2> QED
    BY <2>1, <2>4 DEF others
<1> QED
  BY <1>3, <1>4

\* Compiler.Get keeps the cache in its bounds, and the only program it can
\* add is the one of the policy it was given.
LEMMA GetKeepsCache ==
  ASSUME CacheOK, NEW o \in Objects, NEW p, Get(o, p)
  PROVE  /\ CacheOK'
         /\ cache' \subseteq cache \union {Compile(o)}
<1>1. Compile(o) \in Programs
  BY DEF Compile, Programs, Objects
<1>2. CASE UNCHANGED cache
  BY <1>2 DEF CacheOK
<1>3. CASE p = Compile(o) /\ Add(p)
  BY <1>1, <1>3, AddKeepsCache
<1> QED
  BY <1>2, <1>3 DEF Get

-----------------------------------------------------------------------------
\* A policy that is not being deleted has room for the generations that its
\* adoption (when the webhook defaults it) and its deletion will give it.
HasRoom(o) ==
  o # None /\ ~o.deleting => /\ o.generation <= MaxGeneration + 1
                             /\ ~o.finalizer => o.generation <= MaxGeneration

RoomToDelete == \A n \in Names : HasRoom(store[n])

Values == Objects \union {None}

CountersOK ==
  /\ webhooks \in BOOLEAN
  /\ uids \in 0..MaxUid
  /\ failures \in 0..MaxFailures
  /\ dirty \subseteq Names

StoreOK ==
  /\ store \in [Names -> Values]
  /\ wanted \in [Names -> Specs \union {None}]
  /\ watch \in [Names -> Seq(Values)]
  /\ informer \in [Names -> Values]
  /\ RoomToDelete

CopiesOK ==
  /\ step \in Steps
  /\ policy \in Values
  /\ step = "idle" <=> policy = None
  /\ step = "adopt" => ~policy.finalizer /\ ~policy.deleting
  /\ snapshot \subseteq Objects

TypeInv == CountersOK /\ StoreOK /\ CopiesOK /\ CacheOK

LEMMA AdmissionTypes ==
  ASSUME NEW s \in Specs
  PROVE  Admission(s) \in Specs /\ Admission(s) \in {s, Default[s]}
BY DefaultAssumption DEF Admission, DefaultAssumption

\* What is stored is delivered by the watch later, and nothing else of the
\* API server changes.
LEMMA StoreKeepsTypes ==
  ASSUME StoreOK, NEW n \in Names, NEW o \in Values, Store(n, o),
         HasRoom(o),
         wanted' \in [Names -> Specs \union {None}], UNCHANGED informer
  PROVE  StoreOK'
<1>1. store' \in [Names -> Values]
  BY DEF StoreOK, Store
<1>2. Append(watch[n], o) \in Seq(Values)
  BY DEF StoreOK
<1>3. watch' \in [Names -> Seq(Values)]
  BY <1>2 DEF StoreOK, Store
<1>4. ASSUME NEW m \in Names
      PROVE  HasRoom(store'[m])
  <2>1. CASE m = n
    <3>1. store'[m] = o
      BY <2>1 DEF StoreOK, Store
    <3> QED
      BY <1>4, <3>1
  <2>2. CASE m # n
    <3>1. store'[m] = store[m]
      BY <2>2 DEF StoreOK, Store
    <3> QED
      BY <1>4, <3>1 DEF StoreOK, RoomToDelete
  <2> QED
    BY <2>1, <2>2
<1> QED
  BY <1>1, <1>3, <1>4 DEF StoreOK, RoomToDelete

\* What the reconciler writes is the version it read, or one of the next
\* generation when the webhook defaulted it.
LEMMA WrittenTypes ==
  ASSUME policy \in Objects, HasRoom(policy), policy # None,
         step \in {"release", "adopt", "ready", "unready"},
         step = "adopt" => ~policy.finalizer /\ ~policy.deleting
  PROVE  /\ Written \in Values
         /\ HasRoom(Written)
         /\ step # "release" => Written \in Objects
         /\ Written # None =>
              /\ Written \in Objects
              /\ Written.uid = policy.uid
              /\ Written.deleting = policy.deleting
              /\ Written.spec \in {policy.spec, Default[policy.spec]}
              /\ \/ Written.generation = policy.generation /\ Written.spec = policy.spec
                 \/ Written.generation = policy.generation + 1
<1>1. CASE step = "release"
  BY <1>1 DEF Written, Values, HasRoom
<1>2. CASE step = "adopt"
  <2> DEFINE t == Admission(policy.spec)
             g == IF t = policy.spec THEN policy.generation ELSE policy.generation + 1
  <2>1. t \in Specs /\ t \in {policy.spec, Default[policy.spec]}
    BY AdmissionTypes DEF Objects
  <2>2. /\ policy.generation \in 1..MaxGeneration + 2 /\ policy.generation <= MaxGeneration
        /\ ~policy.deleting
    BY <1>2 DEF Objects, HasRoom
  <2>3. g \in 1..MaxGeneration + 2 /\ g <= MaxGeneration + 1
    BY <2>2
  <2>4. Written = [policy EXCEPT !.finalizer = TRUE, !.spec = t, !.generation = g]
    BY <1>2 DEF Written
  <2>5. t # policy.spec => g = policy.generation + 1
    OBVIOUS
  <2>6. t = policy.spec => g = policy.generation
    OBVIOUS
  <2> HIDE DEF t, g
  <2>7. /\ Written \in Objects /\ Written.uid = policy.uid /\ Written.spec = t
        /\ Written.generation = g /\ Written.finalizer /\ Written.deleting = policy.deleting
    BY <2>1, <2>3, <2>4 DEF Objects
  <2> QED
    BY <2>1, <2>2, <2>3, <2>5, <2>6, <2>7 DEF HasRoom, Values
<1>3. ASSUME NEW r \in {"True", "False"},
             Written = [policy EXCEPT !.ready = r, !.observed = policy.generation]
      PROVE  /\ Written \in Objects
             /\ Written.uid = policy.uid
             /\ Written.generation = policy.generation
             /\ Written.spec = policy.spec
             /\ Written.finalizer = policy.finalizer
             /\ Written.deleting = policy.deleting
  <2>1. policy.generation \in 0..MaxGeneration + 2 /\ r \in Conditions
    BY DEF Objects, Conditions
  <2> HIDE DEF Conditions
  <2> QED
    BY <1>3, <2>1 DEF Objects
<1>4. CASE step \in {"ready", "unready"}
  <2>1. \E r \in {"True", "False"} :
          Written = [policy EXCEPT !.ready = r, !.observed = policy.generation]
    BY <1>4 DEF Written
  <2> QED
    BY <1>3, <2>1 DEF Values, HasRoom
<1> QED
  BY <1>1, <1>2, <1>4

\* Every action of the users, the informer, the reconciler and the scheduler
\* keeps the types.
LEMMA TypesInductive == TypeInv /\ [Next]_vars => TypeInv'
<1> SUFFICES ASSUME TypeInv, [Next]_vars PROVE TypeInv'
  OBVIOUS
<1> USE DEF TypeInv
<1>1. ASSUME NEW n \in Names, NEW s \in Specs, Create(n, s) PROVE TypeInv'
  <2> DEFINE o == [name |-> n, uid |-> uids + 1, generation |-> 1, spec |-> Admission(s),
                   ready |-> "Unknown", observed |-> 0, finalizer |-> FALSE, deleting |-> FALSE]
  <2>1. CountersOK' /\ uids + 1 \in 1..MaxUid
    BY <1>1 DEF Create, CountersOK
  <2>2. 0 \in 0..MaxGeneration + 2 /\ 1 \in 1..MaxGeneration + 2
    OBVIOUS
  <2>3. o \in Objects
    BY <2>1, <2>2, AdmissionTypes DEF Objects, Conditions
  <2>4. HasRoom(o)
    BY DEF HasRoom
  <2>5. wanted' \in [Names -> Specs \union {None}]
    BY <1>1 DEF Create, StoreOK
  <2>6. Store(n, o) /\ UNCHANGED <<informer, reconcilerVars, snapshot, cache>>
    BY <1>1 DEF Create
  <2> HIDE DEF o
  <2>7. StoreOK'
    BY <2>3, <2>4, <2>5, <2>6, StoreKeepsTypes DEF Values
  <2> QED
    BY <2>1, <2>6, <2>7 DEF CopiesOK, CacheOK, reconcilerVars
<1>2. ASSUME NEW n \in Names, NEW s \in Specs, Edit(n, s) PROVE TypeInv'
  <2> DEFINE o == [store[n] EXCEPT !.spec = Admission(s), !.generation = @ + 1]
  <2>1. store[n] \in Objects /\ store[n].generation < MaxGeneration
    BY <1>2 DEF Edit, StoreOK, Values
  <2>2. o \in Objects /\ HasRoom(o)
    <3>1. /\ store[n].generation + 1 \in 1..MaxGeneration + 2
          /\ store[n].generation + 1 <= MaxGeneration
      BY <2>1 DEF Objects
    <3>2. o.generation = store[n].generation + 1
      BY <2>1 DEF Objects
    <3>3. o \in Objects
      BY <2>1, <3>1, AdmissionTypes DEF Objects, Conditions
    <3> HIDE DEF o
    <3> QED
      BY <3>1, <3>2, <3>3 DEF HasRoom
  <2>3. wanted' \in [Names -> Specs \union {None}]
    BY <1>2 DEF Edit, StoreOK
  <2>4. Store(n, o) /\ UNCHANGED <<webhooks, uids, failures, informer, dirty, reconcilerVars, snapshot, cache>>
    BY <1>2 DEF Edit
  <2> HIDE DEF o
  <2>5. StoreOK'
    BY <2>2, <2>3, <2>4, StoreKeepsTypes DEF Values
  <2> QED
    BY <2>4, <2>5 DEF CountersOK, CopiesOK, CacheOK, reconcilerVars
<1>3. ASSUME NEW n \in Names, Delete(n) PROVE TypeInv'
  <2> DEFINE gone == [store[n] EXCEPT !.deleting = TRUE, !.generation = @ + 1]
             o == IF store[n].finalizer THEN gone ELSE None
  <2>1. store[n] \in Objects /\ ~store[n].deleting /\ store[n].generation <= MaxGeneration + 1
    BY <1>3 DEF Delete, StoreOK, RoomToDelete, HasRoom, Values
  <2>2. gone \in Objects /\ gone.deleting
    <3>1. store[n].generation + 1 \in 1..MaxGeneration + 2
      BY <2>1 DEF Objects
    <3> QED
      BY <2>1, <3>1 DEF Objects, Conditions
  <2>3. o \in Values /\ HasRoom(o)
    BY <2>2 DEF Values, HasRoom
  <2>4. /\ Store(n, o)
        /\ UNCHANGED <<wanted, webhooks, uids, failures, informer, dirty, reconcilerVars, snapshot, cache>>
    BY <1>3 DEF Delete
  <2> HIDE DEF o
  <2>5. StoreOK'
    BY <2>3, <2>4, StoreKeepsTypes DEF StoreOK
  <2> QED
    BY <2>4, <2>5 DEF CountersOK, CopiesOK, CacheOK, reconcilerVars
<1>4. ASSUME NEW n \in Names, Deliver(n) PROVE TypeInv'
  <2>1. Head(watch[n]) \in Values /\ Tail(watch[n]) \in Seq(Values)
    BY <1>4 DEF Deliver, StoreOK
  <2>2. StoreOK'
    BY <1>4, <2>1 DEF Deliver, StoreOK, RoomToDelete, apiVars
  <2> QED
    BY <1>4, <2>2 DEF Deliver, CountersOK, CopiesOK, CacheOK, apiVars, reconcilerVars
<1>5. ASSUME NEW n \in Names, StartReconcile(n) PROVE TypeInv'
  <2>1. CopiesOK'
    BY <1>5 DEF StartReconcile, Return, CopiesOK, StoreOK, Steps, Values
  <2> QED
    BY <1>5, <2>1 DEF StartReconcile, CountersOK, StoreOK, RoomToDelete, CacheOK, apiVars
<1>6. CASE Forget
  <2>1. CacheOK'
    <3>1. cache' \subseteq cache
      BY <1>6 DEF Forget
    <3>2. IsFiniteSet(cache') /\ Cardinality(cache') <= Cardinality(cache)
      BY <3>1, FS_Subset DEF CacheOK
    <3>3. Cardinality(cache') \in Nat /\ Cardinality(cache) \in Nat
      BY <3>2, FS_CardinalityType DEF CacheOK
    <3> QED
      BY <3>1, <3>2, <3>3 DEF CacheOK
  <2>2. CopiesOK'
    BY <1>6 DEF Forget, CopiesOK, Steps
  <2> QED
    BY <1>6, <2>1, <2>2 DEF Forget, CountersOK, StoreOK, RoomToDelete, apiVars, informerVars
<1>7. ASSUME NEW p \in Programs \union {None}, CompilePolicy(p) PROVE TypeInv'
  <2>1. policy \in Objects
    BY <1>7 DEF CompilePolicy, CopiesOK, Values
  <2>2. CacheOK'
    BY <1>7, <2>1, GetKeepsCache DEF CompilePolicy
  <2>3. CopiesOK'
    BY <1>7 DEF CompilePolicy, Return, CopiesOK, Steps, Values
  <2> QED
    BY <1>7, <2>2, <2>3
       DEF CompilePolicy, CountersOK, StoreOK, RoomToDelete, apiVars, informerVars
<1>8. CASE Write
  <2>1. policy \in Objects /\ policy.name \in Names /\ store[policy.name] = policy
    BY <1>8 DEF Write, Current, CopiesOK, Values, Objects
  <2>2. policy # None /\ HasRoom(policy)
    BY <1>8, <2>1 DEF Write, StoreOK, RoomToDelete, CopiesOK
  <2>3. Written \in Values /\ HasRoom(Written)
    BY <1>8, <2>1, <2>2, WrittenTypes DEF Write, CopiesOK
  <2>4. StoreOK'
    BY <1>8, <2>1, <2>3, StoreKeepsTypes DEF Write, StoreOK
  <2>5. CopiesOK'
    BY <1>8 DEF Write, Return, CopiesOK, Steps, Values
  <2> QED
    BY <1>8, <2>4, <2>5 DEF Write, CountersOK, CacheOK
<1>9. CASE WriteFails
  <2>1. policy \in Objects /\ policy.name \in Names
    BY <1>9 DEF WriteFails, CopiesOK, Values, Objects
  <2>2. CountersOK'
    BY <1>9, <2>1 DEF WriteFails, Retry, CountersOK
  <2>3. CopiesOK'
    BY <1>9 DEF WriteFails, Return, CopiesOK, Steps, Values
  <2> QED
    BY <1>9, <2>2, <2>3 DEF WriteFails, StoreOK, RoomToDelete, CacheOK
<1>10. CASE ListPolicies
  <2>1. snapshot' \subseteq Objects
    BY <1>10 DEF ListPolicies, StoreOK, Values
  <2> QED
    BY <1>10, <2>1 DEF ListPolicies, CountersOK, StoreOK, RoomToDelete, CopiesOK, CacheOK,
                       apiVars, informerVars, reconcilerVars
<1>11. ASSUME NEW o \in snapshot, NEW p \in Programs \union {None}, EvaluatePolicy(o, p)
       PROVE  TypeInv'
  <2>1. o \in Objects
    BY DEF CopiesOK
  <2>2. CacheOK'
    BY <1>11, <2>1, GetKeepsCache DEF EvaluatePolicy, CacheOK
  <2> QED
    BY <1>11, <2>2 DEF EvaluatePolicy, CountersOK, StoreOK, RoomToDelete, CopiesOK,
                       apiVars, informerVars, reconcilerVars
<1>12. CASE Restart
  <2>1. CacheOK'
    BY <1>12, FS_EmptySet DEF Restart, CacheOK
  <2>2. CopiesOK'
    BY <1>12 DEF Restart, Return, CopiesOK, Steps, Values
  <2>3. StoreOK'
    BY <1>12 DEF Restart, StoreOK, RoomToDelete
  <2>4. CountersOK'
    BY <1>12 DEF Restart, CountersOK
  <2> QED
    BY <2>1, <2>2, <2>3, <2>4
<1>13. CASE UNCHANGED vars
  BY <1>13 DEF CountersOK, StoreOK, RoomToDelete, CopiesOK, CacheOK, vars,
               apiVars, informerVars, reconcilerVars
<1> QED
  BY <1>1, <1>2, <1>3, <1>4, <1>5, <1>6, <1>7, <1>8, <1>9, <1>10, <1>11, <1>12, <1>13
     DEF Next, Reconcile, Schedule

LEMMA InitTypes == Init => TypeInv
<1> SUFFICES ASSUME Init PROVE TypeInv
  OBVIOUS
<1>1. CountersOK
  BY DEF Init, CountersOK
<1>2. StoreOK
  BY DEF Init, StoreOK, RoomToDelete, HasRoom, Values
<1>3. CopiesOK
  BY DEF Init, CopiesOK, Steps, Values
<1>4. CacheOK
  BY FS_EmptySet DEF Init, CacheOK
<1> QED
  BY <1>1, <1>2, <1>3, <1>4 DEF TypeInv

LEMMA TypeInvariant == Spec => []TypeInv
  BY InitTypes, TypesInductive, PTL DEF Spec

\* The compiler's cache never grows beyond its size nor holds two programs of
\* one policy, and every copy of a policy is one the program can have.
THEOREM TypeCorrect == Spec => []TypeOK
<1>1. TypeInv => TypeOK
  BY DEF TypeInv, CountersOK, StoreOK, CopiesOK, CacheOK, Values, TypeOK
<1> QED
  BY <1>1, TypeInvariant, PTL

-----------------------------------------------------------------------------
\* The identity of a version of a policy, and its spec.
Version(o) == <<o.uid, o.generation, o.spec>>

\* The copies of policies that any part of the system holds or will receive.
Undelivered == {o \in Values : \E n \in Names : \E i \in DOMAIN watch[n] : o = watch[n][i]}

Copies ==
  {store[n] : n \in Names} \union {informer[n] : n \in Names}
    \union Undelivered \union {policy} \union snapshot

\* The versions known from a copy, or compiled in the cache.
Known ==
  {Version(o) : o \in Copies \ {None}}
    \union {<<c.key, c.generation, c.spec>> : c \in cache}

\* UIDs and generations are given out once, so that one of each has one spec:
\* none is beyond the last UID, and none of a stored policy beyond its
\* generation.
OneSpec == \A v, w \in Known : v[1] = w[1] /\ v[2] = w[2] => v[3] = w[3]

UidsGiven == \A v \in Known : v[1] <= uids

GenerationsGiven ==
  \A n \in Names : store[n] # None =>
    \A v \in Known : v[1] = store[n].uid => v[2] <= store[n].generation

OneName ==
  \A m, n \in Names : store[m] # None /\ store[n] # None /\ store[m].uid = store[n].uid => m = n

VersionInv == OneSpec /\ UidsGiven /\ GenerationsGiven /\ OneName

\* The stored policies keep their versions, or are removed.
SameVersions ==
  \A n \in Names :
    store'[n] # None => /\ store[n] # None
                        /\ store'[n].uid = store[n].uid
                        /\ store'[n].generation = store[n].generation

\* A step that makes no new version keeps the invariant.
LEMMA NothingNew ==
  ASSUME VersionInv, Known' \subseteq Known, UNCHANGED uids, SameVersions
  PROVE  VersionInv'
<1>1. OneSpec'
  BY DEF VersionInv, OneSpec
<1>2. UidsGiven'
  BY DEF VersionInv, UidsGiven
<1>3. GenerationsGiven'
  <2> SUFFICES ASSUME NEW n \in Names, store'[n] # None, NEW v \in Known', v[1] = store'[n].uid
               PROVE  v[2] <= store'[n].generation
    BY DEF GenerationsGiven
  <2> QED
    BY DEF VersionInv, GenerationsGiven, SameVersions
<1>4. OneName'
  BY DEF VersionInv, OneName, SameVersions
<1> QED
  BY <1>1, <1>2, <1>3, <1>4 DEF VersionInv

LEMMA KnownTypes ==
  ASSUME TypeInv
  PROVE  /\ Copies \ {None} \subseteq Objects
         /\ \A v \in Known : v[1] \in Nat /\ v[2] \in Nat
<1>2. Copies \ {None} \subseteq Objects
  BY DEF TypeInv, StoreOK, CopiesOK, Copies, Undelivered, Values
<1>3. \A o \in Objects : Version(o)[1] \in Nat /\ Version(o)[2] \in Nat
  BY DEF Version, Objects
<1>4. \A c \in cache : c.key \in Nat /\ c.generation \in Nat
  <2>1. {Key(o) : o \in Objects} \subseteq Nat
    BY DEF Key, Objects
  <2> QED
    BY <2>1 DEF TypeInv, CacheOK, Programs
<1> QED
  BY <1>2, <1>3, <1>4 DEF Known

\* A version stored under the name n, of a new UID or of the next generation.
LEMMA NewVersion ==
  ASSUME VersionInv, TypeInv, NEW n \in Names, NEW o \in Objects,
         Known' \subseteq Known \union {Version(o)},
         store' = [store EXCEPT ![n] = o],
         \/ o.uid = uids + 1 /\ uids' = uids + 1
         \/ /\ store[n] # None /\ UNCHANGED uids
            /\ o.uid = store[n].uid /\ o.generation = store[n].generation + 1
  PROVE  VersionInv'
<1>1. /\ uids \in Nat /\ uids' \in Nat /\ uids <= uids'
      /\ o.uid \in Nat /\ o.generation \in Nat
      /\ \A m \in Names : store[m] # None => store[m] \in Objects
      /\ store \in [Names -> Values]
  <2>1. uids \in Nat /\ store \in [Names -> Values]
    BY DEF TypeInv, CountersOK, StoreOK
  <2>2. o.uid \in Nat /\ o.generation \in Nat
    BY DEF Objects
  <2>3. uids' \in Nat /\ uids <= uids'
    BY <2>1
  <2>4. \A m \in Names : store[m] # None => store[m] \in Objects
    BY <2>1 DEF Values
  <2> QED
    BY <2>1, <2>2, <2>3, <2>4
<1>2. \A m \in Names : store[m] # None => store[m].uid <= uids /\ store[m].uid \in Nat
  <2> TAKE m \in Names
  <2> HAVE store[m] # None
  <2>1. Version(store[m]) \in Known
    BY DEF Known, Copies
  <2>2. store[m].uid <= uids
    BY <2>1 DEF VersionInv, UidsGiven, Version
  <2> QED
    BY <1>1, <2>2 DEF Objects
<1>3. /\ store'[n] = o
      /\ \A m \in Names \ {n} : store'[m] = store[m]
  BY <1>1
<1>4. \A v \in Known : v[1] = o.uid => v[2] < o.generation
  <2> TAKE v \in Known
  <2> HAVE v[1] = o.uid
  <2>1. v[1] <= uids
    BY DEF VersionInv, UidsGiven
  <2>2. store[n] # None /\ o.uid = store[n].uid /\ o.generation = store[n].generation + 1
    BY <1>1, <2>1
  <2>3. v[2] <= store[n].generation
    BY <2>2 DEF VersionInv, GenerationsGiven
  <2>4. v[2] \in Nat
    BY KnownTypes
  <2> QED
    BY <1>1, <2>2, <2>3, <2>4 DEF Objects
<1>5. \A v \in Known' : v \in Known \/ v = Version(o)
  OBVIOUS
<1>6. Version(o)[1] = o.uid /\ Version(o)[2] = o.generation
  BY DEF Version
<1>7. \A m \in Names \ {n} : store[m] # None => store[m].uid # o.uid
  <2> TAKE m \in Names \ {n}
  <2> HAVE store[m] # None
  <2>1. CASE o.uid = uids + 1
    BY <1>1, <1>2, <2>1
  <2>2. CASE store[n] # None /\ o.uid = store[n].uid
    BY <2>2 DEF VersionInv, OneName
  <2> QED
    BY <2>1, <2>2
<1>8. OneSpec'
  <2> SUFFICES ASSUME NEW v \in Known', NEW w \in Known', v[1] = w[1], v[2] = w[2]
               PROVE  v[3] = w[3]
    BY DEF OneSpec
  <2>1. CASE v \in Known /\ w \in Known
    BY <2>1 DEF VersionInv, OneSpec
  <2>2. CASE v \in Known /\ w = Version(o)
    BY <1>1, <1>4, <1>6, <2>2
  <2>3. CASE v = Version(o) /\ w \in Known
    BY <1>1, <1>4, <1>6, <2>3
  <2> QED
    BY <1>5, <2>1, <2>2, <2>3
<1>9. UidsGiven'
  <2> SUFFICES ASSUME NEW v \in Known' PROVE v[1] <= uids'
    BY DEF UidsGiven
  <2>1. CASE v \in Known
    BY <1>1, <2>1, KnownTypes DEF VersionInv, UidsGiven
  <2>2. CASE v = Version(o)
    BY <1>1, <1>2, <1>6, <2>2
  <2> QED
    BY <1>5, <2>1, <2>2
<1>10. GenerationsGiven'
  <2> SUFFICES ASSUME NEW m \in Names, store'[m] # None, NEW v \in Known', v[1] = store'[m].uid
               PROVE  v[2] <= store'[m].generation
    BY DEF GenerationsGiven
  <2>1. CASE m = n /\ v \in Known
    BY <1>1, <1>3, <1>4, <2>1, KnownTypes
  <2>2. CASE m = n /\ v = Version(o)
    BY <1>1, <1>3, <1>6, <2>2
  <2>3. CASE m # n /\ v \in Known
    BY <1>3, <2>3 DEF VersionInv, GenerationsGiven
  <2>4. CASE m # n /\ v = Version(o)
    BY <1>3, <1>6, <1>7, <2>4
  <2> QED
    BY <1>5, <2>1, <2>2, <2>3, <2>4
<1>11. OneName'
  BY <1>3, <1>7 DEF VersionInv, OneName
<1> QED
  BY <1>8, <1>9, <1>10, <1>11 DEF VersionInv

\* What a step leaves of the copies.
LEMMA CopiesKept ==
  ASSUME Copies' \subseteq Copies \union {None}, cache' \subseteq cache
  PROVE  Known' \subseteq Known
BY DEF Known

\* The compiler only adds programs of versions that are known.
LEMMA GetKeepsVersions ==
  ASSUME NEW o \in Copies \ {None}, cache' \subseteq cache \union {Compile(o)},
         Copies' \subseteq Copies \union {None}
  PROVE  Known' \subseteq Known
<1>1. \A c \in cache' : <<c.key, c.generation, c.spec>> \in Known
  <2> TAKE c \in cache'
  <2>1. CASE c \in cache
    BY <2>1 DEF Known
  <2>2. CASE c = Compile(o)
    BY <2>2 DEF Known, Version, Compile, Key
  <2> QED
    BY <2>1, <2>2
<1>2. \A a \in Copies' \ {None} : Version(a) \in Known
  BY DEF Known
<1>3. Known' = {Version(a) : a \in Copies' \ {None}}
                 \union {<<c.key, c.generation, c.spec>> : c \in cache'}
  BY DEF Known, Version
<1> QED
  BY <1>1, <1>2, <1>3

\* Storing a version adds it to the copies, once for the API server and once
\* for the watch.
LEMMA StoreCopies ==
  ASSUME StoreOK, NEW n \in Names, NEW o \in Values, Store(n, o),
         UNCHANGED <<informer, snapshot>>, policy' \in {policy, None}
  PROVE  Copies' \subseteq Copies \union {o, None}
<1>1. \A m \in Names : store'[m] \in {store[m], o}
  BY DEF StoreOK, Store
<1>2. Undelivered' \subseteq Undelivered \union {o}
  <2> SUFFICES ASSUME NEW m \in Names, NEW i \in DOMAIN watch'[m], watch'[m][i] \in Values
               PROVE  watch'[m][i] \in Undelivered \union {o}
    BY DEF Undelivered
  <2>1. CASE m = n
    <3>1. watch[n] \in Seq(Values) /\ watch'[n] = Append(watch[n], o)
      BY DEF StoreOK, Store
    <3>2. i \in 1..Len(watch[n]) + 1
      BY <2>1, <3>1
    <3>3. CASE i \in 1..Len(watch[n])
      BY <2>1, <3>1, <3>3 DEF Undelivered
    <3>4. CASE i = Len(watch[n]) + 1
      BY <2>1, <3>1, <3>4
    <3> QED
      BY <3>1, <3>2, <3>3, <3>4
  <2>2. CASE m # n
    <3>1. watch'[m] = watch[m]
      BY <2>2 DEF StoreOK, Store
    <3> QED
      BY <3>1 DEF Undelivered
  <2> QED
    BY <2>1, <2>2
<1> QED
  BY <1>1, <1>2 DEF Copies

\* The next version delivered was among the undelivered ones.
LEMMA DeliverCopies ==
  ASSUME StoreOK, NEW n \in Names, Deliver(n)
  PROVE  Copies' \subseteq Copies
<1>1. watch[n] \in Seq(Values) /\ watch[n] # <<>>
  BY DEF StoreOK, Deliver
<1>2. Head(watch[n]) \in Undelivered
  BY <1>1 DEF Undelivered
<1>3. \A i \in DOMAIN Tail(watch[n]) :
        /\ i + 1 \in DOMAIN watch[n]
        /\ Tail(watch[n])[i] = watch[n][i + 1]
  BY <1>1
<1>4. \A m \in Names : /\ watch'[m] = IF m = n THEN Tail(watch[n]) ELSE watch[m]
                       /\ informer'[m] = IF m = n THEN Head(watch[n]) ELSE informer[m]
  BY DEF StoreOK, Deliver
<1>5. Undelivered' \subseteq Undelivered
  <2> SUFFICES ASSUME NEW m \in Names, NEW i \in DOMAIN watch'[m], watch'[m][i] \in Values
               PROVE  watch'[m][i] \in Undelivered
    BY DEF Undelivered
  <2>1. CASE m = n
    <3>1. watch'[m] = Tail(watch[n])
      BY <1>4, <2>1
    <3>2. i + 1 \in DOMAIN watch[n] /\ watch'[m][i] = watch[n][i + 1]
      BY <1>3, <3>1
    <3> QED
      BY <3>2 DEF Undelivered
  <2>2. CASE m # n
    <3>1. watch'[m] = watch[m]
      BY <1>4, <2>2
    <3> QED
      BY <3>1 DEF Undelivered
  <2> QED
    BY <2>1, <2>2
<1> QED
  BY <1>2, <1>4, <1>5 DEF Copies, Deliver, apiVars, reconcilerVars

\* No action gives one generation of one policy two specs, or the cache a
\* program of another spec.
LEMMA VersionsInductive == TypeInv /\ VersionInv /\ [Next]_vars => VersionInv'
<1> SUFFICES ASSUME TypeInv, VersionInv, [Next]_vars PROVE VersionInv'
  OBVIOUS
<1>1. StoreOK /\ CopiesOK /\ (\A n \in Names : store[n] # None => store[n] \in Objects)
  BY DEF TypeInv, StoreOK, Values
<1> DEFINE Stays == UNCHANGED <<uids, store>>
<1>2. ASSUME Stays, Known' \subseteq Known PROVE VersionInv'
  <2>1. SameVersions
    BY <1>2 DEF SameVersions
  <2> QED
    BY <1>2, <2>1, NothingNew
<1>3. ASSUME NEW n \in Names, NEW s \in Specs, Create(n, s) PROVE VersionInv'
  <2> DEFINE o == [name |-> n, uid |-> uids + 1, generation |-> 1, spec |-> Admission(s),
                   ready |-> "Unknown", observed |-> 0, finalizer |-> FALSE, deleting |-> FALSE]
  <2>1. uids + 1 \in 1..MaxUid
    BY <1>3 DEF Create, TypeInv, CountersOK
  <2>2. 0 \in 0..MaxGeneration + 2 /\ 1 \in 1..MaxGeneration + 2
    OBVIOUS
  <2>3. o \in Objects /\ o.uid = uids + 1
    BY <2>1, <2>2, AdmissionTypes DEF Objects, Conditions
  <2>4. Store(n, o) /\ uids' = uids + 1 /\ UNCHANGED <<informer, policy, snapshot, cache>>
    BY <1>3 DEF Create, reconcilerVars
  <2> HIDE DEF o
  <2>5. Copies' \subseteq Copies \union {o, None}
    BY <1>1, <2>3, <2>4, StoreCopies DEF Values
  <2>6. Known' \subseteq Known \union {Version(o)}
    BY <2>4, <2>5 DEF Known
  <2> QED
    BY <2>3, <2>4, <2>6, NewVersion DEF Store
<1>4. ASSUME NEW n \in Names, NEW o \in Objects, Store(n, o), store[n] # None,
             o.uid = store[n].uid, o.generation = store[n].generation + 1,
             UNCHANGED <<uids, informer, snapshot, cache>>, policy' \in {policy, None}
      PROVE  VersionInv'
  <2>1. Copies' \subseteq Copies \union {o, None}
    BY <1>1, <1>4, StoreCopies DEF Values
  <2>2. Known' \subseteq Known \union {Version(o)}
    BY <1>4, <2>1 DEF Known
  <2> QED
    BY <1>4, <2>2, NewVersion DEF Store
<1>5. ASSUME NEW n \in Names, NEW s \in Specs, Edit(n, s) PROVE VersionInv'
  <2> DEFINE o == [store[n] EXCEPT !.spec = Admission(s), !.generation = @ + 1]
  <2>1. store[n] # None /\ store[n] \in Objects
    BY <1>1, <1>5 DEF Edit
  <2>2. /\ store[n].generation + 1 \in 1..MaxGeneration + 2
        /\ o.uid = store[n].uid /\ o.generation = store[n].generation + 1
    BY <1>5, <2>1 DEF Edit, Objects
  <2>3. o \in Objects
    BY <2>1, <2>2, AdmissionTypes DEF Objects, Conditions
  <2>4. Store(n, o) /\ UNCHANGED <<uids, informer, policy, snapshot, cache>>
    BY <1>5 DEF Edit, reconcilerVars
  <2> HIDE DEF o
  <2> QED
    BY <1>4, <2>1, <2>2, <2>3, <2>4
<1>6. ASSUME NEW n \in Names, NEW o \in Values, Store(n, o),
             o # None => /\ store[n] # None
                         /\ o.uid = store[n].uid
                         /\ o.generation = store[n].generation
                         /\ o.spec = store[n].spec,
             UNCHANGED <<uids, informer, snapshot, cache>>, policy' \in {policy, None}
      PROVE  VersionInv'
  <2>1. Copies' \subseteq Copies \union {o, None}
    BY <1>1, <1>6, StoreCopies
  <2>2. o # None => Version(o) \in Known
    <3> HAVE o # None
    <3>1. Version(o) = Version(store[n]) /\ store[n] \in Copies \ {None}
      BY <1>6 DEF Version, Copies
    <3> QED
      BY <3>1 DEF Known
  <2>3. Known' \subseteq Known
    BY <1>6, <2>1, <2>2 DEF Known
  <2>4. SameVersions
    <3>1. \A m \in Names : store'[m] = IF m = n THEN o ELSE store[m]
      BY <1>6 DEF Store, TypeInv, StoreOK
    <3> QED
      BY <1>6, <3>1 DEF SameVersions
  <2> QED
    BY <1>6, <2>3, <2>4, NothingNew
<1>7. ASSUME NEW n \in Names, Delete(n) PROVE VersionInv'
  <2> DEFINE gone == [store[n] EXCEPT !.deleting = TRUE, !.generation = @ + 1]
  <2>1. store[n] \in Objects /\ store[n] # None /\ store[n].generation <= MaxGeneration + 1
    BY <1>1, <1>7 DEF Delete, StoreOK, RoomToDelete, HasRoom
  <2>2. UNCHANGED <<uids, informer, policy, snapshot, cache>>
    BY <1>7 DEF Delete, reconcilerVars
  <2>3. CASE store[n].finalizer
    <3>1. store[n].generation + 1 \in 1..MaxGeneration + 2
      BY <2>1 DEF Objects
    <3>2. gone \in Objects /\ gone.uid = store[n].uid /\ gone.generation = store[n].generation + 1
      BY <2>1, <3>1 DEF Objects, Conditions
    <3>3. Store(n, gone)
      BY <1>7, <2>3 DEF Delete
    <3> HIDE DEF gone
    <3> QED
      BY <1>4, <2>1, <2>2, <3>2, <3>3
  <2>4. CASE ~store[n].finalizer
    <3>1. Store(n, None)
      BY <1>7, <2>4 DEF Delete
    <3> QED
      BY <1>6, <2>2, <3>1 DEF Values
  <2> QED
    BY <2>3, <2>4
<1>8. ASSUME NEW n \in Names, Deliver(n) PROVE VersionInv'
  <2>1. Copies' \subseteq Copies
    BY <1>1, <1>8, DeliverCopies
  <2>2. Known' \subseteq Known
    BY <1>8, <2>1, CopiesKept DEF Deliver
  <2> QED
    BY <1>2, <1>8, <2>2 DEF Deliver, apiVars
<1>9. ASSUME NEW n \in Names, StartReconcile(n) PROVE VersionInv'
  <2>1. Copies' \subseteq Copies \union {None}
    BY <1>9 DEF StartReconcile, Return, Copies, Undelivered, apiVars
  <2>2. Known' \subseteq Known
    BY <1>9, <2>1, CopiesKept DEF StartReconcile
  <2> QED
    BY <1>2, <1>9, <2>2 DEF StartReconcile, apiVars
<1>10. CASE Forget
  <2>1. Copies' = Copies /\ cache' \subseteq cache
    BY <1>10 DEF Forget, Copies, Undelivered, apiVars, informerVars
  <2>2. Known' \subseteq Known
    BY <2>1, CopiesKept
  <2> QED
    BY <1>2, <1>10, <2>2 DEF Forget, apiVars
<1>11. ASSUME NEW p \in Programs \union {None}, CompilePolicy(p) PROVE VersionInv'
  <2>1. policy \in Objects /\ policy \in Copies \ {None}
    BY <1>1, <1>11 DEF CompilePolicy, CopiesOK, Values, Copies
  <2>2. cache' \subseteq cache \union {Compile(policy)}
    BY <1>11, <2>1, GetKeepsCache DEF CompilePolicy, TypeInv
  <2>3. Copies' \subseteq Copies \union {None}
    BY <1>11 DEF CompilePolicy, Return, Copies, Undelivered, apiVars, informerVars
  <2>4. Known' \subseteq Known
    BY <2>1, <2>2, <2>3, GetKeepsVersions
  <2> QED
    BY <1>2, <1>11, <2>4 DEF CompilePolicy, apiVars
<1>12. CASE Write
  <2>1. policy \in Objects /\ policy.name \in Names /\ store[policy.name] = policy
    BY <1>1, <1>12 DEF Write, Current, CopiesOK, Values, Objects
  <2>2. policy # None
    BY <1>1, <1>12 DEF Write, CopiesOK
  <2>3. HasRoom(policy)
    BY <1>1, <2>1 DEF StoreOK, RoomToDelete
  <2>4. /\ Written \in Values
        /\ Written # None =>
             /\ Written \in Objects
             /\ Written.uid = policy.uid
             /\ \/ Written.generation = policy.generation /\ Written.spec = policy.spec
                \/ Written.generation = policy.generation + 1
    BY <1>1, <1>12, <2>1, <2>2, <2>3, WrittenTypes DEF Write, CopiesOK
  <2>5. /\ Store(policy.name, Written) /\ policy' = None
        /\ UNCHANGED <<uids, informer, snapshot, cache>>
    BY <1>12 DEF Write, Return
  <2>6. CASE Written # None /\ Written.generation = policy.generation + 1
    BY <1>4, <2>1, <2>2, <2>4, <2>5, <2>6
  <2>7. CASE Written # None => Written.generation = policy.generation /\ Written.spec = policy.spec
    BY <1>6, <2>1, <2>2, <2>4, <2>5, <2>7
  <2> QED
    BY <2>4, <2>6, <2>7
<1>13. CASE WriteFails
  <2>1. Copies' \subseteq Copies \union {None}
    BY <1>13 DEF WriteFails, Return, Copies, Undelivered
  <2>2. Known' \subseteq Known
    BY <1>13, <2>1, CopiesKept DEF WriteFails
  <2> QED
    BY <1>2, <1>13, <2>2 DEF WriteFails
<1>14. CASE ListPolicies
  <2>1. Copies' \subseteq Copies \union {None}
    BY <1>14 DEF ListPolicies, Copies, Undelivered, apiVars, informerVars, reconcilerVars
  <2>2. Known' \subseteq Known
    BY <1>14, <2>1, CopiesKept DEF ListPolicies
  <2> QED
    BY <1>2, <1>14, <2>2 DEF ListPolicies, apiVars
<1>15. ASSUME NEW o \in snapshot, NEW p \in Programs \union {None}, EvaluatePolicy(o, p)
       PROVE  VersionInv'
  <2>1. Copies' = Copies
    BY <1>15 DEF EvaluatePolicy, Copies, Undelivered, apiVars, informerVars, reconcilerVars
  <2>2. o \in Objects /\ o \in Copies \ {None}
    BY <1>1, NoneAssumption DEF CopiesOK, Copies
  <2>3. cache' \subseteq cache \union {Compile(o)}
    BY <1>15, <2>2, GetKeepsCache DEF EvaluatePolicy, TypeInv
  <2>4. Known' \subseteq Known
    BY <2>1, <2>2, <2>3, GetKeepsVersions
  <2> QED
    BY <1>2, <1>15, <2>4 DEF EvaluatePolicy, apiVars
<1>16. CASE Restart
  <2>1. Copies' \subseteq Copies \union {None} /\ cache' \subseteq cache
    BY <1>16 DEF Restart, Return, Copies, Undelivered
  <2>2. Known' \subseteq Known
    BY <2>1, CopiesKept
  <2> QED
    BY <1>2, <1>16, <2>2 DEF Restart
<1>17. CASE UNCHANGED vars
  <2>1. Copies' = Copies /\ cache' = cache
    BY <1>17 DEF vars, Copies, Undelivered, apiVars, informerVars, reconcilerVars
  <2>2. Known' \subseteq Known
    BY <2>1, CopiesKept
  <2> QED
    BY <1>2, <1>17, <2>2 DEF vars, apiVars
<1> QED
  BY <1>3, <1>5, <1>7, <1>8, <1>9, <1>10, <1>11, <1>12, <1>13, <1>14, <1>15, <1>16, <1>17
     DEF Next, Reconcile, Schedule

LEMMA InitVersions == Init => VersionInv
<1> SUFFICES ASSUME Init PROVE VersionInv
  OBVIOUS
<1>1. Known = {}
  BY DEF Init, Known, Copies, Undelivered
<1>2. \A n \in Names : store[n] = None
  BY DEF Init
<1> QED
  BY <1>1, <1>2 DEF VersionInv, OneSpec, UidsGiven, GenerationsGiven, OneName

LEMMA VersionInvariant == Spec => [](TypeInv /\ VersionInv)
BY InitVersions, VersionsInductive, TypeInvariant, PTL DEF Spec

-----------------------------------------------------------------------------
\* What is right to say of a policy: whether its spec compiles.
Verdict(s) == IF s \in Broken THEN "False" ELSE "True"

\* A condition is never of a later generation, and right of its own.
Honest(o) ==
  /\ o.observed <= o.generation
  /\ o.observed = o.generation => o.ready = Verdict(o.spec)

\* Only programs that compile are cached, and what the reconciler is about to
\* write is right of its copy.
ReadyInv ==
  /\ \A o \in Copies \ {None} : Honest(o)
  /\ \A c \in cache : c.spec \notin Broken
  /\ step = "ready" => policy.spec \notin Broken
  /\ step = "unready" => policy.spec \in Broken

\* The program Get returns says whether the spec compiles.
LEMMA GetIsRight ==
  ASSUME TypeInv, VersionInv, ReadyInv, NEW o \in Copies \ {None}, NEW p, Get(o, p)
  PROVE  /\ p = None <=> o.spec \in Broken
         /\ \A c \in cache' : c.spec \notin Broken
<1>1. o \in Objects
  BY KnownTypes
<1>2. CASE p \in Hits(o) /\ UNCHANGED cache
  <2>1. p \in cache /\ p.key = o.uid /\ p.generation = o.generation
    BY <1>2 DEF Hits, Key
  <2>2. <<p.key, p.generation, p.spec>> \in Known /\ Version(o) \in Known
    BY <2>1 DEF Known
  <2>3. p.spec = o.spec
    BY <2>1, <2>2 DEF VersionInv, OneSpec, Version
  <2>4. p # None
    BY <2>1, NoneAssumption DEF TypeInv, CacheOK
  <2> QED
    BY <1>2, <2>1, <2>3, <2>4 DEF ReadyInv
<1>3. CASE o.spec \in Broken /\ p = None /\ UNCHANGED cache
  BY <1>3 DEF ReadyInv
<1>4. CASE o.spec \notin Broken /\ p = Compile(o) /\ Add(p)
  <2>1. Compile(o) \in Programs /\ Compile(o).spec = o.spec
    BY <1>1 DEF Compile, Programs, Objects
  <2>2. cache' \subseteq cache \union {Compile(o)}
    BY <1>4, <2>1, AddKeepsCache DEF TypeInv
  <2> QED
    BY <1>4, <2>1, <2>2, NoneAssumption DEF ReadyInv
<1> QED
  BY <1>2, <1>3, <1>4 DEF Get

\* The condition written is right of its copy.
LEMMA WrittenIsHonest ==
  ASSUME policy \in Objects, Written \in Objects, Honest(policy), step \in {"release", "adopt", "ready", "unready"},
         step = "ready" => policy.spec \notin Broken,
         step = "unready" => policy.spec \in Broken,
         Written # None
  PROVE  Honest(Written)
<1>1. step # "release" /\ policy.generation \in Nat /\ policy.observed \in Nat
  BY DEF Written, Objects
<1>2. CASE step = "adopt"
  <2>1. /\ Written.observed = policy.observed /\ Written.ready = policy.ready
        /\ \/ Written.spec = policy.spec /\ Written.generation = policy.generation
           \/ Written.generation = policy.generation + 1
    BY <1>2 DEF Written, Objects
  <2> QED
    BY <1>1, <2>1 DEF Honest
<1>3. ASSUME NEW r, r = Verdict(policy.spec),
             Written = [policy EXCEPT !.ready = r, !.observed = policy.generation]
      PROVE  Honest(Written)
  <2>1. /\ Written.observed = policy.generation /\ Written.generation = policy.generation
        /\ Written.ready = r /\ Written.spec = policy.spec
    BY <1>3 DEF Objects
  <2> QED
    BY <1>1, <1>3, <2>1 DEF Honest
<1>4. CASE step = "ready"
  BY <1>3, <1>4 DEF Written, Verdict
<1>5. CASE step = "unready"
  BY <1>3, <1>5 DEF Written, Verdict
<1> QED
  BY <1>1, <1>2, <1>4, <1>5

\* A step that adds at most one honest copy.
LEMMA HonestCopies ==
  ASSUME ReadyInv, NEW o, o # None => Honest(o), Copies' \subseteq Copies \union {o, None}
  PROVE  \A a \in Copies' \ {None} : Honest(a)
BY DEF ReadyInv

\* A copy the reconciler has is honest, and the other copies stay.
LEMMA ReadyInductive == TypeInv /\ VersionInv /\ ReadyInv /\ [Next]_vars => ReadyInv'
<1> SUFFICES ASSUME TypeInv, VersionInv, ReadyInv, [Next]_vars PROVE ReadyInv'
  OBVIOUS
<1>1. /\ StoreOK /\ CopiesOK
      /\ \A n \in Names : store[n] # None =>
           /\ store[n] \in Objects /\ Honest(store[n])
           /\ store[n].observed \in Nat /\ store[n].generation \in Nat
  BY DEF TypeInv, StoreOK, Values, Objects, ReadyInv, Copies
<1>2. ASSUME NEW o, o # None => Honest(o), Copies' \subseteq Copies \union {o, None},
             cache' \subseteq cache, step' \in {"idle", step}, UNCHANGED policy \/ step' = "idle"
      PROVE  ReadyInv'
  <2>1. \A a \in Copies' \ {None} : Honest(a)
    BY <1>2, HonestCopies
  <2> QED
    BY <1>2, <2>1 DEF ReadyInv, Honest
<1>3. ASSUME NEW n \in Names, NEW o \in Values, Store(n, o), o # None => Honest(o),
             UNCHANGED <<informer, snapshot, cache>>,
             \/ UNCHANGED <<step, policy>>
             \/ step' = "idle" /\ policy' = None
      PROVE  ReadyInv'
  <2>1. Copies' \subseteq Copies \union {o, None}
    BY <1>1, <1>3, StoreCopies
  <2> QED
    BY <1>2, <1>3, <2>1
<1>4. ASSUME NEW n \in Names, NEW s \in Specs, Create(n, s) PROVE ReadyInv'
  <2> DEFINE o == [name |-> n, uid |-> uids + 1, generation |-> 1, spec |-> Admission(s),
                   ready |-> "Unknown", observed |-> 0, finalizer |-> FALSE, deleting |-> FALSE]
  <2>1. uids + 1 \in 1..MaxUid
    BY <1>4 DEF Create, TypeInv, CountersOK
  <2>2. 0 \in 0..MaxGeneration + 2 /\ 1 \in 1..MaxGeneration + 2
    OBVIOUS
  <2>3. o \in Objects
    BY <2>1, <2>2, AdmissionTypes DEF Objects, Conditions
  <2>4. Honest(o)
    BY DEF Honest
  <2>5. Store(n, o) /\ UNCHANGED <<informer, policy, step, snapshot, cache>>
    BY <1>4 DEF Create, reconcilerVars
  <2> HIDE DEF o
  <2> QED
    BY <1>3, <2>3, <2>4, <2>5 DEF Values
<1>5. ASSUME NEW n \in Names, NEW s \in Specs, Edit(n, s) PROVE ReadyInv'
  <2> DEFINE o == [store[n] EXCEPT !.spec = Admission(s), !.generation = @ + 1]
  <2>1. store[n] # None /\ store[n] \in Objects
    BY <1>1, <1>5 DEF Edit
  <2>2. /\ store[n].generation + 1 \in 1..MaxGeneration + 2
        /\ o.observed = store[n].observed /\ o.generation = store[n].generation + 1
    BY <1>5, <2>1 DEF Edit, Objects
  <2>3. o \in Objects
    BY <2>1, <2>2, AdmissionTypes DEF Objects, Conditions
  <2>4. Store(n, o) /\ UNCHANGED <<informer, policy, step, snapshot, cache>>
    BY <1>5 DEF Edit, reconcilerVars
  <2> HIDE DEF o
  <2>5. Honest(o)
    BY <1>1, <2>1, <2>2 DEF Honest
  <2> QED
    BY <1>3, <2>3, <2>4, <2>5 DEF Values
<1>6. ASSUME NEW n \in Names, Delete(n) PROVE ReadyInv'
  <2> DEFINE gone == [store[n] EXCEPT !.deleting = TRUE, !.generation = @ + 1]
  <2>1. store[n] \in Objects /\ store[n] # None /\ store[n].generation <= MaxGeneration + 1
    BY <1>1, <1>6 DEF Delete, StoreOK, RoomToDelete, HasRoom
  <2>2. UNCHANGED <<informer, policy, step, snapshot, cache>>
    BY <1>6 DEF Delete, reconcilerVars
  <2>3. CASE store[n].finalizer
    <3>1. store[n].generation + 1 \in 1..MaxGeneration + 2
      BY <2>1 DEF Objects
    <3>2. /\ gone \in Objects /\ gone.observed = store[n].observed
          /\ gone.generation = store[n].generation + 1
      BY <2>1, <3>1 DEF Objects, Conditions
    <3>3. Store(n, gone)
      BY <1>6, <2>3 DEF Delete
    <3> HIDE DEF gone
    <3>4. Honest(gone)
      BY <1>1, <2>1, <3>2 DEF Honest
    <3> QED
      BY <1>3, <2>2, <3>2, <3>3, <3>4 DEF Values
  <2>4. CASE ~store[n].finalizer
    <3>1. Store(n, None)
      BY <1>6, <2>4 DEF Delete
    <3> QED
      BY <1>3, <2>2, <3>1 DEF Values
  <2> QED
    BY <2>3, <2>4
<1>7. ASSUME NEW n \in Names, Deliver(n) PROVE ReadyInv'
  <2>1. Copies' \subseteq Copies
    BY <1>1, <1>7, DeliverCopies
  <2> QED
    BY <1>2, <1>7, <2>1 DEF Deliver, reconcilerVars
<1>8. ASSUME NEW n \in Names, StartReconcile(n) PROVE ReadyInv'
  <2>1. Copies' \subseteq Copies \union {None}
    BY <1>8 DEF StartReconcile, Return, Copies, Undelivered, apiVars
  <2>2. \A a \in Copies' \ {None} : Honest(a)
    BY <2>1 DEF ReadyInv
  <2>3. step' \in {"idle", "forget", "compile", "adopt"}
    BY <1>8 DEF StartReconcile, Return
  <2> QED
    BY <1>8, <2>2, <2>3 DEF StartReconcile, ReadyInv, Honest
<1>9. CASE Forget
  <2>1. Copies' = Copies /\ cache' \subseteq cache /\ step' = "release"
    BY <1>9 DEF Forget, Copies, Undelivered, apiVars, informerVars
  <2> QED
    BY <2>1 DEF ReadyInv, Honest
<1>10. ASSUME NEW p \in Programs \union {None}, CompilePolicy(p) PROVE ReadyInv'
  <2>1. policy \in Copies \ {None}
    BY <1>1, <1>10 DEF CompilePolicy, CopiesOK, Copies
  <2>2. (p = None <=> policy.spec \in Broken) /\ \A c \in cache' : c.spec \notin Broken
    BY <1>10, <2>1, GetIsRight DEF CompilePolicy
  <2>3. Copies' \subseteq Copies \union {None}
    BY <1>10 DEF CompilePolicy, Return, Copies, Undelivered, apiVars, informerVars
  <2>4. \A a \in Copies' \ {None} : Honest(a)
    BY <2>3 DEF ReadyInv
  <2> QED
    BY <1>10, <2>2, <2>4 DEF CompilePolicy, Return, ReadyInv, Honest
<1>11. CASE Write
  <2>1. policy \in Objects /\ policy.name \in Names /\ store[policy.name] = policy /\ policy # None
    BY <1>1, <1>11 DEF Write, Current, CopiesOK, Values, Objects
  <2>2. HasRoom(policy)
    BY <1>1, <2>1 DEF StoreOK, RoomToDelete
  <2>3. Written \in Values /\ (Written # None => Written \in Objects)
    BY <1>1, <1>11, <2>1, <2>2, WrittenTypes DEF Write, CopiesOK
  <2>4. Honest(policy)
    BY <2>1 DEF ReadyInv, Copies
  <2>5. Written # None => Honest(Written)
    BY <1>11, <2>1, <2>3, <2>4, WrittenIsHonest DEF Write, ReadyInv
  <2> QED
    BY <1>3, <1>11, <2>1, <2>3, <2>5 DEF Write, Return
<1>12. CASE WriteFails
  <2>1. Copies' \subseteq Copies \union {None}
    BY <1>12 DEF WriteFails, Return, Copies, Undelivered
  <2> QED
    BY <1>2, <1>12, <2>1 DEF WriteFails, Return
<1>13. CASE ListPolicies
  <2>1. Copies' \subseteq Copies \union {None}
    BY <1>13 DEF ListPolicies, Copies, Undelivered, apiVars, informerVars, reconcilerVars
  <2> QED
    BY <1>2, <1>13, <2>1 DEF ListPolicies, reconcilerVars
<1>14. ASSUME NEW o \in snapshot, NEW p \in Programs \union {None}, EvaluatePolicy(o, p)
       PROVE  ReadyInv'
  <2>1. Copies' = Copies
    BY <1>14 DEF EvaluatePolicy, Copies, Undelivered, apiVars, informerVars, reconcilerVars
  <2>2. o \in Copies \ {None}
    BY <1>1, NoneAssumption DEF CopiesOK, Copies
  <2>3. \A c \in cache' : c.spec \notin Broken
    BY <1>14, <2>2, GetIsRight DEF EvaluatePolicy, ReadyInv
  <2> QED
    BY <1>14, <2>1, <2>3 DEF EvaluatePolicy, ReadyInv, Honest, reconcilerVars
<1>15. CASE Restart
  <2>1. Copies' \subseteq Copies \union {None} /\ cache' \subseteq cache
    BY <1>15 DEF Restart, Return, Copies, Undelivered
  <2> QED
    BY <1>2, <1>15, <2>1 DEF Restart, Return
<1>16. CASE UNCHANGED vars
  <2>1. Copies' = Copies /\ cache' = cache
    BY <1>16 DEF vars, Copies, Undelivered, apiVars, informerVars, reconcilerVars
  <2> QED
    BY <1>2, <1>16, <2>1 DEF vars, reconcilerVars
<1> QED
  BY <1>4, <1>5, <1>6, <1>7, <1>8, <1>9, <1>10, <1>11, <1>12, <1>13, <1>14, <1>15, <1>16
     DEF Next, Reconcile, Schedule

LEMMA ReadyInvariant == Spec => [](TypeInv /\ VersionInv /\ ReadyInv)
<1>1. Init => ReadyInv
  <2> SUFFICES ASSUME Init PROVE ReadyInv
    OBVIOUS
  <2>1. Copies \subseteq {None} /\ cache = {} /\ step = "idle"
    BY DEF Init, Copies, Undelivered
  <2> QED
    BY <2>1 DEF ReadyInv
<1> QED
  BY <1>1, ReadyInductive, VersionInvariant, PTL DEF Spec

\* The Ready condition of the stored generation says whether it compiles.
THEOREM ReadyIsHonest == Spec => []ReadyIsTrue
<1>1. TypeInv /\ ReadyInv => ReadyIsTrue
  BY DEF ReadyInv, ReadyIsTrue, Honest, Verdict, Copies
<1> QED
  BY <1>1, ReadyInvariant, PTL

\* A program returned for a copy of a policy is the one compiling that copy
\* would return, whatever the ages of the copies and the entries of the cache.
THEOREM ProgramsAreRight == Spec => []ProgramOfItsSpec
<1>1. TypeInv /\ VersionInv /\ ReadyInv => ProgramOfItsSpec
  <2> SUFFICES ASSUME TypeInv, VersionInv, ReadyInv,
                      NEW o \in snapshot \union ({policy} \ {None}), NEW c \in Hits(o)
               PROVE  c = Compile(o) /\ o.spec \notin Broken
    BY DEF ProgramOfItsSpec
  <2>1. c \in cache /\ c.key = o.uid /\ c.generation = o.generation
    BY DEF Hits, Key
  <2>2. <<c.key, c.generation, c.spec>> \in Known
    BY <2>1 DEF Known
  <2>3. o # None
    BY NoneAssumption DEF TypeInv, CopiesOK
  <2>4. Version(o) \in Known
    BY <2>3 DEF Known, Copies
  <2>5. c.spec = o.spec
    BY <2>1, <2>2, <2>4 DEF VersionInv, OneSpec, Version
  <2>6. c = [key |-> c.key, generation |-> c.generation, spec |-> c.spec]
    BY <2>1 DEF TypeInv, CacheOK, Programs
  <2> QED
    BY <2>1, <2>5, <2>6 DEF Compile, Key, ReadyInv
<1> QED
  BY <1>1, ReadyInvariant, PTL

-----------------------------------------------------------------------------
\* The spec its users asked for last, which the webhook may have defaulted.
Faithful(t, s) == s \in Specs /\ t \in {s, Default[s]}

EditsInv == \A n \in Names : store[n] # None => Faithful(store[n].spec, wanted[n])

\* A version of n that differs from the stored one has the spec its users want.
LEMMA EditsKept ==
  ASSUME TypeInv, EditsInv, NEW n \in Names, NEW o, Store(n, o),
         \A m \in Names : m # n => wanted'[m] = wanted[m],
         o # None => Faithful(o.spec, wanted'[n])
  PROVE  EditsInv'
<1>1. store \in [Names -> Values]
  BY DEF TypeInv, StoreOK
<1>2. store'[n] = o /\ \A m \in Names : m # n => store'[m] = store[m]
  BY <1>1 DEF Store
<1> QED
  BY <1>2 DEF EditsInv

\* The reconciler's updates carry a resource version: what they write has the
\* spec of the stored policy, although it comes from a copy read earlier.
LEMMA EditsInductive == TypeInv /\ EditsInv /\ [Next]_vars => EditsInv'
<1> SUFFICES ASSUME TypeInv, EditsInv, [Next]_vars PROVE EditsInv'
  OBVIOUS
<1>1. /\ \A n \in Names : store[n] # None => store[n] \in Objects
      /\ wanted \in [Names -> Specs \union {None}]
      /\ step # "idle" => policy \in Objects
  BY DEF TypeInv, StoreOK, CopiesOK, CountersOK, Values
<1>2. ASSUME UNCHANGED <<store, wanted>> PROVE EditsInv'
  BY <1>2 DEF EditsInv
<1>3. ASSUME NEW n \in Names, NEW s \in Specs, Create(n, s) PROVE EditsInv'
  <2> DEFINE o == [name |-> n, uid |-> uids + 1, generation |-> 1, spec |-> Admission(s),
                   ready |-> "Unknown", observed |-> 0, finalizer |-> FALSE, deleting |-> FALSE]
  <2>1. Store(n, o) /\ wanted' = [wanted EXCEPT ![n] = s]
    BY <1>3 DEF Create
  <2>2. Faithful(o.spec, s)
    BY AdmissionTypes DEF Faithful
  <2> HIDE DEF o
  <2> QED
    BY <1>1, <2>1, <2>2, EditsKept
<1>4. ASSUME NEW n \in Names, NEW s \in Specs, Edit(n, s) PROVE EditsInv'
  <2> DEFINE o == [store[n] EXCEPT !.spec = Admission(s), !.generation = @ + 1]
  <2>1. Store(n, o) /\ wanted' = [wanted EXCEPT ![n] = s] /\ store[n] \in Objects
    BY <1>1, <1>4 DEF Edit
  <2>2. Faithful(o.spec, s)
    BY <2>1, AdmissionTypes DEF Objects, Faithful
  <2> HIDE DEF o
  <2> QED
    BY <1>1, <2>1, <2>2, EditsKept
<1>5. ASSUME NEW n \in Names, Delete(n) PROVE EditsInv'
  <2> DEFINE o == IF store[n].finalizer
                  THEN [store[n] EXCEPT !.deleting = TRUE, !.generation = @ + 1]
                  ELSE None
  <2>1. Store(n, o) /\ wanted' = wanted /\ store[n] \in Objects /\ store[n] # None
    BY <1>1, <1>5 DEF Delete
  <2>2. Faithful(store[n].spec, wanted[n])
    BY <2>1 DEF EditsInv, Faithful
  <2>3. o # None => Faithful(o.spec, wanted[n])
    BY <2>1, <2>2 DEF Objects
  <2> HIDE DEF o
  <2> QED
    BY <2>1, <2>3, EditsKept
<1>6. CASE Write
  <2>1. /\ policy \in Objects
        /\ policy.name \in Names
        /\ store[policy.name] = policy
        /\ Store(policy.name, Written) /\ wanted' = wanted
    BY <1>1, <1>6 DEF Write, Current, Objects
  <2>2. policy # None /\ HasRoom(policy)
    BY <2>1, NoneAssumption DEF TypeInv, StoreOK, RoomToDelete
  <2>3. Written # None => Written.spec \in {policy.spec, Default[policy.spec]}
    BY <1>6, <2>1, <2>2, WrittenTypes DEF Write, TypeInv, CopiesOK
  <2>4. Faithful(policy.spec, wanted[policy.name])
    BY <1>1, <2>1, <2>2 DEF EditsInv, Faithful
  <2>5. Written # None => Faithful(Written.spec, wanted[policy.name])
    BY <2>3, <2>4, DefaultAssumption DEF Faithful, DefaultAssumption
  <2> HIDE DEF Written
  <2> QED
    BY <2>1, <2>5, EditsKept
<1>7. ASSUME NEW n \in Names, Deliver(n) \/ StartReconcile(n) PROVE EditsInv'
  BY <1>2, <1>7 DEF Deliver, StartReconcile, apiVars
<1>8. ASSUME NEW p, CompilePolicy(p) PROVE EditsInv'
  BY <1>2, <1>8 DEF CompilePolicy, apiVars
<1>9. ASSUME NEW o, NEW p, EvaluatePolicy(o, p) PROVE EditsInv'
  BY <1>2, <1>9 DEF EvaluatePolicy, apiVars
<1>10. CASE Forget \/ WriteFails \/ ListPolicies \/ Restart \/ UNCHANGED vars
  BY <1>2, <1>10 DEF Forget, WriteFails, ListPolicies, Restart, vars, apiVars
<1> QED
  BY <1>3, <1>4, <1>5, <1>6, <1>7, <1>8, <1>9, <1>10 DEF Next, Reconcile, Schedule

\* No edit is ever lost to an update of the reconciler.
THEOREM EditsAreKept == Spec => []EditsSurvive
<1>1. Init => EditsInv
  BY DEF Init, EditsInv
<1>2. EditsInv => EditsSurvive
  BY DEF EditsInv, EditsSurvive, Faithful
<1> QED
  BY <1>1, <1>2, EditsInductive, TypeInvariant, PTL DEF Spec

-----------------------------------------------------------------------------
\* The reconciler gives back the finalizer of a policy being deleted only.
DeletionInv == step \in {"forget", "release"} => policy.deleting

LEMMA DeletionInductive == DeletionInv /\ [Next]_vars => DeletionInv'
<1> SUFFICES ASSUME DeletionInv, [Next]_vars PROVE DeletionInv'
  OBVIOUS
<1>1. ASSUME UNCHANGED reconcilerVars PROVE DeletionInv'
  BY <1>1 DEF reconcilerVars, DeletionInv
<1>2. ASSUME NEW n \in Names, NEW s \in Specs, Create(n, s) \/ Edit(n, s) PROVE DeletionInv'
  BY <1>1, <1>2 DEF Create, Edit
<1>3. ASSUME NEW n \in Names, Delete(n) \/ Deliver(n) PROVE DeletionInv'
  BY <1>1, <1>3 DEF Delete, Deliver
<1>4. ASSUME NEW n \in Names, StartReconcile(n) PROVE DeletionInv'
  BY <1>4 DEF StartReconcile, Return, DeletionInv
<1>5. CASE Forget
  BY <1>5 DEF Forget, DeletionInv
<1>6. ASSUME NEW p, CompilePolicy(p) PROVE DeletionInv'
  BY <1>6 DEF CompilePolicy, Return, DeletionInv
<1>7. CASE Write \/ WriteFails \/ Restart
  BY <1>7 DEF Write, WriteFails, Restart, Return, DeletionInv
<1>8. CASE ListPolicies \/ UNCHANGED vars
  BY <1>1, <1>8 DEF ListPolicies, vars
<1>9. ASSUME NEW o, NEW p, EvaluatePolicy(o, p) PROVE DeletionInv'
  BY <1>1, <1>9 DEF EvaluatePolicy
<1> QED
  BY <1>2, <1>3, <1>4, <1>5, <1>6, <1>7, <1>8, <1>9 DEF Next, Reconcile, Schedule

\* Version w of a policy, or its removal, undoes nothing of version o.
Follows(o, w) ==
  IF w = None
  THEN o.finalizer => o.deleting
  ELSE /\ w.uid = o.uid
       /\ w.generation >= o.generation
       /\ w.observed >= o.observed
       /\ o.deleting => w.deleting
       /\ o.finalizer => w.finalizer

LEMMA FollowsItself == ASSUME NEW o \in Objects PROVE Follows(o, o)
BY NoneAssumption DEF Follows, Objects

\* What the reconciler writes follows the version it has read.
LEMMA WrittenFollows ==
  ASSUME policy \in Objects, Honest(policy), DeletionInv,
         step \in {"release", "adopt", "ready", "unready"},
         step # "release" => Written \in Objects
  PROVE  Follows(policy, Written)
<1>0. /\ policy.generation \in Nat /\ policy.observed \in Nat
      /\ step # "release" => Written # None
  BY NoneAssumption DEF Objects
<1>1. CASE step = "release"
  BY <1>1 DEF Written, Follows, DeletionInv
<1>2. CASE step = "adopt"
  <2>1. /\ Written.uid = policy.uid
        /\ Written.generation \in {policy.generation, policy.generation + 1}
        /\ Written.observed = policy.observed
        /\ Written.deleting = policy.deleting
        /\ Written.finalizer = TRUE
    BY <1>2 DEF Written, Objects
  <2> QED
    BY <1>0, <1>2, <2>1 DEF Follows
<1>3. CASE step \in {"ready", "unready"}
  <2>1. /\ Written.uid = policy.uid
        /\ Written.generation = policy.generation
        /\ Written.observed = policy.generation
        /\ Written.deleting = policy.deleting
        /\ Written.finalizer = policy.finalizer
    BY <1>3 DEF Written, Objects
  <2> QED
    BY <1>0, <1>3, <2>1 DEF Follows, Honest
<1> QED
  BY <1>1, <1>2, <1>3

\* Only the policy that is stored anew changes.
LEMMA StoreFollows ==
  ASSUME TypeInv, NEW n \in Names, NEW o, Store(n, o), store[n] # None => Follows(store[n], o)
  PROVE  \A m \in Names : store[m] # None => Follows(store[m], store'[m])
<1>1. store \in [Names -> Values]
  BY DEF TypeInv, StoreOK
<1>2. store'[n] = o /\ \A m \in Names : m # n => store'[m] = store[m]
  BY <1>1 DEF Store
<1> QED
  BY <1>1, <1>2, FollowsItself DEF Values

LEMMA StepsFollow ==
  ASSUME TypeInv, ReadyInv, DeletionInv, [Next]_vars, NEW k \in Names, store[k] # None
  PROVE  Follows(store[k], store'[k])
<1>1. /\ \A n \in Names : store[n] # None => store[n] \in Objects
      /\ step # "idle" => policy \in Objects
  BY DEF TypeInv, StoreOK, CopiesOK, Values
<1>2. ASSUME UNCHANGED store PROVE Follows(store[k], store'[k])
  BY <1>1, <1>2, FollowsItself
<1>3. ASSUME NEW n \in Names, NEW s \in Specs, Create(n, s)
      PROVE  Follows(store[k], store'[k])
  BY <1>3, StoreFollows DEF Create
<1>4. ASSUME NEW n \in Names, NEW s \in Specs, Edit(n, s)
      PROVE  Follows(store[k], store'[k])
  <2> DEFINE o == [store[n] EXCEPT !.spec = Admission(s), !.generation = @ + 1]
  <2>1. Store(n, o) /\ store[n] \in Objects
    BY <1>1, <1>4 DEF Edit
  <2>2. /\ o.uid = store[n].uid /\ o.generation = store[n].generation + 1
        /\ o.observed = store[n].observed /\ o.deleting = store[n].deleting
        /\ o.finalizer = store[n].finalizer
    BY <2>1 DEF Objects
  <2>3. store[n].generation \in Nat /\ store[n].observed \in Nat
    BY <2>1 DEF Objects
  <2>4. o # None
    <3>1. store[n].generation + 1 \in 1..MaxGeneration + 2
      BY <1>4, <2>1 DEF Edit, Objects
    <3>2. o \in Objects
      BY <2>1, <3>1, AdmissionTypes DEF Objects
    <3> QED
      BY <3>2, NoneAssumption
  <2> HIDE DEF o
  <2>5. Follows(store[n], o)
    BY <2>2, <2>3, <2>4 DEF Follows
  <2> QED
    BY <2>1, <2>5, StoreFollows
<1>5. ASSUME NEW n \in Names, Delete(n) PROVE Follows(store[k], store'[k])
  <2> DEFINE gone == [store[n] EXCEPT !.deleting = TRUE, !.generation = @ + 1]
  <2>1. store[n] \in Objects /\ Store(n, IF store[n].finalizer THEN gone ELSE None)
    BY <1>1, <1>5 DEF Delete
  <2>2. /\ gone.uid = store[n].uid /\ gone.generation = store[n].generation + 1
        /\ gone.observed = store[n].observed /\ gone.deleting = TRUE
        /\ gone.finalizer = store[n].finalizer
    BY <2>1 DEF Objects
  <2>3. store[n].generation \in Nat /\ store[n].observed \in Nat
    BY <2>1 DEF Objects
  <2>4. store[n].finalizer => gone # None
    <3>1. store[n].generation <= MaxGeneration + 1
      BY <1>5 DEF TypeInv, StoreOK, RoomToDelete, HasRoom, Delete
    <3>2. store[n].generation + 1 \in 1..MaxGeneration + 2
      BY <2>1, <3>1 DEF Objects
    <3>3. gone \in Objects
      BY <2>1, <3>2 DEF Objects
    <3> QED
      BY <3>3, NoneAssumption
  <2> HIDE DEF gone
  <2>5. CASE store[n].finalizer
    <3>1. Follows(store[n], gone)
      BY <2>2, <2>3, <2>4, <2>5 DEF Follows
    <3> QED
      BY <2>1, <2>5, <3>1, StoreFollows
  <2>6. CASE ~store[n].finalizer
    <3>1. Follows(store[n], None)
      BY <2>6 DEF Follows
    <3> QED
      BY <2>1, <2>6, <3>1, StoreFollows
  <2> QED
    BY <2>5, <2>6
<1>6. CASE Write
  <2>1. /\ policy \in Objects /\ policy.name \in Names
        /\ store[policy.name] = policy /\ Store(policy.name, Written)
    BY <1>1, <1>6 DEF Write, Current, Objects
  <2>2. Honest(policy)
    BY <2>1, NoneAssumption DEF ReadyInv, Copies
  <2>3. policy # None /\ HasRoom(policy)
    BY <2>1, NoneAssumption DEF TypeInv, StoreOK, RoomToDelete
  <2>4. step # "release" => Written \in Objects
    BY <1>6, <2>1, <2>3, WrittenTypes DEF Write, TypeInv, CopiesOK
  <2>5. Follows(policy, Written)
    BY <1>6, <2>1, <2>2, <2>4, WrittenFollows DEF Write
  <2> QED
    BY <2>1, <2>5, StoreFollows
<1>7. ASSUME NEW n \in Names, Deliver(n) \/ StartReconcile(n)
      PROVE  Follows(store[k], store'[k])
  BY <1>2, <1>7 DEF Deliver, StartReconcile, apiVars
<1>8. ASSUME NEW p, CompilePolicy(p) PROVE Follows(store[k], store'[k])
  BY <1>2, <1>8 DEF CompilePolicy, apiVars
<1>9. ASSUME NEW o, NEW p, EvaluatePolicy(o, p) PROVE Follows(store[k], store'[k])
  BY <1>2, <1>9 DEF EvaluatePolicy, apiVars
<1>10. CASE Forget \/ WriteFails \/ ListPolicies \/ Restart \/ UNCHANGED vars
  BY <1>2, <1>10 DEF Forget, WriteFails, ListPolicies, Restart, vars, apiVars
<1> QED
  BY <1>3, <1>4, <1>5, <1>6, <1>7, <1>8, <1>9, <1>10 DEF Next, Reconcile, Schedule

\* No update of the reconciler, made from a copy of any age, brings back an
\* older policy, generation or condition, or undoes a deletion, and none
\* removes a policy whose deletion was not requested.
THEOREM UpdatesUndoNothing == Spec => NothingIsUndone
<1>1. Init => DeletionInv
  BY DEF Init, DeletionInv
<1>2. TypeInv /\ ReadyInv /\ DeletionInv /\ [Next]_vars =>
        [\A n \in Names : store[n] # None =>
           IF store'[n] = None
           THEN store[n].finalizer => store[n].deleting
           ELSE /\ store'[n].uid = store[n].uid
                /\ store'[n].generation >= store[n].generation
                /\ store'[n].observed >= store[n].observed
                /\ store[n].deleting => store'[n].deleting
                /\ store[n].finalizer => store'[n].finalizer]_vars
  BY StepsFollow DEF Follows
<1> QED
  BY <1>1, <1>2, DeletionInductive, ReadyInvariant, PTL DEF Spec, NothingIsUndone
=============================================================================
