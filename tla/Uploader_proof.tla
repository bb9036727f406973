--------------------------- MODULE Uploader_proof ---------------------------
(***************************************************************************)
(* The invariants of the uploader for every number of pipelines, files and *)
(* executions.                                                             *)
(***************************************************************************)
EXTENDS Uploader, TLAPS

Running == {"start", "upload", "ingest", "ok", "error"}

Results == [pipeline : Pipelines, object : Keys]

Step(p) ==
  \/ Configure(p)
  \/ Upload(p)
  \/ UploadFails(p)
  \/ UploadsEnd(p)
  \/ Ingest(p)
  \/ IngestFails(p)
  \/ Restart(p)

LEMMA InitTypes == Init => TypeOK
<1> SUFFICES ASSUME Init PROVE TypeOK
  OBVIOUS
<1>1. files \in [Pipelines -> Seq(Files)]
  <2>1. \A s \in UNION {[1..n -> Files] : n \in 0..MaxFiles} : s \in Seq(Files)
    <3> SUFFICES ASSUME NEW s \in UNION {[1..n -> Files] : n \in 0..MaxFiles}
                 PROVE  s \in Seq(Files)
      OBVIOUS
    <3>1. PICK n \in 0..MaxFiles : s \in [1..n -> Files]
      OBVIOUS
    <3> QED
      BY <3>1, UploaderAssumption DEF UploaderAssumption
  <2> QED
    BY <2>1 DEF Init
<1>2. \A p \in Pipelines : Len(files[p]) \in Nat
  BY <1>1
<1> QED
  BY <1>1, <1>2 DEF Init, TypeOK, Keys

LEMMA CurrentType ==
  ASSUME TypeOK, NEW p \in Pipelines, Uploading(p)
  PROVE  /\ Current(p) \in Files
         /\ Key(p, Current(p)) \in Keys
         /\ next[p] \in 1..Len(files[p])
         /\ Len(files[p]) \in Nat
<1>1. files[p] \in Seq(Files) /\ next[p] \in Nat \ {0} /\ prefix[p] \in Prefixes
  BY DEF TypeOK
<1>2. next[p] \in 1..Len(files[p])
  BY <1>1 DEF Uploading
<1>3. Current(p) \in Files
  BY <1>1, <1>2 DEF Current
<1>4. Base[Current(p)] \in Bases
  BY <1>3, UploaderAssumption DEF UploaderAssumption
<1> QED
  BY <1>1, <1>2, <1>3, <1>4 DEF Key, Keys

\* What an upload changes of the bucket.
LEMMA PutType ==
  ASSUME TypeOK, NEW p \in Pipelines, Uploading(p), Put(p)
  PROVE  bucket' \in [Keys -> (Pipelines \X Files) \union {None}]
BY CurrentType DEF Put, TypeOK

LEMMA StepTypes ==
  ASSUME TypeOK, NEW p \in Pipelines, Step(p)
  PROVE  TypeOK'
<1>1. CASE Configure(p)
  BY <1>1 DEF TypeOK, Configure, GoTo, paramVars
<1>2. CASE Upload(p)
  <2>1. Result(p, Current(p)) \in Results
    BY <1>2, CurrentType DEF Upload, Result, Results
  <2>2. results[p] \in Seq(Results)
    BY DEF TypeOK, Results
  <2>3. /\ Append(results[p], Result(p, Current(p))) \in Seq(Results)
        /\ Len(Append(results[p], Result(p, Current(p)))) = Len(results[p]) + 1
    BY <2>1, <2>2
  <2>4. results' \in [Pipelines -> Seq(Results)]
    BY <1>2, <2>3 DEF TypeOK, Upload, Results
  <2>5. bucket' \in [Keys -> (Pipelines \X Files) \union {None}]
    BY <1>2, PutType DEF Upload
  <2>6. \A q \in Pipelines : next[q] \in Nat /\ Len(results[q]) \in Nat
    BY DEF TypeOK
  <2>7. next' \in [Pipelines -> Nat \ {0}]
    BY <1>2, <2>6 DEF TypeOK, Upload
  <2>8. ASSUME NEW q \in Pipelines
        PROVE  /\ next'[q] <= Len(files[q]) + 1
               /\ phase[q] = "start" => next'[q] = 1
               /\ Len(results'[q]) < next'[q]
    <3>1. CASE q = p
      <4>1. next'[p] = next[p] + 1 /\ Len(results'[p]) = Len(results[p]) + 1
        BY <1>2, <2>3 DEF TypeOK, Upload
      <4> QED
        BY <1>2, <3>1, <4>1, <2>6, CurrentType DEF TypeOK, Upload, Uploading
    <3>2. CASE q # p
      <4>1. next'[q] = next[q] /\ results'[q] = results[q]
        BY <1>2, <3>2 DEF TypeOK, Upload
      <4> QED
        BY <4>1 DEF TypeOK
    <3> QED
      BY <3>1, <3>2
  <2> QED
    BY <1>2, <2>4, <2>5, <2>7, <2>8 DEF TypeOK, Upload, paramVars, Results
<1>3. CASE UploadFails(p)
  <2>1. bucket' \in [Keys -> (Pipelines \X Files) \union {None}]
    BY <1>3, PutType DEF UploadFails, TypeOK
  <2>2. \A q \in Pipelines : next[q] \in Nat /\ Len(results[q]) \in Nat
    BY DEF TypeOK
  <2>3. next' \in [Pipelines -> Nat \ {0}]
    BY <1>3, <2>2 DEF TypeOK, UploadFails
  <2>4. ASSUME NEW q \in Pipelines
        PROVE  /\ next'[q] <= Len(files[q]) + 1
               /\ phase[q] = "start" => next'[q] = 1
               /\ Len(results[q]) < next'[q]
    <3>1. CASE q = p
      <4>1. next'[p] = next[p] + 1
        BY <1>3 DEF TypeOK, UploadFails
      <4> QED
        BY <1>3, <3>1, <4>1, <2>2, CurrentType DEF TypeOK, UploadFails, Uploading
    <3>2. CASE q # p
      <4>1. next'[q] = next[q]
        BY <1>3, <3>2 DEF TypeOK, UploadFails
      <4> QED
        BY <4>1 DEF TypeOK
    <3> QED
      BY <3>1, <3>2
  <2> QED
    BY <1>3, <2>1, <2>3, <2>4 DEF TypeOK, UploadFails, paramVars
<1>4. CASE UploadsEnd(p)
  BY <1>4 DEF TypeOK, UploadsEnd, AfterUploads, GoTo, paramVars
<1>5. CASE Ingest(p)
  BY <1>5 DEF TypeOK, Ingest, GoTo, paramVars
<1>6. CASE IngestFails(p)
  BY <1>6 DEF TypeOK, IngestFails, GiveUp, GoTo, paramVars
<1>7. CASE Restart(p)
  <2> DEFINE empty == <<>>
  <2>1. empty \in Seq(Results) /\ Len(empty) = 0
    OBVIOUS
  <2>2. results' = [results EXCEPT ![p] = empty] /\ next' = [next EXCEPT ![p] = 1]
    BY <1>7 DEF Restart, StartOver
  <2> HIDE DEF empty
  <2>3. results' \in [Pipelines -> Seq(Results)]
    BY <2>1, <2>2 DEF TypeOK, Results
  <2>4. ASSUME NEW q \in Pipelines
        PROVE  /\ next'[q] <= Len(files[q]) + 1
               /\ phase'[q] = "start" => next'[q] = 1
               /\ Len(results'[q]) < next'[q]
    <3>1. Len(files[q]) \in Nat
      BY DEF TypeOK
    <3>2. CASE q = p
      <4>1. next'[p] = 1 /\ results'[p] = empty
        BY <2>2 DEF TypeOK
      <4> QED
        BY <3>1, <3>2, <4>1, <2>1
    <3>3. CASE q # p
      <4>1. next'[q] = next[q] /\ results'[q] = results[q] /\ phase'[q] = phase[q]
        BY <1>7, <2>2, <3>3 DEF TypeOK, Restart
      <4> QED
        BY <4>1 DEF TypeOK
    <3> QED
      BY <3>2, <3>3
  <2>5. /\ next' \in [Pipelines -> Nat \ {0}]
        /\ phase' \in [Pipelines -> Running]
        /\ failed' \in [Pipelines -> BOOLEAN]
        /\ attempts' \in [Pipelines -> Nat]
    BY <1>7, <2>2 DEF TypeOK, Restart, StartOver, Running
  <2> QED
    BY <1>7, <2>3, <2>4, <2>5 DEF TypeOK, Restart, paramVars, Results, Running
<1> QED
  BY <1>1, <1>2, <1>3, <1>4, <1>5, <1>6, <1>7 DEF Step

\* The type invariant, the results within the uploads of the execution.
THEOREM TypeCorrect == Spec => []TypeOK
<1>1. TypeOK /\ [Next]_vars => TypeOK'
  <2>1. TypeOK /\ UNCHANGED vars => TypeOK'
    BY DEF TypeOK, vars, paramVars, processVars
  <2> QED
    BY <2>1, StepTypes DEF Next, Step
<1> QED
  BY InitTypes, <1>1, PTL DEF Spec

-----------------------------------------------------------------------------
(***************************************************************************)
(* Without a failure an execution has the result of every file so far, and *)
(* only such an execution gets to reporting them.  Whatever the other      *)
(* pipelines upload, an object comes from a file it is named for, so that  *)
(* a file alone with its name and prefix keeps its object.                 *)
(***************************************************************************)
Stored(p, i) == bucket[Key(p, files[p][i])] # None

Exact ==
  \A p \in Pipelines : ~failed[p] =>
    /\ Len(results[p]) = next[p] - 1
    /\ \A i \in 1..(next[p] - 1) :
         results[p][i] = Result(p, files[p][i]) /\ Stored(p, i)

Staged ==
  \A p \in Pipelines :
    /\ phase[p] \in {"ingest", "ok"} => ~failed[p] /\ next[p] = Len(files[p]) + 1
    /\ phase[p] = "ok" /\ ingesting => \E r \in reports : r.pipeline = p

Origin ==
  \A k \in Keys : bucket[k] # None =>
    \E q \in Pipelines : \E i \in 1..Len(files[q]) :
      k = Key(q, files[q][i]) /\ bucket[k] = <<q, files[q][i]>>

Senders == \A r \in reports : r.pipeline \in Pipelines

IInv == TypeOK /\ Exact /\ Staged /\ Origin /\ Senders /\ ReportsAreWhole

LEMMA PairNotNone == \A p \in Pipelines, f \in Files : <<p, f>> # None
BY UploaderAssumption DEF UploaderAssumption

LEMMA KeyType ==
  ASSUME TypeOK, NEW p \in Pipelines, NEW i \in 1..Len(files[p])
  PROVE  files[p][i] \in Files /\ Key(p, files[p][i]) \in Keys
<1>1. files[p] \in Seq(Files) /\ prefix[p] \in Prefixes
  BY DEF TypeOK
<1>2. files[p][i] \in Files
  BY <1>1
<1>3. Base[files[p][i]] \in Bases
  BY <1>2, UploaderAssumption DEF UploaderAssumption
<1> QED
  BY <1>1, <1>2, <1>3 DEF Key, Keys

\* An object, once there, is only ever replaced by another one.
LEMMA PutKeeps ==
  ASSUME TypeOK, NEW p \in Pipelines, Uploading(p), Put(p), NEW k \in Keys
  PROVE  /\ k = Key(p, Current(p)) => bucket'[k] = <<p, Current(p)>>
         /\ k # Key(p, Current(p)) => bucket'[k] = bucket[k]
         /\ bucket[k] # None => bucket'[k] # None
BY CurrentType, PairNotNone DEF Put, TypeOK

LEMMA PutOrigin ==
  ASSUME TypeOK, Origin, UNCHANGED paramVars, NEW p \in Pipelines, Uploading(p), Put(p)
  PROVE  Origin'
<1> SUFFICES ASSUME NEW k \in Keys, bucket'[k] # None
             PROVE  \E q \in Pipelines : \E i \in 1..Len(files[q]) :
                      k = Key(q, files[q][i]) /\ bucket'[k] = <<q, files[q][i]>>
  BY DEF Origin, paramVars, Key
<1>1. CASE k = Key(p, Current(p))
  BY <1>1, PutKeeps, CurrentType DEF Current
<1>2. CASE k # Key(p, Current(p))
  BY <1>2, PutKeeps DEF Origin
<1> QED
  BY <1>1, <1>2

\* The parts that look at the bucket do so through the objects that exist.
LEMMA BucketGrows ==
  ASSUME IInv, UNCHANGED paramVars,
         UNCHANGED reports,
         \A k \in Keys : bucket[k] # None => bucket'[k] # None
  PROVE  ReportsAreWhole'
<1> SUFFICES ASSUME NEW r \in reports, NEW i \in 1..Len(r.results)
             PROVE  bucket'[r.results[i].object] # None
  BY DEF IInv, ReportsAreWhole, paramVars, Result, Key
<1>1. r.pipeline \in Pipelines /\ i \in 1..Len(files[r.pipeline])
  BY DEF IInv, Senders, ReportsAreWhole
<1>2. r.results[i].object = Key(r.pipeline, files[r.pipeline][i])
  <2>1. r.results[i] = Result(r.pipeline, files[r.pipeline][i])
    BY DEF IInv, ReportsAreWhole
  <2> QED
    BY <2>1 DEF Result
<1>3. r.results[i].object \in Keys
  BY <1>1, <1>2, KeyType DEF IInv
<1> QED
  BY <1>3 DEF IInv, ReportsAreWhole

\* The steps that upload nothing leave what is known of the bucket.
LEMMA SameBucket ==
  ASSUME Origin, UNCHANGED <<paramVars, bucket>>
  PROVE  Origin'
BY DEF Origin, paramVars, Key

\* A report is that of an execution without failures.
LEMMA ReportIsWhole ==
  ASSUME IInv, NEW p \in Pipelines, phase[p] = "ingest"
  PROVE  /\ Len(results[p]) = Len(files[p])
         /\ \A i \in 1..Len(results[p]) :
              /\ results[p][i] = Result(p, files[p][i])
              /\ bucket[results[p][i].object] # None
<1>1. ~failed[p] /\ next[p] = Len(files[p]) + 1
  BY DEF IInv, Staged
<1>2. Len(files[p]) \in Nat
  BY DEF IInv, TypeOK
<1>3. Len(results[p]) = Len(files[p])
  BY <1>1, <1>2 DEF IInv, Exact
<1>4. ASSUME NEW i \in 1..Len(results[p])
      PROVE  /\ results[p][i] = Result(p, files[p][i])
             /\ bucket[results[p][i].object] # None
  <2>1. results[p][i] = Result(p, files[p][i]) /\ Stored(p, i)
    BY <1>1, <1>2, <1>3 DEF IInv, Exact
  <2> QED
    BY <2>1 DEF Result, Stored
<1> QED
  BY <1>3, <1>4

LEMMA NewReport ==
  ASSUME IInv, NEW p \in Pipelines, phase[p] = "ingest",
         UNCHANGED <<paramVars, bucket>>,
         reports' \in {reports, reports \union {Report(p)}}
  PROVE  Senders' /\ ReportsAreWhole'
<1>1. Senders'
  BY DEF IInv, Senders, Report
<1>2. ASSUME NEW r \in reports'
      PROVE  /\ Len(r.results) = Len(files[r.pipeline])
             /\ \A i \in 1..Len(r.results) :
                  /\ r.results[i] = Result(r.pipeline, files[r.pipeline][i])
                  /\ bucket[r.results[i].object] # None
  <2>1. CASE r \in reports
    BY <2>1 DEF IInv, ReportsAreWhole
  <2>2. CASE r = Report(p)
    BY <2>2, ReportIsWhole DEF Report
  <2> QED
    BY <2>1, <2>2
<1> QED
  BY <1>1, <1>2 DEF ReportsAreWhole, Result, Key, paramVars

LEMMA UploadKeeps ==
  ASSUME IInv, NEW p \in Pipelines, Upload(p)
  PROVE  Exact'
<1>1. TypeOK /\ Uploading(p) /\ Put(p)
  BY DEF IInv, Upload
<1>2. ASSUME NEW q \in Pipelines, ~failed[q]
      PROVE  /\ Len(results'[q]) = next'[q] - 1
             /\ \A i \in 1..(next'[q] - 1) :
                  results'[q][i] = Result(q, files[q][i]) /\ bucket'[Key(q, files[q][i])] # None
  <2>1. /\ Len(results[q]) = next[q] - 1
        /\ \A i \in 1..(next[q] - 1) :
             results[q][i] = Result(q, files[q][i]) /\ bucket[Key(q, files[q][i])] # None
    BY <1>2 DEF IInv, Exact, Stored
  <2>2. next[q] \in Nat \ {0} /\ Len(files[q]) \in Nat /\ next[q] <= Len(files[q]) + 1
    BY <1>1 DEF TypeOK
  <2>3. \A i \in 1..(next[q] - 1) : bucket'[Key(q, files[q][i])] # None
    <3> SUFFICES ASSUME NEW i \in 1..(next[q] - 1)
                 PROVE  bucket'[Key(q, files[q][i])] # None
      OBVIOUS
    <3>1. i \in 1..Len(files[q])
      BY <2>2
    <3> QED
      BY <1>1, <2>1, <3>1, KeyType, PutKeeps
  <2>4. CASE q = p
    <3>1. /\ next'[p] = next[p] + 1
          /\ results'[p] = Append(results[p], Result(p, Current(p)))
      BY <1>1 DEF Upload, TypeOK
    <3>2. results[p] \in Seq(Results) /\ Result(p, Current(p)) \in Results
      BY <1>1, CurrentType DEF TypeOK, Result, Results
    <3>3. /\ Len(results'[p]) = Len(results[p]) + 1
          /\ \A i \in 1..Len(results[p]) : results'[p][i] = results[p][i]
          /\ results'[p][Len(results[p]) + 1] = Result(p, Current(p))
      BY <3>1, <3>2
    <3>4. bucket'[Key(p, Current(p))] # None
      BY <1>1, CurrentType, PutKeeps, PairNotNone
    <3>5. ASSUME NEW i \in 1..next[p]
          PROVE  results'[p][i] = Result(p, files[p][i]) /\ bucket'[Key(p, files[p][i])] # None
      <4>1. CASE i = next[p]
        BY <2>1, <2>2, <2>4, <3>3, <3>4, <4>1 DEF Current
      <4>2. CASE i # next[p]
        <5>1. i \in 1..(next[p] - 1)
          BY <2>2, <2>4, <4>2
        <5> QED
          BY <2>1, <2>3, <2>4, <3>3, <5>1
      <4> QED
        BY <4>1, <4>2
    <3>6. next'[p] - 1 = next[p]
      BY <3>1, <2>2, <2>4
    <3> QED
      BY <2>1, <2>2, <2>4, <3>3, <3>5, <3>6
  <2>5. CASE q # p
    <3>1. next'[q] = next[q] /\ results'[q] = results[q]
      BY <1>1, <2>5 DEF Upload, TypeOK
    <3> QED
      BY <2>1, <2>3, <3>1
  <2> QED
    BY <2>4, <2>5
<1> QED
  BY <1>2 DEF Upload, Exact, Stored, Result, Key, paramVars

LEMMA UploadFailsKeeps ==
  ASSUME IInv, NEW p \in Pipelines, UploadFails(p)
  PROVE  Exact'
<1>1. TypeOK /\ Uploading(p) /\ failed' = [failed EXCEPT ![p] = TRUE]
  BY DEF IInv, UploadFails
<1>2. \A k \in Keys : bucket[k] # None => bucket'[k] # None
  BY <1>1, PutKeeps DEF UploadFails
<1>3. ASSUME NEW q \in Pipelines, ~failed'[q]
      PROVE  /\ Len(results[q]) = next'[q] - 1
             /\ \A i \in 1..(next'[q] - 1) :
                  results[q][i] = Result(q, files[q][i]) /\ bucket'[Key(q, files[q][i])] # None
  <2>1. q # p /\ ~failed[q] /\ next'[q] = next[q]
    BY <1>1, <1>3 DEF TypeOK, UploadFails
  <2>2. next[q] \in Nat \ {0} /\ Len(files[q]) \in Nat /\ next[q] <= Len(files[q]) + 1
    BY <1>1 DEF TypeOK
  <2>3. \A i \in 1..(next[q] - 1) : i \in 1..Len(files[q])
    BY <2>2
  <2> QED
    BY <1>1, <1>2, <2>1, <2>3, KeyType DEF IInv, Exact, Stored
<1> QED
  BY <1>3 DEF UploadFails, Exact, Stored, Result, Key, paramVars

LEMMA StepKeeps ==
  ASSUME IInv, NEW p \in Pipelines, Step(p)
  PROVE  IInv'
<1> TypeOK /\ Exact /\ Staged /\ Origin /\ Senders /\ ReportsAreWhole
  BY DEF IInv
<1>0. TypeOK'
  BY StepTypes
<1>1. CASE Configure(p)
  <2>1. phase'[p] \in {"upload", "error"} /\ \A q \in Pipelines \ {p} : phase'[q] = phase[q]
    BY <1>1 DEF Configure, GoTo, TypeOK
  <2>2. UNCHANGED <<paramVars, next, failed, results, bucket, reports>>
    BY <1>1 DEF Configure, GoTo
  <2>3. Staged'
    BY <2>1, <2>2 DEF Staged, paramVars
  <2>4. Exact' /\ Senders' /\ ReportsAreWhole'
    BY <2>2 DEF Exact, Stored, Result, Key, Senders, ReportsAreWhole, paramVars
  <2> QED
    BY <1>0, <2>2, <2>3, <2>4, SameBucket DEF IInv
<1>2. CASE Upload(p)
  <2>1. Uploading(p) /\ Put(p) /\ UNCHANGED <<paramVars, phase, failed, reports>>
    BY <1>2 DEF Upload
  <2>2. Origin'
    BY <2>1, PutOrigin
  <2>3. ReportsAreWhole' /\ Senders'
    BY <2>1, PutKeeps, BucketGrows DEF Senders
  <2>4. Staged'
    <3>1. phase[p] = "upload" /\ \A q \in Pipelines \ {p} : next'[q] = next[q]
      BY <1>2, <2>1 DEF Upload, Uploading, TypeOK
    <3> QED
      BY <2>1, <3>1 DEF Staged, paramVars
  <2> QED
    BY <1>0, <1>2, <2>2, <2>3, <2>4, UploadKeeps DEF IInv
<1>3. CASE UploadFails(p)
  <2>1. /\ Uploading(p) /\ (Put(p) \/ UNCHANGED bucket)
        /\ UNCHANGED <<paramVars, phase, reports>>
    BY <1>3 DEF UploadFails
  <2>2. Origin'
    BY <2>1, PutOrigin, SameBucket
  <2>3. ReportsAreWhole' /\ Senders'
    BY <2>1, PutKeeps, BucketGrows DEF Senders
  <2>4. Staged'
    <3>1. /\ phase[p] = "upload"
          /\ \A q \in Pipelines \ {p} : next'[q] = next[q] /\ failed'[q] = failed[q]
      BY <1>3, <2>1 DEF UploadFails, Uploading, TypeOK
    <3> QED
      BY <2>1, <3>1 DEF Staged, paramVars
  <2> QED
    BY <1>0, <1>3, <2>2, <2>3, <2>4, UploadFailsKeeps DEF IInv
<1>4. CASE UploadsEnd(p)
  <2>1. /\ UNCHANGED <<paramVars, next, failed, results, bucket, reports>>
        /\ phase'[p] = AfterUploads(p)
        /\ \A q \in Pipelines \ {p} : phase'[q] = phase[q]
    BY <1>4 DEF UploadsEnd, GoTo, TypeOK
  <2>2. next[p] = Len(files[p]) + 1
    <3>1. next[p] \in Nat /\ Len(files[p]) \in Nat /\ next[p] <= Len(files[p]) + 1
      BY DEF TypeOK
    <3> QED
      BY <1>4, <3>1 DEF UploadsEnd
  <2>3. Staged'
    <3>1. phase'[p] \in {"ingest", "ok"} => ~failed[p] /\ (phase'[p] = "ok" => ~ingesting)
      BY <2>1 DEF AfterUploads
    <3> QED
      BY <2>1, <2>2, <3>1 DEF Staged, paramVars
  <2>4. Exact' /\ Senders' /\ ReportsAreWhole'
    BY <2>1 DEF Exact, Stored, Result, Key, Senders, ReportsAreWhole, paramVars
  <2> QED
    BY <1>0, <2>1, <2>3, <2>4, SameBucket DEF IInv
<1>5. CASE Ingest(p)
  <2>1. /\ UNCHANGED <<paramVars, next, failed, results, bucket>>
        /\ phase[p] = "ingest" /\ phase'[p] = "ok"
        /\ \A q \in Pipelines \ {p} : phase'[q] = phase[q]
        /\ reports' = reports \union {Report(p)}
    BY <1>5 DEF Ingest, GoTo, TypeOK
  <2>2. Senders' /\ ReportsAreWhole'
    BY <2>1, NewReport
  <2>3. Staged'
    <3>1. Report(p) \in reports' /\ Report(p).pipeline = p
      BY <2>1 DEF Report
    <3> QED
      BY <2>1, <3>1 DEF Staged, paramVars
  <2>4. Exact'
    BY <2>1 DEF Exact, Stored, Result, Key, paramVars
  <2> QED
    BY <1>0, <2>1, <2>2, <2>3, <2>4, SameBucket DEF IInv
<1>6. CASE IngestFails(p)
  <2>1. /\ UNCHANGED <<paramVars, next, failed, results, bucket>>
        /\ phase[p] = "ingest" /\ phase'[p] = "error"
        /\ \A q \in Pipelines \ {p} : phase'[q] = phase[q]
        /\ reports' \in {reports, reports \union {Report(p)}}
    BY <1>6 DEF IngestFails, GiveUp, GoTo, TypeOK
  <2>2. Senders' /\ ReportsAreWhole'
    BY <2>1, NewReport
  <2>3. Staged'
    BY <2>1 DEF Staged, paramVars
  <2>4. Exact'
    BY <2>1 DEF Exact, Stored, Result, Key, paramVars
  <2> QED
    BY <1>0, <2>1, <2>2, <2>3, <2>4, SameBucket DEF IInv
<1>7. CASE Restart(p)
  <2>1. /\ UNCHANGED <<paramVars, bucket, reports>>
        /\ phase'[p] = "start" /\ next'[p] = 1 /\ results'[p] = <<>>
        /\ \A q \in Pipelines \ {p} :
             /\ phase'[q] = phase[q]
             /\ next'[q] = next[q]
             /\ results'[q] = results[q]
             /\ failed'[q] = failed[q]
    BY <1>7 DEF Restart, StartOver, TypeOK
  <2>2. Staged'
    BY <2>1 DEF Staged, paramVars
  <2>3. Exact'
    <3>1. Len(results'[p]) = next'[p] - 1 /\ 1..(next'[p] - 1) = {}
      BY <2>1
    <3>2. ASSUME NEW q \in Pipelines \ {p}, ~failed'[q]
          PROVE  /\ Len(results'[q]) = next'[q] - 1
                 /\ \A i \in 1..(next'[q] - 1) :
                      results'[q][i] = Result(q, files[q][i]) /\ Stored(q, i)
      BY <2>1, <3>2 DEF Exact
    <3> QED
      BY <2>1, <3>1, <3>2 DEF Exact, Stored, Result, Key, paramVars
  <2>4. Senders' /\ ReportsAreWhole'
    BY <2>1 DEF Senders, ReportsAreWhole, Result, Key, paramVars
  <2> QED
    BY <1>0, <2>1, <2>2, <2>3, <2>4, SameBucket DEF IInv
<1> QED
  BY <1>1, <1>2, <1>3, <1>4, <1>5, <1>6, <1>7 DEF Step

LEMMA Inductive == Spec => []IInv
<1>1. Init => IInv
  <2> SUFFICES ASSUME Init PROVE IInv
    OBVIOUS
  <2>1. \A p \in Pipelines : Len(results[p]) = next[p] - 1 /\ 1..(next[p] - 1) = {}
    <3>1. \A p \in Pipelines : results[p] = <<>> /\ next[p] = 1
      BY DEF Init
    <3>2. 1 - 1 = 0 /\ 1..0 = {}
      OBVIOUS
    <3>3. Len(<<>>) = 0
      OBVIOUS
    <3> QED
      BY <3>1, <3>2, <3>3
  <2>2. Exact
    BY <2>1 DEF Exact
  <2>3. Staged /\ Origin /\ Senders /\ ReportsAreWhole
    BY DEF Init, Staged, Origin, Senders, ReportsAreWhole
  <2> QED
    BY <2>2, <2>3, InitTypes DEF IInv
<1>2. IInv /\ [Next]_vars => IInv'
  <2>1. IInv /\ UNCHANGED vars => IInv'
    <3> SUFFICES ASSUME IInv, UNCHANGED vars PROVE IInv'
      OBVIOUS
    <3>1. TypeOK' /\ Staged' /\ Senders'
      BY DEF IInv, TypeOK, Staged, Senders, vars, paramVars, processVars
    <3>2. Exact' /\ ReportsAreWhole'
      BY DEF IInv, Exact, Stored, Result, Key, ReportsAreWhole, vars, paramVars, processVars
    <3> QED
      BY <3>1, <3>2, SameBucket DEF IInv, vars
  <2> QED
    BY <2>1, StepKeeps DEF Next, Step
<1> QED
  BY <1>1, <1>2, PTL DEF Spec

-----------------------------------------------------------------------------
\* No part of a report is ever sent, nor a result whose object is missing, and
\* a report sent again is the same (ocularResults and merr in main).
THEOREM NoPartialReport == Spec => []ReportsAreWhole
<1>1. IInv => ReportsAreWhole
  BY DEF IInv
<1> QED
  BY <1>1, Inductive, PTL

\* Exit code 0 means that all was uploaded and reported (triggerIngest).
THEOREM ExitIsHonest == Spec => []ExitMeansReported
<1>1. IInv => ExitMeansReported
  <2> SUFFICES ASSUME IInv, NEW p \in Pipelines, phase[p] = "ok"
               PROVE  /\ \A i \in 1..Len(files[p]) : bucket[Key(p, files[p][i])] # None
                      /\ ingesting => \E r \in reports : r.pipeline = p
    BY DEF ExitMeansReported
  <2>1. Len(files[p]) \in Nat /\ ~failed[p] /\ next[p] = Len(files[p]) + 1
    BY DEF IInv, TypeOK, Staged
  <2>2. \A i \in 1..Len(files[p]) : Stored(p, i)
    BY <2>1 DEF IInv, Exact
  <2> QED
    BY <2>2 DEF Stored, IInv, Staged
<1> QED
  BY <1>1, Inductive, PTL

\* A file that shares its name and prefix with no other keeps its object.
THEOREM ObjectsAreOwn == Spec => []ReportedObjectsAreOwn
<1>1. IInv => ReportedObjectsAreOwn
  <2> SUFFICES ASSUME IInv, NEW r \in reports, NEW i \in 1..Len(r.results),
                      Alone(r.pipeline, files[r.pipeline][i])
               PROVE  bucket[r.results[i].object] = <<r.pipeline, files[r.pipeline][i]>>
    BY DEF ReportedObjectsAreOwn
  <2> DEFINE p == r.pipeline
             f == files[r.pipeline][i]
             k == r.results[i].object
  <2>1. /\ r.results[i] = Result(p, f)
        /\ bucket[k] # None
        /\ p \in Pipelines
        /\ i \in 1..Len(files[p])
    BY DEF IInv, ReportsAreWhole, Senders
  <2>2. k = Key(p, f) /\ k \in Keys
    BY <2>1, KeyType DEF Result, IInv
  <2>3. PICK q \in Pipelines : \E j \in 1..Len(files[q]) :
          k = Key(q, files[q][j]) /\ bucket[k] = <<q, files[q][j]>>
    BY <2>1, <2>2 DEF IInv, Origin
  <2>4. PICK j \in 1..Len(files[q]) :
          k = Key(q, files[q][j]) /\ bucket[k] = <<q, files[q][j]>>
    BY <2>3
  <2>5. prefix[q] = prefix[p] /\ Base[files[q][j]] = Base[f]
    <3> HIDE DEF p, f, k
    <3>1. Key(q, files[q][j]) = Key(p, f)
      BY <2>2, <2>4
    <3> QED
      BY <3>1 DEF Key
  <2>6. q = p /\ files[q][j] = f
    <3>1. Alone(p, f)
      OBVIOUS
    <3> HIDE DEF p, f, k
    <3> QED
      BY <2>5, <3>1 DEF Alone
  <2> QED
    BY <2>4, <2>6
<1> QED
  BY <1>1, Inductive, PTL
=============================================================================
