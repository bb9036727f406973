------------------------------ MODULE Uploader ------------------------------
(***************************************************************************)
(* The uploader of a pipeline, a program that puts the result files of its *)
(* scanners into a bucket and then reports them to the ingest service.     *)
(* Pipelines run at the same time, share the bucket, and may be started    *)
(* again when their uploader died or exited with an error.                 *)
(*                                                                         *)
(* External: the bucket (PutObject stores an object whole or not at all),  *)
(* the ingest service and whatever starts the program.  The reply of       *)
(* either service may be lost after it did what it was asked to.           *)
(***************************************************************************)
EXTENDS Naturals, Sequences

CONSTANTS
  Pipelines,
  Files,       \* paths below the results directory: other arguments are dropped
  Bases,       \* names of files
  Base,        \* Base[f]: the name of f
  Prefixes,    \* values of the parameter S3_PREFIX
  None,        \* no object
  MaxFiles,    \* bound: files of one pipeline
  MaxAttempts  \* bound: executions of the uploader of one pipeline

ASSUME UploaderAssumption ==
  /\ Base \in [Files -> Bases]
  /\ None \notin Pipelines \X Files
  /\ MaxFiles \in Nat
  /\ MaxAttempts \in Nat

VARIABLES
  files,     \* files[p]: the result files of p, in the order of its arguments
  prefix,    \* prefix[p]: where p puts its objects
  ingesting, \* the ingest host and token are set
  phase,     \* phase[p]: start, upload, ingest, or the exit code: ok or error
  next,      \* next[p]: the index of the next file
  failed,    \* failed[p]: an upload of p failed (merr)
  results,   \* results[p]: what p will report (ocularResults)
  attempts,  \* attempts[p]: executions so far
  bucket,    \* bucket[k]: the pipeline and file the object comes from, or None
  reports    \* the requests the ingest service accepted

paramVars == <<files, prefix, ingesting>>
processVars == <<phase, next, failed, results, attempts>>
vars == <<paramVars, processVars, bucket, reports>>

Keys == Prefixes \X Bases

\* Variant: the prefix is left out.
FirstPrefix(p, f) == <<CHOOSE x \in Prefixes : TRUE, Base[f]>>

Key(p, f) == <<prefix[p], Base[f]>>

Result(p, f) == [pipeline |-> p, object |-> Key(p, f)]

Report(p) == [pipeline |-> p, results |-> results[p]]

-----------------------------------------------------------------------------
Init ==
  /\ files \in [Pipelines -> UNION {[1..n -> Files] : n \in 0..MaxFiles}]
  /\ prefix \in [Pipelines -> Prefixes]
  /\ ingesting \in BOOLEAN
  /\ phase = [p \in Pipelines |-> "start"]
  /\ next = [p \in Pipelines |-> 1]
  /\ failed = [p \in Pipelines |-> FALSE]
  /\ results = [p \in Pipelines |-> <<>>]
  /\ attempts = [p \in Pipelines |-> 1]
  /\ bucket = [k \in Keys |-> None]
  /\ reports = {}

GoTo(p, ph) ==
  /\ phase' = [phase EXCEPT ![p] = ph]
  /\ UNCHANGED <<paramVars, next, failed, results, attempts>>

Configure(p) ==
  /\ phase[p] = "start"
  /\ GoTo(p, "upload") \/ GoTo(p, "error")
  /\ UNCHANGED <<bucket, reports>>

Uploading(p) == phase[p] = "upload" /\ next[p] <= Len(files[p])

Current(p) == files[p][next[p]]

Put(p) == bucket' = [bucket EXCEPT ![Key(p, Current(p))] = <<p, Current(p)>>]

Upload(p) ==
  /\ Uploading(p)
  /\ Put(p)
  /\ results' = [results EXCEPT ![p] = Append(@, Result(p, Current(p)))]
  /\ next' = [next EXCEPT ![p] = @ + 1]
  /\ UNCHANGED <<paramVars, phase, failed, attempts, reports>>

\* The file cannot be opened or the object not be put; the others still are.
UploadFails(p) ==
  /\ Uploading(p)
  /\ Put(p) \/ UNCHANGED bucket
  /\ failed' = [failed EXCEPT ![p] = TRUE]
  /\ next' = [next EXCEPT ![p] = @ + 1]
  /\ UNCHANGED <<paramVars, phase, results, attempts, reports>>

\* Variant: the failures are only logged.
Uploaded(p) == IF ingesting THEN "ingest" ELSE "ok"

\* One failure, and nothing is reported; reporting is optional.
AfterUploads(p) ==
  CASE failed[p]               -> "error"
    [] ~failed[p] /\ ingesting -> "ingest"
    [] OTHER                   -> "ok"

UploadsEnd(p) ==
  /\ phase[p] = "upload"
  /\ next[p] > Len(files[p])
  /\ GoTo(p, AfterUploads(p))
  /\ UNCHANGED <<bucket, reports>>

\* One request with all the results.
Ingest(p) ==
  /\ phase[p] = "ingest"
  /\ reports' = reports \union {Report(p)}
  /\ GoTo(p, "ok")
  /\ UNCHANGED bucket

\* Variant: the error is only logged.
LogOnly(p) == GoTo(p, "ok")

GiveUp(p) == GoTo(p, "error")

\* The request fails, times out or is answered with another status.
IngestFails(p) ==
  /\ phase[p] = "ingest"
  /\ reports' \in {reports, reports \union {Report(p)}}
  /\ GiveUp(p)
  /\ UNCHANGED bucket

\* Variant: what an earlier execution did is not done again.
Resume(p) ==
  /\ failed' = [failed EXCEPT ![p] = FALSE]
  /\ UNCHANGED <<next, results>>

StartOver(p) ==
  /\ next' = [next EXCEPT ![p] = 1]
  /\ failed' = [failed EXCEPT ![p] = FALSE]
  /\ results' = [results EXCEPT ![p] = <<>>]

\* The program dies, or has exited with an error, and is started again.
Restart(p) ==
  /\ phase[p] # "ok"
  /\ attempts[p] < MaxAttempts
  /\ attempts' = [attempts EXCEPT ![p] = @ + 1]
  /\ phase' = [phase EXCEPT ![p] = "start"]
  /\ StartOver(p)
  /\ UNCHANGED <<paramVars, bucket, reports>>

Next ==
  \E p \in Pipelines :
    \/ Configure(p)
    \/ Upload(p)
    \/ UploadFails(p)
    \/ UploadsEnd(p)
    \/ Ingest(p)
    \/ IngestFails(p)
    \/ Restart(p)

Spec == Init /\ [][Next]_vars

-----------------------------------------------------------------------------
\* Types; the results are those of uploads of this execution.
TypeOK ==
  /\ files \in [Pipelines -> Seq(Files)]
  /\ prefix \in [Pipelines -> Prefixes]
  /\ ingesting \in BOOLEAN
  /\ phase \in [Pipelines -> {"start", "upload", "ingest", "ok", "error"}]
  /\ next \in [Pipelines -> Nat \ {0}]
  /\ failed \in [Pipelines -> BOOLEAN]
  /\ results \in [Pipelines -> Seq([pipeline : Pipelines, object : Keys])]
  /\ attempts \in [Pipelines -> Nat]
  /\ bucket \in [Keys -> (Pipelines \X Files) \union {None}]
  /\ \A p \in Pipelines :
       /\ next[p] <= Len(files[p]) + 1
       /\ phase[p] = "start" => next[p] = 1
       /\ Len(results[p]) < next[p]

\* A report that reached the ingest service is the whole of what its pipeline
\* found, the objects it names are in the bucket, and so a second report of
\* the pipeline, after a lost reply, repeats the first (merr in main).
ReportsAreWhole ==
  \A r \in reports :
    /\ Len(r.results) = Len(files[r.pipeline])
    /\ \A i \in 1..Len(r.results) :
         /\ r.results[i] = Result(r.pipeline, files[r.pipeline][i])
         /\ bucket[r.results[i].object] # None

\* When the program exits with 0, everything was uploaded and, with an ingest
\* service, reported, whatever failed in earlier executions (triggerIngest).
ExitMeansReported ==
  \A p \in Pipelines : phase[p] = "ok" =>
    /\ \A i \in 1..Len(files[p]) : bucket[Key(p, files[p][i])] # None
    /\ ingesting => \E r \in reports : r.pipeline = p

\* Nobody else puts an object where p puts f.
Alone(p, f) ==
  \A q \in Pipelines : \A i \in 1..Len(files[q]) :
    prefix[q] = prefix[p] /\ Base[files[q][i]] = Base[f] => q = p /\ files[q][i] = f

\* A reported object holds the file it was reported for, and stays so while
\* other pipelines upload theirs, as long as no two files of the same name have
\* the same prefix: nothing else of a pipeline is in the key of its objects.
ReportedObjectsAreOwn ==
  \A r \in reports : \A i \in 1..Len(r.results) :
    LET f == files[r.pipeline][i]
    IN  Alone(r.pipeline, f) => bucket[r.results[i].object] = <<r.pipeline, f>>
=============================================================================
