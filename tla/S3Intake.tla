------------------------------ MODULE S3Intake ------------------------------
(***************************************************************************)
(* Report intake when the queue carries S3 notifications: Intake, with the *)
(* parser's loop over the records of a notification in the place of its    *)
(* steps Parse and ParseFails.  Each record names an object and the ETag   *)
(* it had; the reports are fetched from the object while the manager goes  *)
(* on, so that objects are written again, and the context is cancelled,    *)
(* between two records.                                                    *)
(*                                                                         *)
(* External: the object store, where an ETag is the number of times the    *)
(* object was written.                                                     *)
(***************************************************************************)
EXTENDS Intake

CONSTANTS
  Objects,
  Records,    \* Records[m]: the records of message m, or Malformed
  Malformed,  \* a body, or the key of one of its records, does not decode
  MaxVersion  \* bound: writes of one object

Versions == [object : Objects, etag : 1..MaxVersion]

ASSUME S3Assumption ==
  /\ MaxVersion \in Nat
  /\ \A m \in Messages : Records[m] = Malformed \/ Records[m] \in Seq(Versions)

VARIABLES
  object,   \* object[o]: the current ETag of object o, 0 when it is absent
  parsing,  \* the delivery being parsed
  next,     \* the record the loop is at
  merr,     \* the last record that failed, 0 for nil
  reports,  \* the versions of objects whose reports were appended
  handed    \* handed[d]: those in the event of delivery d

parserVars == <<parsing, next, merr, reports>>
s3Vars == <<object, parserVars, handed>>

Notified == Records[parsing[1]]
Reading == parsing # None /\ Notified # Malformed
More == Reading /\ next \in 1..Len(Notified)
Record == Notified[next]

-----------------------------------------------------------------------------
S3Init ==
  /\ Init
  /\ object = [o \in Objects |-> 0]
  /\ parsing = None
  /\ next = 1
  /\ merr = 0
  /\ reports = <<>>
  /\ handed = [d \in Deliveries |-> <<>>]

\* Variant: the slice of reports outlives the message.
KeepReports == parsing' = None /\ next' = 1 /\ merr' = 0 /\ reports' = reports

Reset ==
  /\ parsing' = None
  /\ next' = 1
  /\ merr' = 0
  /\ reports' = <<>>

PutObject(o) ==
  /\ object[o] < MaxVersion
  /\ object' = [object EXCEPT ![o] = @ + 1]
  /\ UNCHANGED <<vars, parserVars, handed>>

\* The bucket announces what was written to it.
Notify(m) ==
  /\ Publish(m)
  /\ Records[m] # Malformed =>
       \A i \in 1..Len(Records[m]) : object[Records[m][i].object] >= Records[m][i].etag
  /\ UNCHANGED s3Vars

-----------------------------------------------------------------------------
StartParse(d) ==
  /\ listener = "batch" /\ sending = None
  /\ parsing = None
  /\ d \in batch
  /\ parsing' = d
  /\ UNCHANGED <<vars, object, next, merr, reports, handed>>

\* Variant: an error ends the batch.
Break ==
  /\ batch' = {}
  /\ UNCHANGED <<busVars, queueVars, listener, sending, waiters, httpVars, restarts>>

\* The parser returned an error: the listener goes on with the next message.
Skip == ParseFails(parsing)

BodyFails ==
  /\ parsing # None
  /\ Notified = Malformed
  /\ Skip
  /\ Reset
  /\ UNCHANGED <<object, handed>>

\* Variant: the object is read whatever its ETag.
AnyVersion == object[Record.object] > 0

Matches == object[Record.object] = Record.etag

\* Variant: err is assigned by every record.
Cleared == merr' = 0

Kept == merr' = merr

ReadRecord ==
  /\ More
  /\ Connected
  /\ Matches
  /\ reports' = Append(reports, [object |-> Record.object, etag |-> object[Record.object]])
  /\ next' = next + 1
  /\ Kept
  /\ UNCHANGED <<vars, object, parsing, handed>>

\* The object is gone or has another ETag, the request fails, or the contents
\* do not decode.  multierror.Append(err, err) drops the errors of the records
\* before.
RecordFails ==
  /\ More
  /\ merr' = next
  /\ next' = next + 1
  /\ UNCHANGED <<vars, object, parsing, reports, handed>>

\* Every record was read: the reports, if any, go on the bus.
HandOver ==
  /\ Reading /\ ~More
  /\ merr = 0
  /\ Parse(parsing)
  /\ handed' = [handed EXCEPT ![parsing] = reports]
  /\ Reset
  /\ UNCHANGED object

\* Some were not: the reports of the others are dropped.
Reject ==
  /\ Reading /\ ~More
  /\ merr # 0
  /\ Skip
  /\ Reset
  /\ UNCHANGED <<object, handed>>

-----------------------------------------------------------------------------
S3Restart ==
  /\ Restart
  /\ Reset
  /\ UNCHANGED <<object, handed>>

\* The steps of Intake in which the parser has no part.
Other ==
  \/ \E m \in Messages : VisibilityExpires(m)
  \/ Poll
  \/ ListenerStop
  \/ ReceiveNothing
  \/ \E S \in SUBSET Visible : Receive(S)
  \/ \E S \in SUBSET Visible : ReceiveFails(S)
  \/ BackoffEnds
  \/ Enqueued
  \/ BatchEnds
  \/ \E d \in waiters : Settle(d)
  \/ \E q \in Requests : Refuse(q) \/ Upload(q) \/ Reply(q)
  \/ CloseServer
  \/ ListenFails
  \/ ServeBus
  \/ Cancel

S3Next ==
  \/ \E o \in Objects : PutObject(o)
  \/ \E m \in Messages : Notify(m)
  \/ \E d \in batch : StartParse(d)
  \/ BodyFails
  \/ ReadRecord
  \/ RecordFails
  \/ HandOver
  \/ Reject
  \/ S3Restart
  \/ Other /\ UNCHANGED s3Vars

S3Spec == S3Init /\ [][S3Next]_<<vars, s3Vars>>

-----------------------------------------------------------------------------
\* The parser works on one received message at a time, which it has not handed
\* over, and its errors are among the records it has passed.
S3TypeOK ==
  /\ object \in [Objects -> 0..MaxVersion]
  /\ parsing \in batch \union {None}
  /\ parsing # None => listener = "batch" /\ sending = None
  /\ merr \in 0..(next - 1)
  /\ reports \in Seq(Versions) /\ Len(reports) < next
  /\ Reading => next <= Len(Notified) + 1
  /\ handed \in [Deliveries -> Seq(Versions)]

\* An event has the reports of all records of its notification, each from the
\* object as it was announced, although objects are written again and records
\* fail while it is read; and a notification leaves the queue only when such
\* an event was evaluated.
EvaluatedAsNotified ==
  /\ \A d \in Deliveries : outcome[d] # "none" => handed[d] = Records[d[1]]
  /\ \A m \in Messages :
       msg[m] = "deleted" =>
         \E r \in 1..MaxReceives : Evaluated(<<m, r>>) /\ handed[<<m, r>>] = Records[m]

\* Intake abstracts the parser to one step that succeeds or fails.
ImplementsIntake == Spec
=============================================================================
