--------------------------- MODULE S3Intake_proof ---------------------------
(***************************************************************************)
(* The parser of S3 notifications implements the two steps Intake has for  *)
(* it, so that what Intake_proof proves holds of it too; and every event   *)
(* is a whole notification, for all notifications, objects and schedules.  *)
(***************************************************************************)
EXTENDS S3Intake, Intake_proof

USE IntakeAssumption, S3Assumption DEF IntakeAssumption, S3Assumption

\* The event of delivery d is, or was, on the bus.
OnItsWay(d) == OnBus(d) \/ d = cur \/ outcome[d] # "none"

\* Where the loop is, and that it has read every record it has passed unless
\* one of them failed.
ParserOK ==
  /\ parsing \in batch \union {None}
  /\ parsing # None => listener = "batch" /\ sending = None
  /\ parsing = None => next = 1 /\ merr = 0 /\ reports = <<>>
  /\ next \in Nat \ {0}
  /\ merr \in 0..(next - 1)
  /\ reports \in Seq(Versions) /\ Len(reports) < next
  /\ Reading => next <= Len(Notified) + 1
  /\ Reading /\ merr = 0 =>
       /\ Len(reports) = next - 1
       /\ \A i \in 1..Len(reports) : reports[i] = Notified[i]

HandedOK ==
  /\ handed \in [Deliveries -> Seq(Versions)]
  /\ \A d \in Deliveries : OnItsWay(d) => handed[d] = Records[d[1]]

ObjectOK == object \in [Objects -> 0..MaxVersion]

IInv == ParserOK /\ HandedOK /\ ObjectOK

-----------------------------------------------------------------------------
LEMMA NotifiedType ==
  ASSUME TypeOK, ParserOK, Reading
  PROVE  /\ parsing \in Deliveries /\ parsing[1] \in Messages
         /\ Notified \in Seq(Versions)
<1>1. parsing \in batch /\ batch \subseteq Deliveries
  BY DEF ParserOK, Reading, TypeOK
<1>2. parsing \in Deliveries /\ parsing[1] \in Messages
  BY <1>1 DEF Deliveries
<1> QED
  BY <1>2 DEF Reading, Notified

LEMMA InitOK == S3Init => IInv
<1> SUFFICES ASSUME S3Init PROVE IInv
  OBVIOUS
<1>1. ~\E d \in Deliveries : OnItsWay(d)
  <2> SUFFICES ASSUME NEW d \in Deliveries PROVE ~OnItsWay(d)
    OBVIOUS
  <2>1. d # None /\ d \in BusEvents
    BY DEF BusEvents
  <2>2. Len(sendq) = 0 /\ cur = None /\ outcome[d] = "none"
    BY <2>1 DEF S3Init, Init, Bus!Init
  <2> QED
    BY <2>1, <2>2 DEF OnItsWay, OnBus
<1>2. <<>> \in Seq(Versions) /\ Len(<<>>) = 0
  OBVIOUS
<1> QED
  BY <1>1, <1>2 DEF S3Init, IInv, ParserOK, HandedOK, ObjectOK, Reading

-----------------------------------------------------------------------------
(***************************************************************************)
(* The steps of the bus and of the rest of intake.                         *)
(***************************************************************************)
LEMMA BusSilent ==
  ASSUME UNCHANGED busVars, NEW d
  PROVE  OnItsWay(d)' => OnItsWay(d)
BY DEF busVars, OnItsWay, OnBus

LEMMA ServeSilent ==
  ASSUME BusTypeOK, BusOK, ServeBus, NEW d \in Deliveries
  PROVE  OnItsWay(d)' => OnItsWay(d)
<1>0. d \in BusEvents
  BY DEF BusEvents
<1>1. CASE Bus!Take
  <2>1. OnBus(d) <=> OnBus(d)' \/ d = cur'
    BY <1>0, <1>1, TakeRemoves
  <2>2. outcome' = outcome
    BY <1>1 DEF Bus!Take
  <2> QED
    BY <2>1, <2>2 DEF OnItsWay
<1>2. CASE Bus!Create \/ Bus!Interrupt \/ Bus!Wake \/ Bus!Stop
  BY <1>2 DEF Bus!Create, Bus!Interrupt, Bus!Wake, Bus!Stop, OnItsWay, OnBus
<1>3. CASE \E o \in {"nil", "error"} : Bus!Answer(o)
  <2>1. sendq' = sendq /\ cur' = None /\ d # None
    BY <1>0, <1>3 DEF Bus!Answer
  <2>2. d # cur => outcome'[d] = outcome[d]
    BY <1>0, <1>3 DEF Bus!Answer, BusTypeOK
  <2> QED
    BY <2>1, <2>2 DEF OnItsWay, OnBus
<1> QED
  BY <1>1, <1>2, <1>3 DEF ServeBus, Bus!Serve

LEMMA OtherSilent ==
  ASSUME BusTypeOK, BusOK, Other, NEW d \in Deliveries
  PROVE  OnItsWay(d)' => OnItsWay(d)
<1>1. CASE UNCHANGED busVars
  BY <1>1, BusSilent
<1>2. CASE ServeBus
  BY <1>2, ServeSilent
<1>3. CASE Cancel
  BY <1>3 DEF Cancel, Bus!Cancel, OnItsWay, OnBus
<1>4. ASSUME NEW q \in Requests, Upload(q)
      PROVE  OnItsWay(d)' => OnItsWay(d)
  <2>1. Bus!Enqueue(q) /\ q \in BusEvents /\ d \in BusEvents /\ d # q
    BY <1>4 DEF Upload, BusEvents
  <2>2. OnBus(d)' <=> OnBus(d)
    BY <2>1, EnqueueAdds
  <2> QED
    BY <2>1, <2>2 DEF Bus!Enqueue, OnItsWay
<1> QED
  BY <1>1, <1>2, <1>3, <1>4
     DEF Other, VisibilityExpires, Poll, ListenerStop, ReceiveNothing, Receive, ReceiveFails,
         BackoffEnds, Enqueued, BatchEnds, Settle, KeepMessage, DeleteMessage, DeleteFails,
         Refuse, Reply, CloseServer, ListenFails

\* While a message is being parsed the loop of the listener waits.
LEMMA OtherWaits ==
  ASSUME ParserOK, parsing # None, Other
  PROVE  UNCHANGED <<listener, batch, sending>>
<1>1. listener = "batch" /\ sending = None /\ batch # {}
  BY DEF ParserOK
<1> QED
  BY <1>1
     DEF Other, VisibilityExpires, Poll, ListenerStop, ReceiveNothing, Receive, ReceiveFails,
         BackoffEnds, Enqueued, BatchEnds, Settle, KeepMessage, DeleteMessage, DeleteFails,
         Refuse, Upload, Reply, CloseServer, ListenFails, ServeBus, Cancel, intakeVars, listenerVars

-----------------------------------------------------------------------------
(***************************************************************************)
(* The steps of the parser.                                                *)
(***************************************************************************)
LEMMA HandedKept ==
  ASSUME HandedOK, UNCHANGED handed, \A d \in Deliveries : OnItsWay(d)' => OnItsWay(d)
  PROVE  HandedOK'
BY DEF HandedOK

LEMMA ResetOK == ASSUME Reset PROVE ParserOK'
<1>1. <<>> \in Seq(Versions) /\ Len(<<>>) = 0
  OBVIOUS
<1> QED
  BY <1>1 DEF Reset, ParserOK, Reading

LEMMA StartParseKeeps ==
  ASSUME TypeOK, IInv, NEW m \in batch, StartParse(m)
  PROVE  IInv'
<1>1. UNCHANGED <<busVars, listener, batch, sending, object, next, merr, reports, handed>>
  BY DEF StartParse, vars, intakeVars, listenerVars
<1>2. ParserOK'
  <2>1. /\ parsing = None /\ parsing' = m /\ listener = "batch" /\ sending = None
        /\ next = 1 /\ merr = 0 /\ reports = <<>>
    BY DEF StartParse, IInv, ParserOK
  <2>2. m[1] \in Messages
    BY DEF TypeOK, Deliveries
  <2>3. Records[m[1]] # Malformed => Len(Records[m[1]]) \in Nat
    BY <2>2
  <2>4. reports \in Seq(Versions) /\ Len(reports) = 0
    BY <2>1
  <2>5. m # None
    BY DEF TypeOK, Deliveries, BusEvents
  <2> QED
    BY <1>1, <2>1, <2>3, <2>4, <2>5 DEF ParserOK, Reading, Notified
<1>3. HandedOK'
  BY <1>1, BusSilent, HandedKept DEF IInv
<1> QED
  BY <1>1, <1>2, <1>3 DEF IInv, ObjectOK

LEMMA ReadRecordKeeps ==
  ASSUME TypeOK, IInv, ReadRecord
  PROVE  IInv'
<1>1. UNCHANGED <<busVars, listener, batch, sending, object, parsing, merr, handed>> /\ next' = next + 1
  BY DEF ReadRecord, Kept, vars, intakeVars, listenerVars
<1>2. /\ Reading /\ next \in 1..Len(Notified) /\ Notified \in Seq(Versions)
      /\ Notified' = Notified
  BY <1>1, NotifiedType DEF ReadRecord, More, IInv, Notified
<1>3. reports' = Append(reports, Record) /\ Record \in Versions
  <2>1. Record \in Versions
    BY <1>2 DEF Record
  <2>2. object[Record.object] = Record.etag
    BY DEF ReadRecord, Matches
  <2>3. Record = [object |-> Record.object, etag |-> Record.etag]
    BY <2>1 DEF Versions
  <2> QED
    BY <2>1, <2>2, <2>3 DEF ReadRecord
<1>4. /\ reports \in Seq(Versions) /\ Len(reports) \in Nat /\ Len(reports) < next
      /\ next \in Nat \ {0} /\ merr \in 0..(next - 1)
  BY DEF IInv, ParserOK
<1>5. /\ reports' \in Seq(Versions) /\ Len(reports') = Len(reports) + 1
      /\ reports'[Len(reports) + 1] = Notified[next]
      /\ \A i \in 1..Len(reports) : reports'[i] = reports[i]
  BY <1>3, <1>4 DEF Record
<1>6. merr = 0 => Len(reports) = next - 1 /\ \A i \in 1..Len(reports) : reports[i] = Notified[i]
  BY <1>2 DEF IInv, ParserOK
<1>7. merr = 0 => Len(reports') = next /\ \A i \in 1..Len(reports') : reports'[i] = Notified[i]
  <2> SUFFICES ASSUME merr = 0
               PROVE  Len(reports') = next /\ \A i \in 1..Len(reports') : reports'[i] = Notified[i]
    OBVIOUS
  <2>1. Len(reports) = next - 1 /\ Len(reports') = next /\ Len(reports) + 1 = next
    BY <1>4, <1>5, <1>6
  <2>2. \A i \in 1..Len(reports') : i \in 1..Len(reports) \/ i = next
    BY <1>4, <2>1
  <2> QED
    BY <1>5, <1>6, <2>1, <2>2
<1>8. ParserOK'
  <2>1. next' \in Nat \ {0} /\ merr' \in 0..(next' - 1) /\ Len(reports') < next'
        /\ next' <= Len(Notified) + 1 /\ next' - 1 = next
    BY <1>1, <1>2, <1>4, <1>5
  <2>2. parsing' # None /\ listener' = "batch" /\ sending' = None /\ parsing' \in batch'
    BY <1>1, <1>2 DEF IInv, ParserOK, Reading
  <2> QED
    BY <1>1, <1>2, <1>5, <1>7, <2>1, <2>2 DEF ParserOK
<1>9. HandedOK'
  BY <1>1, BusSilent, HandedKept DEF IInv
<1> QED
  BY <1>1, <1>8, <1>9 DEF IInv, ObjectOK

LEMMA RecordFailsKeeps ==
  ASSUME TypeOK, IInv, RecordFails
  PROVE  IInv'
<1>1. /\ UNCHANGED <<busVars, listener, batch, sending, object, parsing, reports, handed>>
      /\ merr' = next /\ next' = next + 1
  BY DEF RecordFails, vars, intakeVars, listenerVars
<1>2. /\ Reading /\ next \in 1..Len(Notified) /\ Notified \in Seq(Versions)
      /\ Notified' = Notified
  BY <1>1, NotifiedType DEF RecordFails, More, IInv, Notified
<1>3. ParserOK'
  <2>1. Len(reports) \in Nat /\ Len(reports) < next /\ next \in Nat \ {0}
    BY DEF IInv, ParserOK
  <2>2. /\ next' \in Nat \ {0} /\ merr' \in 0..(next' - 1) /\ merr' # 0 /\ Len(reports) < next'
        /\ next' <= Len(Notified) + 1
    BY <1>1, <1>2, <2>1
  <2>3. parsing' # None /\ listener' = "batch" /\ sending' = None /\ parsing' \in batch'
    BY <1>1, <1>2 DEF IInv, ParserOK, Reading
  <2>4. reports' \in Seq(Versions)
    BY <1>1 DEF IInv, ParserOK
  <2> QED
    BY <1>1, <1>2, <2>2, <2>3, <2>4 DEF ParserOK
<1>4. HandedOK'
  BY <1>1, BusSilent, HandedKept DEF IInv
<1> QED
  BY <1>1, <1>3, <1>4 DEF IInv, ObjectOK

LEMMA HandOverKeeps ==
  ASSUME TypeOK, BusTypeOK, IInv, HandOver
  PROVE  IInv'
<1>1. /\ Reading /\ ~More /\ merr = 0 /\ Bus!Enqueue(parsing)
      /\ handed' = [handed EXCEPT ![parsing] = reports] /\ object' = object
  BY DEF HandOver, Parse
<1>2. parsing \in Deliveries /\ parsing[1] \in Messages /\ Notified \in Seq(Versions)
  BY <1>1, NotifiedType DEF IInv
<1>3. reports = Notified
  <2>1. /\ reports \in Seq(Versions) /\ Len(reports) = next - 1 /\ next \in Nat \ {0}
        /\ next <= Len(Notified) + 1
        /\ \A i \in 1..Len(reports) : reports[i] = Notified[i]
    BY <1>1 DEF IInv, ParserOK
  <2>2. next \notin 1..Len(Notified) /\ Len(Notified) \in Nat
    BY <1>1, <1>2 DEF More
  <2>3. Len(reports) = Len(Notified)
    BY <2>1, <2>2
  <2> QED
    BY <1>2, <2>1, <2>3
<1>4. \A d \in Deliveries : OnItsWay(d)' => OnItsWay(d) \/ d = parsing
  <2> SUFFICES ASSUME NEW d \in Deliveries PROVE OnItsWay(d)' => OnItsWay(d) \/ d = parsing
    OBVIOUS
  <2>1. d \in BusEvents /\ parsing \in BusEvents
    BY <1>2 DEF BusEvents
  <2>2. OnBus(d)' <=> OnBus(d) \/ d = parsing
    BY <1>1, <2>1, EnqueueAdds
  <2> QED
    BY <1>1, <2>2 DEF Bus!Enqueue, OnItsWay
<1>5. HandedOK'
  <2>1. handed \in [Deliveries -> Seq(Versions)] /\ reports \in Seq(Versions)
    BY DEF IInv, HandedOK, ParserOK
  <2>2. /\ handed' \in [Deliveries -> Seq(Versions)]
        /\ handed'[parsing] = Records[parsing[1]]
        /\ \A d \in Deliveries : d # parsing => handed'[d] = handed[d]
    BY <1>1, <1>2, <1>3, <2>1 DEF Notified
  <2> QED
    BY <1>4, <2>2 DEF IInv, HandedOK
<1> QED
  BY <1>1, <1>5, ResetOK DEF HandOver, IInv, ObjectOK

LEMMA SkipKeeps ==
  ASSUME IInv, Skip, Reset, UNCHANGED <<object, handed>>
  PROVE  IInv'
<1>1. UNCHANGED busVars
  BY DEF Skip, ParseFails
<1>2. HandedOK'
  BY <1>1, BusSilent, HandedKept DEF IInv
<1> QED
  BY <1>2, ResetOK DEF IInv, ObjectOK

\* The parser is not touched, and if it is at work neither is the listener.
LEMMA ParserKept ==
  ASSUME ParserOK, UNCHANGED parserVars, parsing # None => UNCHANGED <<listener, batch, sending>>
  PROVE  ParserOK'
<1>1. UNCHANGED <<parsing, next, merr, reports>>
  BY DEF parserVars
<1>2. Notified' = Notified /\ Reading' = Reading
  BY <1>1 DEF Notified, Reading
<1>3. CASE parsing = None
  BY <1>1, <1>2, <1>3 DEF ParserOK
<1>4. CASE parsing # None
  BY <1>1, <1>2, <1>4 DEF ParserOK
<1> QED
  BY <1>3, <1>4

LEMMA StepKeeps ==
  ASSUME IntakeTypeOK, TypeOK, IInv, [S3Next]_<<vars, s3Vars>>
  PROVE  IInv'
<1> USE DEF IInv
<1>1. ASSUME NEW o \in Objects, PutObject(o) PROVE IInv'
  <2>1. UNCHANGED <<busVars, listener, batch, sending, parserVars, handed>>
    BY <1>1 DEF PutObject, vars, intakeVars, listenerVars
  <2>2. ObjectOK'
    <3>1. object[o] \in 0..MaxVersion /\ object[o] < MaxVersion /\ MaxVersion \in Nat
      BY <1>1 DEF PutObject, ObjectOK
    <3>2. object[o] + 1 \in 0..MaxVersion
      BY <3>1
    <3> QED
      BY <1>1, <3>2 DEF PutObject, ObjectOK
  <2> QED
    BY <2>1, <2>2, BusSilent, HandedKept, ParserKept
<1>2. ASSUME NEW m \in Messages, Notify(m) PROVE IInv'
  <2>1. UNCHANGED <<busVars, listener, batch, sending, parserVars, handed, object>>
    BY <1>2 DEF Notify, Publish, s3Vars, listenerVars
  <2> QED
    BY <2>1, BusSilent, HandedKept, ParserKept DEF ObjectOK
<1>3. ASSUME NEW d \in batch, StartParse(d) PROVE IInv'
  BY <1>3, StartParseKeeps
<1>4. CASE BodyFails \/ Reject
  BY <1>4, SkipKeeps DEF BodyFails, Reject
<1>5. CASE ReadRecord
  BY <1>5, ReadRecordKeeps
<1>6. CASE RecordFails
  BY <1>6, RecordFailsKeeps
<1>7. CASE HandOver
  BY <1>7, HandOverKeeps DEF IntakeTypeOK
<1>8. CASE S3Restart
  <2>1. Reset /\ UNCHANGED <<object, handed, outcome>> /\ sendq' = <<>> /\ cur' = None
    BY <1>8 DEF S3Restart, Restart
  <2>2. \A d \in Deliveries : OnItsWay(d)' => OnItsWay(d)
    <3> SUFFICES ASSUME NEW d \in Deliveries PROVE OnItsWay(d)' => OnItsWay(d)
      OBVIOUS
    <3>1. d # None /\ Len(sendq') = 0
      BY <2>1 DEF BusEvents
    <3> QED
      BY <2>1, <3>1 DEF OnItsWay, OnBus
  <2> QED
    BY <2>1, <2>2, ResetOK, HandedKept DEF ObjectOK
<1>9. CASE Other /\ UNCHANGED s3Vars
  <2>1. UNCHANGED <<object, handed, parserVars>>
    BY <1>9 DEF s3Vars
  <2>2. \A d \in Deliveries : OnItsWay(d)' => OnItsWay(d)
    BY <1>9, OtherSilent DEF IntakeTypeOK
  <2> QED
    BY <1>9, <2>1, <2>2, OtherWaits, HandedKept, ParserKept DEF ObjectOK
<1>10. CASE UNCHANGED <<vars, s3Vars>>
  <2>1. UNCHANGED <<busVars, listener, batch, sending, parserVars, handed, object>>
    BY <1>10 DEF vars, s3Vars, intakeVars, listenerVars
  <2> QED
    BY <2>1, BusSilent, HandedKept, ParserKept DEF ObjectOK
<1> QED
  BY <1>1, <1>2, <1>3, <1>4, <1>5, <1>6, <1>7, <1>8, <1>9, <1>10 DEF S3Next

-----------------------------------------------------------------------------
\* Every step is one of Intake's or leaves what Intake sees unchanged.
LEMMA StepImplements ==
  ASSUME TypeOK, IInv, [S3Next]_<<vars, s3Vars>>
  PROVE  [Next]_vars
<1>1. parsing # None => parsing \in batch
  BY DEF IInv, ParserOK
<1>2. CASE \E o \in Objects : PutObject(o)
  BY <1>2 DEF PutObject
<1>3. CASE \E m \in Messages : Notify(m)
  BY <1>3 DEF Notify, Next
<1>4. CASE \E d \in batch : StartParse(d)
  BY <1>4 DEF StartParse
<1>5. CASE BodyFails \/ Reject
  BY <1>1, <1>5 DEF BodyFails, Reject, Skip, Next, Listen, Reading
<1>6. CASE ReadRecord \/ RecordFails
  BY <1>6 DEF ReadRecord, RecordFails
<1>7. CASE HandOver
  BY <1>1, <1>7 DEF HandOver, Reading, Next, Listen
<1>8. CASE S3Restart
  BY <1>8 DEF S3Restart, Next
<1>9. CASE Other
  BY <1>9 DEF Other, Settle, Next, Listen
<1>10. CASE UNCHANGED <<vars, s3Vars>>
  BY <1>10
<1> QED
  BY <1>2, <1>3, <1>4, <1>5, <1>6, <1>7, <1>8, <1>9, <1>10 DEF S3Next

LEMMA Inductive == S3Spec => [](IntakeTypeOK /\ TypeOK /\ IInv)
<1>1. S3Init => IntakeTypeOK /\ TypeOK /\ IInv
  BY InitOK, TypesInit, TypesImply DEF S3Init, IntakeTypeOK
<1>2. IntakeTypeOK /\ TypeOK /\ IInv /\ [S3Next]_<<vars, s3Vars>> => (IntakeTypeOK /\ TypeOK /\ IInv)'
  <2> SUFFICES ASSUME IntakeTypeOK, TypeOK, IInv, [S3Next]_<<vars, s3Vars>>
               PROVE  (IntakeTypeOK /\ TypeOK /\ IInv)'
    OBVIOUS
  <2>1. IInv'
    BY StepKeeps
  <2>2. [Next]_vars
    BY StepImplements
  <2>3. IntakeTypeOK'
    BY <2>2, TypesInductive DEF IntakeTypeOK
  <2>4. (BusTypeOK /\ ClientTypeOK => TypeOK)'
    BY TypesImply, PTL
  <2> QED
    BY <2>1, <2>3, <2>4 DEF IntakeTypeOK
<1> QED
  BY <1>1, <1>2, PTL DEF S3Spec

-----------------------------------------------------------------------------
\* The parser works on one received message at a time, and its errors are
\* among the records it has passed.
THEOREM ParserTypeCorrect == S3Spec => []S3TypeOK
<1>1. IInv => S3TypeOK
  BY DEF IInv, ParserOK, HandedOK, ObjectOK, S3TypeOK
<1> QED
  BY <1>1, Inductive, PTL

\* The parser implements the step of Intake that parses a message or fails:
\* whatever is proved of Intake holds when the queue carries S3 notifications.
THEOREM ParserImplements == S3Spec => ImplementsIntake
<1>1. S3Init => Init
  BY DEF S3Init
<1>2. TypeOK /\ IInv /\ [S3Next]_<<vars, s3Vars>> => [Next]_vars
  BY StepImplements
<1>3. S3Spec => Spec
  BY <1>1, <1>2, Inductive, PTL DEF S3Spec, Spec
<1> QED
  BY <1>3 DEF ImplementsIntake

\* With the parser in its place intake still evaluates every published message
\* at least once before it is deleted, as ReportDelivery promises.
THEOREM ParserDelivers == S3Spec => AtLeastOnce
BY ParserImplements, IntakeDelivers, PTL DEF ImplementsIntake

\* The parser puts nothing on the bus for a client that is already there, leaves
\* no goroutine behind, and does not touch the uploads (Enqueue comes after the
\* loop over the records).
THEOREM ParserKeepsClients ==
  S3Spec => [](OneEventPerClient /\ NoOrphanWaiter) /\ AcknowledgedIsReceived
BY ParserImplements, OneEventEach, WaitersAreServed, UploadsAreReceived, PTL DEF ImplementsIntake

\* Each evaluated event, and so each deleted message, had the reports of all
\* its records as they were announced (merr and IfMatch in the parser).
THEOREM NotificationsAreWhole == S3Spec => []EvaluatedAsNotified
<1>1. S3Spec => []DeletedOnlyAfterEvaluation
  BY ParserImplements, NothingIsLost DEF ImplementsIntake
<1>2. IntakeTypeOK /\ IInv /\ DeletedOnlyAfterEvaluation => EvaluatedAsNotified
  <2> SUFFICES ASSUME IInv, DeletedOnlyAfterEvaluation PROVE EvaluatedAsNotified
    OBVIOUS
  <2>1. \A d \in Deliveries : outcome[d] # "none" => handed[d] = Records[d[1]]
    BY DEF IInv, HandedOK, OnItsWay
  <2>2. ASSUME NEW m \in Messages, msg[m] = "deleted"
        PROVE  \E r \in 1..MaxReceives : Evaluated(<<m, r>>) /\ handed[<<m, r>>] = Records[m]
    <3>1. PICK r \in 1..MaxReceives : Evaluated(<<m, r>>)
      BY <2>2 DEF DeletedOnlyAfterEvaluation, EvaluatedMessages
    <3>2. <<m, r>> \in Deliveries /\ outcome[<<m, r>>] # "none"
      BY <3>1 DEF Deliveries, Evaluated
    <3> QED
      BY <2>1, <3>1, <3>2
  <2> QED
    BY <2>1, <2>2 DEF EvaluatedAsNotified
<1> QED
  BY <1>1, <1>2, Inductive, PTL
=============================================================================
