--------------------------- MODULE ReportDelivery ---------------------------
(***************************************************************************)
(* What report intake promises to those who publish reports on the queue:  *)
(* at-least-once evaluation.  A published message stays on the queue until *)
(* one of its deliveries was evaluated completely; after that it may be    *)
(* removed, once and for all, and it may be evaluated again.               *)
(***************************************************************************)
CONSTANT Messages

VARIABLES
  published,  \* messages that were put on the queue
  evaluated,  \* of them, those with a completely evaluated delivery
  removed     \* messages that left the queue

deliveryVars == <<published, evaluated, removed>>

Init ==
  /\ published = {}
  /\ evaluated = {}
  /\ removed = {}

Publish(m) ==
  /\ published' = published \union {m}
  /\ UNCHANGED <<evaluated, removed>>

\* An evaluation may come after the removal: the message was delivered twice.
Evaluate(m) ==
  /\ m \in published
  /\ evaluated' = evaluated \union {m}
  /\ UNCHANGED <<published, removed>>

Remove(m) ==
  /\ m \in evaluated
  /\ removed' = removed \union {m}
  /\ UNCHANGED <<published, evaluated>>

Next == \E m \in Messages : Publish(m) \/ Evaluate(m) \/ Remove(m)

Spec == Init /\ [][Next]_deliveryVars
=============================================================================
