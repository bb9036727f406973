---------------------------- MODULE EventService ----------------------------
(***************************************************************************)
(* What the report scheduler promises its clients, at the level of one     *)
(* event (the reports of one SQS message or of one HTTP upload):           *)
(*   - clients block on an unbuffered channel, served first come first     *)
(*     served;                                                             *)
(*   - one event at a time is processed and it gets exactly one answer;    *)
(*   - an event answered with an error has created no pipeline, so that    *)
(*     its message can be requeued and processed again from the start.     *)
(* Module Scheduler is shown to implement this specification and module    *)
(* Intake runs the SQS listener and the HTTP handlers against it.          *)
(***************************************************************************)
EXTENDS Naturals, Sequences

CONSTANTS Events,  \* the events clients may put on the bus
          None     \* "no event is being processed"

VARIABLES
  sendq,    \* clients blocked in Enqueue, oldest first
  sched,    \* what the goroutine running Scheduler.Start does
  cur,      \* the event being processed
  outcome,  \* outcome[e]: the answer in e's result channel
  made,     \* events for which some pipeline was created
  cut,      \* events that had a creation refused because of the shutdown
  ctxDone   \* the manager's context is cancelled

busVars == <<sendq, sched, cur, outcome, made, cut, ctxDone>>

Fresh(e) ==
  /\ cur # e
  /\ outcome[e] = "none"
  /\ \A i \in 1..Len(sendq) : sendq[i] # e

-----------------------------------------------------------------------------
Init ==
  /\ sendq = <<>>
  /\ sched = "select"
  /\ cur = None
  /\ outcome = [e \in Events |-> "none"]
  /\ made = {}
  /\ cut = {}
  /\ ctxDone = FALSE

\* A client starts to block on the bus.
Enqueue(e) ==
  /\ Fresh(e)
  /\ sendq' = Append(sendq, e)
  /\ UNCHANGED <<sched, cur, outcome, made, cut, ctxDone>>

\* The scheduler accepts the event of the client that has waited longest.
Take ==
  /\ sched = "select"
  /\ sendq # <<>>
  /\ cur' = Head(sendq)
  /\ sendq' = Tail(sendq)
  /\ sched' = "busy"
  /\ UNCHANGED <<outcome, made, cut, ctxDone>>

\* A pipeline of the current event is created in the cluster.
Create ==
  /\ sched = "busy"
  /\ ~ctxDone
  /\ made' = made \union {cur}
  /\ UNCHANGED <<sendq, sched, cur, outcome, cut, ctxDone>>

\* A pipeline of the current event is refused by the cancelled context.
Interrupt ==
  /\ sched = "busy"
  /\ ctxDone
  /\ cut' = cut \union {cur}
  /\ UNCHANGED <<sendq, sched, cur, outcome, made, ctxDone>>

\* The event is answered; an error only when nothing was attempted for it.
Answer(o) ==
  /\ sched = "busy"
  /\ o = "error" => cur \notin made \union cut
  /\ outcome' = [outcome EXCEPT ![cur] = o]
  /\ cur' = None
  /\ sched' = "sleep"
  /\ UNCHANGED <<sendq, made, cut, ctxDone>>

\* The pause after each event ends.
Wake ==
  /\ sched = "sleep"
  /\ sched' = "select"
  /\ UNCHANGED <<sendq, cur, outcome, made, cut, ctxDone>>

\* Variant: the processing of an event also ends with the context.
StopAnywhere ==
  /\ ctxDone
  /\ sched # "stopped"
  /\ sched' = "stopped"
  /\ UNCHANGED <<sendq, cur, outcome, made, cut, ctxDone>>

\* The scheduler notices the cancelled context between two events.
Stop ==
  /\ sched = "select"
  /\ ctxDone
  /\ sched' = "stopped"
  /\ UNCHANGED <<sendq, cur, outcome, made, cut, ctxDone>>

\* The manager's context is cancelled (SIGTERM, lost leadership).
Cancel ==
  /\ ~ctxDone
  /\ ctxDone' = TRUE
  /\ UNCHANGED <<sendq, sched, cur, outcome, made, cut>>

\* What the goroutine running the scheduler does.
Serve ==
  \/ Take
  \/ Create
  \/ Interrupt
  \/ \E o \in {"nil", "error"} : Answer(o)
  \/ Wake
  \/ Stop

Next ==
  \/ \E e \in Events : Enqueue(e)
  \/ Serve
  \/ Cancel

Spec == Init /\ [][Next]_busVars

\* The service never hangs: every call its goroutine makes returns.
FairSpec == Spec /\ WF_busVars(Serve)
=============================================================================
