----------------------------- MODULE MCManager -----------------------------
\* The manager with one message, delivered twice, and one upload, of which the
\* scheduler sees MaxEvents in any order.
EXTENDS Manager

CONSTANTS m1, q1,
          MaxEvents  \* bound: receipts and uploads together

MCMessages == {m1}
MCRequests == {q1}
MCEvents == {<<m1, 1>>, <<m1, 2>>, q1}

Bounded ==
  receipts[m1] + Cardinality({q \in Requests : http[q] \notin {"idle", "refused"}}) <= MaxEvents
=============================================================================
