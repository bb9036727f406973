----------------------------- MODULE MCS3Intake -----------------------------
\* S3Intake with a notification of two objects, which may be written again,
\* and a message that is not a notification.
EXTENDS S3Intake, TLC

CONSTANTS m1, m2, o1, o2

MCMessages == {m1, m2}
MCObjects == {o1, o2}

MCRecords ==
  (m1 :> <<[object |-> o1, etag |-> 1], [object |-> o2, etag |-> 1]>>) @@ (m2 :> Malformed)
=============================================================================
