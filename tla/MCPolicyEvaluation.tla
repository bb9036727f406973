------------------------ MODULE MCPolicyEvaluation ------------------------
\* PolicyEvaluation with two items.
EXTENDS PolicyEvaluation

CONSTANTS i1, i2

MCItems == {i1, i2}
=============================================================================
