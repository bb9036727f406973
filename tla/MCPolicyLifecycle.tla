------------------------- MODULE MCPolicyLifecycle -------------------------
\* PolicyLifecycle with one name, whose spec may be edited from one without a
\* downloader, bare, to one with it, to one that does not compile, and to one
\* that the webhook refuses.
EXTENDS PolicyLifecycle

CONSTANTS p1, bare, good, broken, targeted

MCNames == {p1}
MCSpecs == {bare, good, broken, targeted}
MCBroken == {broken}
MCRefused == {targeted}
MCDefault == [s \in MCSpecs |-> IF s = bare THEN good ELSE s]
=============================================================================
