----------------------------- MODULE MCUploader -----------------------------
\* Uploader with two pipelines, two files of the same name in different
\* directories and one of another name.
EXTENDS Uploader

CONSTANTS p1, p2, f1, f2, g, foo, bar, here, there

MCPipelines == {p1, p2}
MCFiles == {f1, f2, g}
MCBases == {foo, bar}
MCBase == [f \in MCFiles |-> IF f = g THEN bar ELSE foo]
MCPrefixes == {here, there}
=============================================================================
