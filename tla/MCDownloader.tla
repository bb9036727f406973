---------------------------- MODULE MCDownloader ----------------------------
\* Downloader with three paths below one another: top, top/mid, top/mid/leaf.
EXTENDS Downloader

CONSTANTS top, mid, leaf

MCPaths == {top, mid, leaf}
MCAbove == [p \in MCPaths |-> CASE p = top -> {} [] p = mid -> {top} [] p = leaf -> {top, mid}]
=============================================================================
