----------------------------- MODULE MCSelfmod -----------------------------
\* A small instance of self-modification: one run over two files.
EXTENDS Selfmod

CONSTANTS r1, f1, f2

TwoFiles == [r \in Runs |-> {f1, f2}]
=============================================================================
