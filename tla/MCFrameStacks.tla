--------------------------- MODULE MCFrameStacks ----------------------------
\* A small instance of FrameStacks for TLC: the owner nests deeper than the worker.
EXTENDS FrameStacks

MCDepth == [c \in Contexts |-> IF c = Owner THEN 4 ELSE 2]
=============================================================================
