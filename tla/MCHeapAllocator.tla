-------------------------- MODULE MCHeapAllocator ---------------------------
\* Small instances of HeapAllocator for TLC.
EXTENDS HeapAllocator
=============================================================================
