----------------------------- MODULE MCHeapList -----------------------------
(* Instances of HeapList for TLC; the constants are in the .cfg file.      *)
EXTENDS HeapList
=============================================================================
