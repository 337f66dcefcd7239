--------------------------- MODULE MCMemoryStore ----------------------------
(* Instances of MemoryStore for TLC; the .cfg files choose among the calls.   *)
EXTENDS MemoryStore, MCStoreCalls

=============================================================================
