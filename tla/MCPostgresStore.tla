-------------------------- MODULE MCPostgresStore ---------------------------
(* Instances of PostgresStore for TLC; the .cfg files choose among the calls.   *)
EXTENDS PostgresStore, MCStoreCalls

=============================================================================
