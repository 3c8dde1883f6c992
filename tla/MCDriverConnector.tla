-------------------------- MODULE MCDriverConnector --------------------------
(* Two threads, both of which calls given up may hold, for the owner and one *)
(* reader; one table, so that get_metadata has all its kinds of steps.       *)
EXTENDS DriverConnector
=============================================================================
