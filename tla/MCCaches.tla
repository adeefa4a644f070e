------------------------------ MODULE MCCaches ------------------------------
(* An instance of Caches for TLC: every pair of a cached query and a handler   *)
(* that writes what the query reads, two readers and two runs of the handler.  *)
EXTENDS Caches
=============================================================================
