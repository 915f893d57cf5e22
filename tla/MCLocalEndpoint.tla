-------------------------- MODULE MCLocalEndpoint --------------------------
(* LocalEndpoint with two daemons and two clients, one of which may block  *)
(* the other.                                                              *)
EXTENDS LocalEndpoint
=============================================================================
