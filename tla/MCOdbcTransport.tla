---------------------------- MODULE MCOdbcTransport ----------------------------
(* Instances of OdbcTransport for TLC *)
EXTENDS OdbcTransport
===============================================================================
