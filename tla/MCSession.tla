------------------------------ MODULE MCSession ------------------------------
(* Sessions on small instances.                                             *)
EXTENDS Session
=============================================================================
