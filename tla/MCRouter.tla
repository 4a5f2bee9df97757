------------------------------ MODULE MCRouter ------------------------------
(* Small instances of Router.                                              *)
EXTENDS Router
=============================================================================
