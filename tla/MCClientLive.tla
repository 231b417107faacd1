---------------------------- MODULE MCClientLive ----------------------------
(* The instance of Client for liveness, which evaluates the lists of routes too. *)
EXTENDS MCClient, Routes
=============================================================================
