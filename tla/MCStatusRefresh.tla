--------------------------- MODULE MCStatusRefresh ---------------------------
(* Callers that ask again and again, forced or not, and a processor that     *)
(* advances MaxBlock times.                                                  *)
EXTENDS StatusRefresh
=============================================================================
