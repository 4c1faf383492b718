--------------------------- MODULE MCStreamAttempts ---------------------------
(* StreamAttempts with two attempts and providers of a few events.           *)
EXTENDS StreamAttempts
===============================================================================
