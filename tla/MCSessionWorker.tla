--------------------------- MODULE MCSessionWorker ---------------------------
(***************************************************************************)
(* Small instances of SessionWorker for TLC.                               *)
(***************************************************************************)
EXTENDS SessionWorker
=============================================================================
