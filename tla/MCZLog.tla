------------------------------- MODULE MCZLog -------------------------------
(* ZLog, for model checking: its constants are model values and numbers. *)
EXTENDS ZLog
=============================================================================
