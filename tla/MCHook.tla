------------------------------- MODULE MCHook -------------------------------
(***************************************************************************)
(* Hook with one thread and a number that is given out twice, and with two   *)
(* threads on one file.                                                      *)
(***************************************************************************)
EXTENDS Hook

MCMaxFiles(n) == IF n = 1 THEN 2 ELSE 1
=============================================================================
