------------------------------ MODULE MCManager ------------------------------
(***************************************************************************)
(* Manager with two goroutines of the application and the profiles of the  *)
(* code, their ProbingIntervals in units of five seconds.                  *)
(***************************************************************************)
EXTENDS Manager

CONSTANTS Web, Video, File, Dyn

MCInterval ==
    [t \in Types |-> IF t = Video THEN 2 ELSE IF t = File THEN 6 ELSE 3]
=============================================================================
