--------------------------- MODULE MCTaskScheduler ---------------------------
(* The TLC instance of TaskScheduler.                                       *)
EXTENDS TaskScheduler

(* The tasks whose function throws.                                        *)
TaskThree == {3}
==============================================================================
