--------------------------- MODULE MCLogRetention ---------------------------
(* Values of LogRetention's constants for TLC.                             *)
EXTENDS LogRetention

CONSTANTS AccessLines, MetricsLines

(* A trim that drops one record, keeps another and meets a third one that  *)
(* is appended meanwhile takes three records of a log.                     *)
LinesOfEach == [f \in Files |-> IF f = "access" THEN AccessLines
                                               ELSE MetricsLines]
=============================================================================
