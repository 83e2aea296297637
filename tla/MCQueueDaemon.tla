--------------------------- MODULE MCQueueDaemon ---------------------------
(* Small instances of QueueDaemon for TLC. *)
EXTENDS QueueDaemon

CONSTANTS t1, t2, w1, w2
=============================================================================
