--------------------------- MODULE MCCpslWorker ---------------------------
(* Three callers beside the probe: one is served, one waits for the lock    *)
(* and one comes when the worker is gone.                                   *)
EXTENDS CpslWorker
=============================================================================
