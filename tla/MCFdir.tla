------------------------------- MODULE MCFdir -------------------------------
(* One sensor, the watchdog over two tasks, the real confirmation and attempt
   limits, and counters that wrap at once. *)
EXTENDS Fdir
=============================================================================
