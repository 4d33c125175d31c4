----------------------------- MODULE MCWatchdog -----------------------------
(* Small timings of Watchdog for TLC.                                      *)
EXTENDS Watchdog

(* fail_after a multiple of the interval, no multiple of it, shorter than  *)
(* it; and both left to their defaults.                                    *)
SmallSettings ==
  {[interval |-> 2, failAfter |-> 4], [interval |-> 2, failAfter |-> 3],
   [interval |-> 3, failAfter |-> 2], [interval |-> -1, failAfter |-> 0]}
=============================================================================
