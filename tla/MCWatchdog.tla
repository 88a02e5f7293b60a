----------------------------- MODULE MCWatchdog -----------------------------
(* One or two phones, one or two pool ports, the four callers of Pane.     *)
EXTENDS Watchdog

OnePort  == {8891}
TwoPorts == {8891, 8892}
=============================================================================
