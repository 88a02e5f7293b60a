--------------------------- MODULE MCDeviceManager --------------------------
(* Small instances: a pool no larger than the phones that compete for it.  *)
EXTENDS Mishaps, TLC

OnePort  == {8891}
TwoPorts == {8891, 8892}

Interchangeable == Permutations(Tasks) \cup Permutations(Serials)
=============================================================================
