--------------------------- MODULE MCPortRegistry ---------------------------
(* Four phones and a pool of two ports: the pool is exhausted with a phone *)
(* to spare, so that a shared port also loses and regains its holders.     *)
EXTENDS PortRegistry

MCPool == {8891, 8892}
=============================================================================
