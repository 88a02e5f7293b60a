--------------------------- MODULE MCInterception ---------------------------
(* An app that trusts what the user installs, and an SDK with pins of its own *)
(* and another TLS stack; one host under two spellings.                       *)
EXTENDS Interception

MCStack   == [c \in Clients |-> CASE c = "app" -> "conscrypt" [] c = "sdk" -> "boring" [] c = "h2" -> "go"]
MCNorm(h) == IF h = "API" THEN "api" ELSE h
=============================================================================
