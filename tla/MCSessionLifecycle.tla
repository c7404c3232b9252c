------------------------- MODULE MCSessionLifecycle -------------------------
(* Two or three one-command processes and one database file more.          *)
EXTENDS SessionLifecycle

CONSTANTS a, b, c

Always  == Stage
NotCopy == Stage \ {"copy"}
=============================================================================
