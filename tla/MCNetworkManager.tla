-------------------------- MODULE MCNetworkManager --------------------------
(* TLC instances of NetworkManager.                                        *)
EXTENDS NetworkManager

\* MaxRetries = -1, the value of the critical and performance strategies.
Unlimited == -1
=============================================================================
