------------------------ MODULE MCManagedConnection ------------------------
(* TLC instances of ManagedConnection.                                     *)
EXTENDS ManagedConnection

\* MaxRetries = -1, the value of the critical and performance strategies.
Unlimited == -1
============================================================================
