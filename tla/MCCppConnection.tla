--------------------------- MODULE MCCppConnection ---------------------------
(* TLC instances of CppConnection.                                         *)
EXTENDS CppConnection

\* No limit, the value of the critical and performance strategies; one attempt.
SomeLimits == {-1, 1}
==============================================================================
