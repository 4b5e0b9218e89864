---------------------------- MODULE RemoteSession ----------------------------
(***************************************************************************)
(* What a client of a remote control promises to the service that uses it, *)
(* without a word on connections, streams or goroutines.                   *)
(*                                                                         *)
(*   - it takes a command only in a session in which the server has been   *)
(*     shown the menu, and one at a time;                                  *)
(*   - a command it has taken is accepted, unless its queue is full or the *)
(*     client was closed; an accepted command is handled, in any case      *)
(*     before the handling ends, and none is accepted after that;          *)
(*   - a closed client opens at most the one session it was opening.       *)
(***************************************************************************)
EXTENDS Naturals

CONSTANT Capacity   \* of the queue

VARIABLES
  session,   \* "none", "fresh" (open, nothing shown yet) or "registered"
  inHand,    \* a command was taken and not yet accepted or discarded
  pending,   \* accepted commands, not yet handled
  handling,  \* accepted commands are being handled
  life       \* "running", "closing" (one session may still open), "final"

vars == <<session, inHand, pending, handling, life>>

Init ==
  /\ session = "none"
  /\ inHand = FALSE
  /\ pending = 0
  /\ handling = TRUE
  /\ life = "running"

\* The session a closed client opens is its last.
Open ==
  /\ session = "none"
  /\ life # "final"
  /\ session' = "fresh"
  /\ life' = IF life = "closing" THEN "final" ELSE life
  /\ UNCHANGED <<inHand, pending, handling>>

Show ==
  /\ session = "fresh"
  /\ session' = "registered"
  /\ UNCHANGED <<inHand, pending, handling, life>>

Lose ==
  /\ session' = "none"
  /\ UNCHANGED <<inHand, pending, handling, life>>

Take ==
  /\ session = "registered"
  /\ ~inHand
  /\ inHand' = TRUE
  /\ UNCHANGED <<session, pending, handling, life>>

Accept ==
  /\ inHand /\ handling
  /\ pending < Capacity
  /\ inHand' = FALSE
  /\ pending' = pending + 1
  /\ UNCHANGED <<session, handling, life>>

Discard ==
  /\ inHand
  /\ pending = Capacity \/ life # "running"
  /\ inHand' = FALSE
  /\ UNCHANGED <<session, pending, handling, life>>

Handle ==
  /\ handling
  /\ pending > 0
  /\ pending' = pending - 1
  /\ UNCHANGED <<session, inHand, handling, life>>

EndHandling ==
  /\ handling
  /\ pending = 0
  /\ life # "running"
  /\ handling' = FALSE
  /\ UNCHANGED <<session, inHand, pending, life>>

Close ==
  /\ life = "running"
  /\ life' \in {"closing", "final"}
  /\ UNCHANGED <<session, inHand, pending, handling>>

\* The session that was being opened does not come.
GiveUp ==
  /\ life = "closing"
  /\ life' = "final"
  /\ UNCHANGED <<session, inHand, pending, handling>>

Next ==
  \/ Open \/ Show \/ Lose
  \/ Take \/ Accept \/ Discard
  \/ Handle \/ EndHandling
  \/ Close \/ GiveUp

Spec == Init /\ [][Next]_vars
==============================================================================
