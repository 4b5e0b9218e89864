--------------------------- MODULE ResilientLink ---------------------------
(***************************************************************************)
(* What an auto-reconnecting connection promises to its clients, without a *)
(* word on sockets, retries or who does the reconnecting.                  *)
(*                                                                         *)
(*   - `closed` is final: the link never comes back from it;               *)
(*   - a call is answered "ok" only in a step in which the link is up;     *)
(*   - a call that finds the link up and does not see it break is answered *)
(*     "ok" at once: only a call that saw the link down, closed or         *)
(*     breaking may be kept waiting, and only such a call may fail.        *)
(***************************************************************************)
CONSTANTS Clients

VARIABLES
  link,   \* "up", "down" or "closed"
  call    \* per client: "none", "busy", or the answer of its last call

vars == <<link, call>>

Answer(c, r) == call' = [call EXCEPT ![c] = r]

Init ==
  /\ link \in {"up", "down"}
  /\ call = [c \in Clients |-> "none"]

\* A call, new or kept waiting, uses the link.
Deliver(c) ==
  /\ link = "up"
  /\ Answer(c, "ok")
  /\ UNCHANGED link

\* A new call finds no link.
Block(c) ==
  /\ link # "up"
  /\ call[c] # "busy"
  /\ Answer(c, "busy")
  /\ UNCHANGED link

\* The link breaks under a call, which waits.
Break(c) ==
  /\ link = "up"
  /\ link' = "down"
  /\ Answer(c, "busy")

GiveUp(c) ==
  /\ call[c] = "busy"
  /\ Answer(c, "failed")
  /\ UNCHANGED link

Reconnect ==
  /\ link = "down"
  /\ link' = "up"
  /\ UNCHANGED call

Shut ==
  /\ link' = "closed"
  /\ UNCHANGED call

Next ==
  \/ \E c \in Clients : Deliver(c) \/ Block(c) \/ Break(c) \/ GiveUp(c)
  \/ Reconnect
  \/ Shut

Spec == Init /\ [][Next]_vars
============================================================================
