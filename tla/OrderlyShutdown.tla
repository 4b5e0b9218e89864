--------------------------- MODULE OrderlyShutdown ---------------------------
(***************************************************************************)
(* What a lifecycle manager promises to the code that registers cleanup    *)
(* hooks, without a word on signals, polling, locks or exceptions:         *)
(*                                                                         *)
(*   - a hook registered before the shutdown begins runs in it, once;      *)
(*   - hooks run one after the other, the last registered first;           *)
(*   - a hook that comes later never runs, and disturbs nothing.           *)
(*                                                                         *)
(* The shutdown may never begin, and may stop half-way.                    *)
(***************************************************************************)
EXTENDS Naturals, Sequences

CONSTANT Hooks

VARIABLES
  registered,   \* the hooks the shutdown has to run, in order of registration
  ran,          \* the hooks that have run, in the order they did
  phase         \* "open", "shutting", "over"

vars == <<registered, ran, phase>>

Init ==
  /\ registered = <<>>
  /\ ran = <<>>
  /\ phase = "open"

Register(h) ==
  /\ phase = "open"
  /\ registered' = Append(registered, h)
  /\ UNCHANGED <<ran, phase>>

Begin ==
  /\ phase = "open"
  /\ phase' = "shutting"
  /\ UNCHANGED <<registered, ran>>

Run ==
  /\ phase = "shutting"
  /\ Len(ran) < Len(registered)
  /\ ran' = Append(ran, registered[Len(registered) - Len(ran)])
  /\ UNCHANGED <<registered, phase>>

Finish ==
  /\ phase = "shutting"
  /\ Len(ran) = Len(registered)
  /\ phase' = "over"
  /\ UNCHANGED <<registered, ran>>

Next ==
  \/ \E h \in Hooks : Register(h)
  \/ Begin
  \/ Run
  \/ Finish

Spec == Init /\ [][Next]_vars
==============================================================================
