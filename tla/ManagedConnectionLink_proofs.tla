-------------------- MODULE ManagedConnectionLink_proofs --------------------
(***************************************************************************)
(* The wrapper implements ResilientLink: every step of it is a step of the *)
(* link, or leaves the link's state unchanged.                             *)
(***************************************************************************)
EXTENDS ManagedConnection_proofs

-----------------------------------------------------------------------------
(* What a step does to the clients' view.                                  *)

\* A step of t changes at most t's entry of the clients' view.
LEMMA CallStateMoves ==
  ASSUME NEW t \in Threads, OnlyMoves(t)
  PROVE  /\ t \notin Writers => CallState' = CallState
         /\ t \in Writers /\ pc'[t] # "idle" =>
              CallState' = [CallState EXCEPT ![t] = "busy"]
         /\ t \in Writers /\ pc'[t] = "idle" =>
              CallState' = [CallState EXCEPT ![t] = result'[t]]
BY DEF CallState, OnlyMoves, Threads

\* A busy writer that stays busy is not seen to move.
LEMMA StillBusy ==
  ASSUME NEW t \in Threads, OnlyMoves(t), pc[t] # "idle",
         pc'[t] # "idle" \/ t \notin Writers
  PROVE  CallState' = CallState
BY DEF CallState, OnlyMoves, Threads

\* The three answers a send can give, seen as steps of the link.
LEMMA TrySendRefines ==
  ASSUME TypeOK, ClosedHoldsNothing, NEW t \in Writers, TrySend(t),
         UNCHANGED closing,
         pc[t] = "idle" => result[t] # "busy"
  PROVE  [Link!Next]_(Link!vars)
<1>t. t \in Threads
  BY DEF Threads
<1>1. CASE Return(t, "ok") /\ sock[currentConn] # "closed" /\ UNCHANGED currentConn
  <2>1. LinkState = "up" /\ LinkState' = "up"
    BY <1>1 DEF TrySend, ClosedHoldsNothing, LinkState
  <2>2. CallState' = [CallState EXCEPT ![t] = "ok"]
    BY <1>t, <1>1, ControlFacts, CallStateMoves
  <2>3. Link!Deliver(t)
    BY <2>1, <2>2 DEF Link!Deliver, Link!Answer
  <2>4. QED
    BY <2>3 DEF Link!Next
<1>2. CASE CallReconnect(t, "retry") /\ currentConn' = NoConn
  <2>1. CallState' = [CallState EXCEPT ![t] = "busy"]
    BY <1>t, <1>2, ControlFacts, CallStateMoves
  <2>2. CASE ~closing
    <3>1. LinkState = "up" /\ LinkState' = "down"
      BY <1>2, <2>2 DEF TrySend, LinkState
    <3>2. Link!Break(t)
      BY <2>1, <3>1 DEF Link!Break, Link!Answer
    <3>3. QED
      BY <3>2 DEF Link!Next
  <2>3. CASE closing
    <3>1. LinkState = "closed" /\ LinkState' = "closed"
      BY <2>3 DEF LinkState
    <3>2. CASE pc[t] = "idle"
      <4>1. CallState[t] # "busy"
        BY <3>2 DEF CallState
      <4>2. Link!Block(t)
        BY <2>1, <3>1, <4>1 DEF Link!Block, Link!Answer
      <4>3. QED
        BY <4>2 DEF Link!Next
    <3>3. CASE pc[t] # "idle"
      <4>1. CallState' = CallState
        BY <1>t, <1>2, <3>3, ControlFacts, StillBusy
      <4>2. QED
        BY <3>1, <4>1 DEF Link!vars
    <3>4. QED
      BY <3>2, <3>3
  <2>4. QED
    BY <2>2, <2>3
<1>3. QED
  BY <1>1, <1>2 DEF TrySend

\* A Write is an abstract step or a stutter.
LEMMA WriteRefines ==
  ASSUME TypeOK, ClosedHoldsNothing, NEW t \in Writers, Write(t)
  PROVE  [Link!Next]_(Link!vars)
<1>t. t \in Threads
  BY DEF Threads
<1>1. pc[t] = "idle" /\ result[t] # "busy" /\ UNCHANGED closing
  BY <1>t DEF Write, At, TypeOK
<1>2. CASE TrySend(t)
  BY <1>1, <1>2, TrySendRefines
<1>3. CASE currentConn = NoConn /\ CallReconnect(t, "first") /\ UNCHANGED currentConn
  <2>1. LinkState # "up" /\ LinkState' = LinkState
    BY <1>1, <1>3 DEF LinkState
  <2>2. CallState' = [CallState EXCEPT ![t] = "busy"]
    BY <1>t, <1>3, ControlFacts, CallStateMoves
  <2>3. CallState[t] # "busy"
    BY <1>1 DEF CallState
  <2>4. Link!Block(t)
    BY <2>1, <2>2, <2>3 DEF Link!Block, Link!Answer
  <2>5. QED
    BY <2>4 DEF Link!Next
<1>4. QED
  BY <1>2, <1>3 DEF Write

\* A busy client is answered: an error at any time, success on a live link.
LEMMA AnswerRefines ==
  ASSUME NEW t \in Writers, NEW r \in {"ok", "failed"}, TypeOK, Return(t, r),
         pc[t] # "idle", LinkState' = LinkState,
         r = "ok" => LinkState = "up"
  PROVE  [Link!Next]_(Link!vars)
<1>t. t \in Threads
  BY DEF Threads
<1>1. CallState' = [CallState EXCEPT ![t] = r]
  BY <1>t, ControlFacts, CallStateMoves
<1>2. CallState[t] = "busy"
  BY DEF CallState
<1>3. CASE r = "ok"
  BY <1>1, <1>3 DEF Link!Next, Link!Deliver, Link!Answer
<1>4. CASE r = "failed"
  BY <1>1, <1>2, <1>4 DEF Link!Next, Link!GiveUp, Link!Answer
<1>5. QED
  BY <1>3, <1>4

\* So are the sends after a reconnection,
LEMMA SendRefines ==
  ASSUME TypeOK, Roles, ClosedHoldsNothing, NEW t \in Threads,
         SendAfterReconnect(t) \/ Resend(t)
  PROVE  [Link!Next]_(Link!vars)
<1>1. t \in Writers /\ pc[t] # "idle" /\ UNCHANGED closing
  BY DEF SendAfterReconnect, Resend, At, Roles, Busy, shared
<1>2. CASE TrySend(t)
  BY <1>1, <1>2, TrySendRefines
<1>3. CASE Goto(t, "panicked") /\ UNCHANGED currentConn
  <2>1. LinkState' = LinkState
    BY <1>1, <1>3 DEF LinkState
  <2>2. CallState' = CallState
    BY <1>1, <1>3, ControlFacts, StillBusy
  <2>3. QED
    BY <2>1, <2>2 DEF Link!vars
<1>4. CASE Resend(t)
  <2>1. LinkState' = LinkState
    BY <1>4 DEF Resend, shared, LinkState
  <2>2. CASE Return(t, "failed")
    BY <1>1, <2>1, <2>2, AnswerRefines
  <2>3. CASE Return(t, "ok") /\ currentConn # NoConn /\ sock[currentConn] # "closed"
    <3>1. LinkState = "up"
      BY <2>3 DEF LinkState, ClosedHoldsNothing
    <3>2. QED
      BY <1>1, <2>1, <2>3, <3>1, AnswerRefines
  <2>4. QED
    BY <1>4, <2>2, <2>3 DEF Resend
<1>5. QED
  BY <1>2, <1>3, <1>4 DEF SendAfterReconnect

\* The end of a reconnect() that leaves the link's state alone: its writer
\* stays busy or is answered an error.
LEMMA ReconnectEndRefines ==
  ASSUME TypeOK, Roles, NEW t \in Threads, pc[t] \in InReconnect,
         LinkState' = LinkState,
         \/ \E l \in InReconnect : Goto(t, l)
         \/ ReconnectOk(t)
         \/ Return(t, "failed")
  PROVE  [Link!Next]_(Link!vars)
<1>1. pc[t] # "idle"
  BY DEF InReconnect
<1>2. CASE \E l \in InReconnect : Goto(t, l)
  <2>1. CallState' = CallState
    BY <1>1, <1>2, ControlFacts, StillBusy DEF InReconnect
  <2>2. QED
    BY <2>1 DEF Link!vars
<1>3. CASE ReconnectOk(t)
  <2>1. CallState' = CallState
    <3>1. \/ Goto(t, "send") \/ Goto(t, "resend")
          \/ ret[t] = "connect" /\ Return(t, "ok")
      BY <1>3 DEF ReconnectOk, TypeOK
    <3>2. ret[t] = "connect" => t \notin Writers
      BY DEF Roles, Busy
    <3>3. QED
      BY <1>1, <3>1, <3>2, ControlFacts, StillBusy
  <2>2. QED
    BY <2>1 DEF Link!vars
<1>4. CASE Return(t, "failed")
  <2>1. CASE t \in Writers
    BY <1>1, <1>4, <2>1, AnswerRefines
  <2>2. CASE t \notin Writers
    <3>1. CallState' = CallState
      BY <1>4, <2>2, ControlFacts, CallStateMoves
    <3>2. QED
      BY <3>1 DEF Link!vars
  <2>3. QED
    BY <2>1, <2>2
<1>5. QED
  BY <1>2, <1>3, <1>4

\* the steps of the retry loop that install nothing,
LEMMA LoopRefines ==
  ASSUME TypeOK, Roles, NEW t \in Threads,
         \/ EnterReconnect(t) \/ Poll(t) \/ CheckClosing(t)
         \/ DialOk(t) \/ DialFails(t) \/ Sleep(t) \/ Abandon(t)
  PROVE  [Link!Next]_(Link!vars)
<1>1. pc[t] \in InReconnect
  BY DEF EnterReconnect, Poll, CheckClosing, DialOk, DialFails, Sleep, Abandon,
         At, InReconnect
<1>2. UNCHANGED <<closing, currentConn>>
  BY DEF EnterReconnect, Poll, CheckClosing, DialOk, DialFails, Sleep, Abandon, shared
<1>3. LinkState' = LinkState
  BY <1>2 DEF LinkState
<1>4. \/ \E l \in InReconnect : Goto(t, l)
      \/ ReconnectOk(t)
      \/ Return(t, "failed")
  BY DEF EnterReconnect, Poll, CheckClosing, DialOk, DialFails, Sleep, Abandon,
         TakeLoop, ReconnectErr, InReconnect
<1>5. QED
  BY <1>1, <1>3, <1>4, ReconnectEndRefines

\* and an install, which is a Reconnect unless the wrapper is closed.
LEMMA InstallRefines ==
  ASSUME TypeOK, Roles, DialedIsPrivate, NEW t \in Threads, Install(t)
  PROVE  [Link!Next]_(Link!vars)
<1>1. pc[t] = "install" /\ UNCHANGED closing
  BY DEF Install, At
<1>2. CASE closing
  <2>1. LinkState' = LinkState
    BY <1>1, <1>2 DEF LinkState
  <2>2. Return(t, "failed")
    BY <1>2 DEF Install, ReconnectErr
  <2>3. QED
    BY <1>1, <2>1, <2>2, ReconnectEndRefines DEF InReconnect
<1>3. CASE ~closing
  <2>1. currentConn' # NoConn /\ ReconnectOk(t)
    BY <1>1, <1>3 DEF Install, DialedIsPrivate
  <2>2. LinkState' = "up" /\ LinkState \in {"up", "down"}
    BY <1>1, <1>3, <2>1 DEF LinkState
  <2>3. CASE LinkState = "up"
    BY <1>1, <2>1, <2>2, <2>3, ReconnectEndRefines DEF InReconnect
  <2>4. CASE LinkState = "down"
    <3>1. \/ Goto(t, "send") \/ Goto(t, "resend")
          \/ ret[t] = "connect" /\ Return(t, "ok")
      BY <2>1 DEF ReconnectOk, TypeOK
    <3>2. ret[t] = "connect" => t \notin Writers
      BY <1>1 DEF Roles, Busy, InReconnect
    <3>3. CallState' = CallState
      BY <1>1, <3>1, <3>2, ControlFacts, StillBusy
    <3>4. Link!Reconnect
      BY <2>2, <2>4, <3>3 DEF Link!Reconnect
    <3>5. QED
      BY <3>4 DEF Link!Next
  <2>5. QED
    BY <2>2, <2>3, <2>4
<1>4. QED
  BY <1>2, <1>3

\* Every step is an abstract step or a stutter.
LEMMA StepRefines ==
  TypeOK /\ Roles /\ DialedIsPrivate /\ ClosedHoldsNothing /\ [Next]_vars
    => [Link!Next]_(Link!vars)
<1> SUFFICES ASSUME TypeOK, Roles, DialedIsPrivate, ClosedHoldsNothing, [Next]_vars
             PROVE  [Link!Next]_(Link!vars)
  OBVIOUS
<1>1. ASSUME NEW t \in Writers, Write(t) PROVE [Link!Next]_(Link!vars)
  BY <1>1, WriteRefines
<1>2. ASSUME NEW t \in Threads, Step(t) PROVE [Link!Next]_(Link!vars)
  BY <1>2, SendRefines, LoopRefines, InstallRefines DEF Step
<1>3. ASSUME NEW t \in Closers, Close(t) PROVE [Link!Next]_(Link!vars)
  <2>1. LinkState' = "closed" /\ CallState' = CallState
    BY <1>3 DEF Close, locals, LinkState, CallState
  <2>2. QED
    BY <2>1 DEF Link!Next, Link!Shut
<1>4. CASE PeerDown \/ PeerUp \/ UNCHANGED vars
  <2>1. LinkState' = LinkState /\ CallState' = CallState
    BY <1>4 DEF PeerDown, PeerUp, vars, shared, locals, LinkState, CallState
  <2>2. QED
    BY <2>1 DEF Link!vars
<1>5. QED
  BY <1>1, <1>2, <1>3, <1>4 DEF Next, Dead

\* The wrapper implements the resilient link.
THEOREM Refinement == Spec => ImplementsLink
<1>1. Init => Link!Init
  BY ThreadsAssumption DEF Init, InitWith, Link!Init, LinkState, CallState, Threads
<1>2. QED
  BY <1>1, RolesInvariant, StepRefines, TypeCorrect, DialedPrivate,
     ClosedStaysClosed, PTL DEF Spec, ImplementsLink, Link!Spec
=============================================================================
