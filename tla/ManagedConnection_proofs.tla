---------------------- MODULE ManagedConnection_proofs ----------------------
(***************************************************************************)
(* Proofs about ManagedConnection, for any number of writers, closers,     *)
(* connecting goroutines and sockets, any MaxRetries and any bounds.       *)
(***************************************************************************)
EXTENDS ManagedConnection, TLAPS

Labels == Busy \cup {"idle", "panicked"}

-----------------------------------------------------------------------------
(* What the control helpers do to the local state.                         *)

\* The variables the control helpers set keep their types.
ControlTypes ==
  /\ pc' \in [Threads -> Labels]
  /\ ret' \in [Threads -> {"first", "retry", "connect"}]
  /\ result' \in [Threads -> {"none", "ok", "failed"}]

\* Moving to a label, calling reconnect() and returning keep the types.
LEMMA ControlKeepsTypes ==
  ASSUME TypeOK, NEW t \in Threads,
         \/ \E l \in Labels : Goto(t, l)
         \/ \E from \in {"first", "retry"} : CallReconnect(t, from)
         \/ \E r \in {"ok", "failed"} : Return(t, r)
  PROVE  ControlTypes
BY DEF TypeOK, ControlTypes, Labels, Busy, InReconnect, Goto, CallReconnect, Return

\* reconnect() returning nil is one of the three.
LEMMA ReconnectOkCases ==
  ASSUME TypeOK, NEW t \in Threads, ReconnectOk(t)
  PROVE  Goto(t, "send") \/ Goto(t, "resend") \/ Return(t, "ok")
BY DEF TypeOK, ReconnectOk

-----------------------------------------------------------------------------
(* Type correctness                                                        *)

\* The sends keep the types.
LEMMA WriteTypes ==
  ASSUME TypeOK, NEW t \in Threads,
         Write(t) \/ SendAfterReconnect(t) \/ Resend(t)
  PROVE  TypeOK'
<1>1. ControlTypes
  BY ControlKeepsTypes DEF Write, SendAfterReconnect, Resend, TrySend, Labels, Busy, InReconnect
<1>2. /\ currentConn' \in Socks \cup {NoConn}
      /\ sock' \in [Socks -> {"open", "broken", "closed"}]
      /\ calls' \in [Threads -> Nat]
  BY DEF Write, SendAfterReconnect, Resend, TrySend, TypeOK, shared
<1>3. QED
  BY <1>1, <1>2 DEF TypeOK, ControlTypes, Labels, Write, SendAfterReconnect, Resend, TrySend, shared, env

\* The retry loop keeps the types.
LEMMA LoopTypes ==
  ASSUME TypeOK, NEW t \in Threads,
         \/ EnterReconnect(t) \/ Poll(t) \/ CheckClosing(t)
         \/ DialOk(t) \/ DialFails(t) \/ Sleep(t) \/ Abandon(t) \/ Install(t)
  PROVE  TypeOK'
<1>1. ControlTypes
  BY ControlKeepsTypes, ReconnectOkCases
     DEF EnterReconnect, Poll, CheckClosing, DialOk, DialFails, Sleep, Abandon,
         Install, TakeLoop, ReconnectErr, Labels, Busy, InReconnect
<1> DEFINE DataTypes == /\ currentConn' \in Socks \cup {NoConn}
                        /\ sock' \in [Socks -> {"open", "broken", "closed"}]
                        /\ attempt' \in [Threads -> Nat]
                        /\ dialed' \in [Threads -> Socks \cup {NoConn}]
                        /\ reconnecting' \in BOOLEAN
<1>2. DataTypes
  <2>1. CASE EnterReconnect(t) \/ Poll(t)
    <3>1. UNCHANGED <<currentConn, sock, dialed>>
      BY <2>1 DEF EnterReconnect, Poll
    <3>2. \/ UNCHANGED <<reconnecting, attempt>>
          \/ reconnecting' = TRUE /\ attempt' = [attempt EXCEPT ![t] = 0]
      BY <2>1, Zenon DEF EnterReconnect, Poll, TakeLoop
    <3>3. reconnecting' \in BOOLEAN
      BY <3>2, Zenon DEF TypeOK
    <3>4. attempt' \in [Threads -> Nat]
      BY <3>2 DEF TypeOK
    <3>5. QED
      BY <3>1, <3>3, <3>4 DEF TypeOK
  <2>2. CASE CheckClosing(t) \/ DialFails(t) \/ Abandon(t)
    BY <2>2 DEF CheckClosing, DialFails, Abandon, TypeOK, shared
  <2>3. CASE DialOk(t)
    BY <2>3 DEF DialOk, TypeOK
  <2>4. CASE Sleep(t)
    BY <2>4, BoundsAssumption DEF Sleep, TypeOK, shared
  <2>5. CASE Install(t)
    BY <2>5 DEF Install, TypeOK
  <2>6. QED
    BY <2>1, <2>2, <2>3, <2>4, <2>5
<1>3. UNCHANGED <<closing, peerUp, outages, calls>>
  BY DEF EnterReconnect, Poll, CheckClosing, DialOk, DialFails, Sleep, Abandon,
         Install, TakeLoop, shared, env
<1>4. QED
  BY <1>1, <1>2, <1>3 DEF TypeOK, ControlTypes, Labels

\* All variables keep their types in every behaviour of the wrapper.
THEOREM TypeCorrect == Spec => []TypeOK
<1>1. Init => TypeOK
  <2> SUFFICES ASSUME Init PROVE TypeOK
    OBVIOUS
  <2>1. pc \in [Threads -> Labels]
    BY DEF Init, InitWith, Labels, Busy, InReconnect
  <2>2. ret \in [Threads -> {"first", "retry", "connect"}]
    BY DEF Init, InitWith
  <2>3. /\ attempt \in [Threads -> Nat]
        /\ dialed \in [Threads -> Socks \cup {NoConn}]
        /\ result \in [Threads -> {"none", "ok", "failed"}]
        /\ calls \in [Threads -> Nat]
        /\ sock \in [Socks -> {"open", "broken", "closed"}]
        /\ currentConn \in Socks \cup {NoConn}
        /\ outages \in Nat
    BY DEF Init, InitWith
  <2>4. reconnecting \in BOOLEAN /\ closing \in BOOLEAN /\ peerUp \in BOOLEAN
    BY DEF Init, InitWith
  <2>5. QED
    BY <2>1, <2>2, <2>3, <2>4 DEF TypeOK, Labels
<1>2. TypeOK /\ [Next]_vars => TypeOK'
  <2> SUFFICES ASSUME TypeOK, [Next]_vars PROVE TypeOK'
    OBVIOUS
  <2>1. ASSUME NEW t \in Writers, Write(t) PROVE TypeOK'
    BY <2>1, WriteTypes DEF Threads
  <2>2. ASSUME NEW t \in Closers, Close(t) PROVE TypeOK'
    BY <2>2 DEF Close, TypeOK, env, locals
  <2>3. ASSUME NEW t \in Threads, Step(t) PROVE TypeOK'
    BY <2>3, WriteTypes, LoopTypes DEF Step
  <2>4. CASE PeerDown
    <3>1. sock' \in [Socks -> {"open", "broken", "closed"}]
      BY <2>4 DEF PeerDown, TypeOK
    <3>2. outages' \in Nat
      BY <2>4 DEF PeerDown, TypeOK
    <3>3. peerUp' \in BOOLEAN /\ reconnecting' \in BOOLEAN /\ closing' \in BOOLEAN
      BY <2>4, Zenon DEF PeerDown, TypeOK
    <3>4. UNCHANGED <<currentConn, locals>>
      BY <2>4 DEF PeerDown
    <3>5. QED
      BY <3>1, <3>2, <3>3, <3>4 DEF TypeOK, locals
  <2>5. CASE PeerUp
    BY <2>5 DEF PeerUp, TypeOK, shared, locals
  <2>6. CASE UNCHANGED vars
    BY <2>6 DEF TypeOK, vars, shared, env, locals
  <2>7. QED
    BY <2>1, <2>2, <2>3, <2>4, <2>5, <2>6 DEF Next, Dead
<1>3. QED
  BY <1>1, <1>2, PTL DEF Spec

-----------------------------------------------------------------------------
(* One goroutine in the retry loop                                         *)

\* What any step of goroutine t does to the loop's lock: nothing, take it when
\* it is free, or drop it when t has it.  Nobody else moves.
LoopEffect(t) ==
  /\ \A u \in Threads : u # t => pc'[u] = pc[u]
  /\ \/ /\ reconnecting' <=> reconnecting
        /\ pc'[t] \in OwnsLoop <=> pc[t] \in OwnsLoop
     \/ /\ ~reconnecting /\ reconnecting'
        /\ pc'[t] \in OwnsLoop
     \/ /\ ~reconnecting'
        /\ pc[t] \in OwnsLoop
        /\ pc'[t] \notin OwnsLoop

\* The labels of the helpers that leave the loop are outside of it.
LEMMA ControlEffects ==
  ASSUME TypeOK, NEW t \in Threads
  PROVE  /\ \A l : Goto(t, l) =>
               pc'[t] = l /\ \A u \in Threads : u # t => pc'[u] = pc[u]
         /\ \A f : CallReconnect(t, f) =>
               /\ pc'[t] \notin OwnsLoop
               /\ \A u \in Threads : u # t => pc'[u] = pc[u]
         /\ \A r : Return(t, r) =>
               /\ pc'[t] \notin OwnsLoop
               /\ \A u \in Threads : u # t => pc'[u] = pc[u]
         /\ ReconnectOk(t) =>
               /\ pc'[t] \notin OwnsLoop
               /\ \A u \in Threads : u # t => pc'[u] = pc[u]
<1>1. ASSUME NEW l, Goto(t, l)
      PROVE  pc'[t] = l /\ \A u \in Threads : u # t => pc'[u] = pc[u]
  BY <1>1 DEF TypeOK, Goto
<1>2. ASSUME NEW f, CallReconnect(t, f)
      PROVE  /\ pc'[t] \notin OwnsLoop
             /\ \A u \in Threads : u # t => pc'[u] = pc[u]
  BY <1>2 DEF TypeOK, CallReconnect, OwnsLoop
<1>3. ASSUME NEW r, Return(t, r)
      PROVE  /\ pc'[t] \notin OwnsLoop
             /\ \A u \in Threads : u # t => pc'[u] = pc[u]
  BY <1>3 DEF TypeOK, Return, OwnsLoop
<1>4. ASSUME ReconnectOk(t)
      PROVE  /\ pc'[t] \notin OwnsLoop
             /\ \A u \in Threads : u # t => pc'[u] = pc[u]
  BY <1>4, <1>1, <1>3, ReconnectOkCases DEF OwnsLoop
<1>5. QED
  BY <1>1, <1>2, <1>3, <1>4

\* A send leaves the flag alone and enters no loop.
LEMMA CallLoopEffect ==
  ASSUME TypeOK, NEW t \in Threads,
         Write(t) \/ SendAfterReconnect(t) \/ Resend(t)
  PROVE  LoopEffect(t)
<1>1. (reconnecting' <=> reconnecting) /\ pc[t] \notin OwnsLoop
  BY DEF Write, SendAfterReconnect, Resend, At, OwnsLoop, shared
<1>2. pc'[t] \notin OwnsLoop /\ \A u \in Threads : u # t => pc'[u] = pc[u]
  BY ControlEffects DEF Write, SendAfterReconnect, Resend, TrySend, OwnsLoop
<1>3. QED
  BY <1>1, <1>2 DEF LoopEffect

\* The effect of a step of reconnect() on the flag and the loop.
LEMMA ReconnectLoopEffect ==
  ASSUME TypeOK, NEW t \in Threads,
         \/ EnterReconnect(t) \/ Poll(t) \/ CheckClosing(t)
         \/ DialOk(t) \/ DialFails(t) \/ Sleep(t) \/ Abandon(t) \/ Install(t)
  PROVE  LoopEffect(t)
<1>1. CASE EnterReconnect(t) \/ Poll(t)
  BY <1>1, ControlEffects DEF EnterReconnect, Poll, TakeLoop, At, LoopEffect, OwnsLoop
<1>2. CASE CheckClosing(t) \/ DialOk(t) \/ DialFails(t) \/ Sleep(t)
  <2>1. reconnecting' <=> reconnecting
    BY <1>2 DEF CheckClosing, DialOk, DialFails, Sleep, shared
  <2>2. pc[t] \in OwnsLoop
    BY <1>2 DEF CheckClosing, DialOk, DialFails, Sleep, At, OwnsLoop
  <2>3. \E l \in OwnsLoop : Goto(t, l)
    BY <1>2 DEF CheckClosing, DialOk, DialFails, Sleep, OwnsLoop
  <2>4. QED
    BY <2>1, <2>2, <2>3, ControlEffects DEF LoopEffect
<1>3. CASE Abandon(t) \/ Install(t)
  <2>1. ~reconnecting' /\ pc[t] \in OwnsLoop
    BY <1>3 DEF Abandon, Install, At, OwnsLoop
  <2>2. pc'[t] \notin OwnsLoop /\ \A u \in Threads : u # t => pc'[u] = pc[u]
    BY <1>3, ControlEffects DEF Abandon, Install, ReconnectErr
  <2>3. QED
    BY <2>1, <2>2 DEF LoopEffect
<1>4. QED
  BY <1>1, <1>2, <1>3

\* Such an effect keeps the flag a lock.
LEMMA LoopEffectKeepsOne ==
  ASSUME OneReconnector, NEW t \in Threads, LoopEffect(t)
  PROVE  OneReconnector'
BY DEF OneReconnector, LoopEffect

\* Every step keeps the flag a lock.
LEMMA OneReconnectorStep ==
  TypeOK /\ OneReconnector /\ [Next]_vars => OneReconnector'
<1> SUFFICES ASSUME TypeOK, OneReconnector, [Next]_vars PROVE OneReconnector'
  OBVIOUS
<1>1. ASSUME NEW t \in Writers, Write(t) PROVE OneReconnector'
  BY <1>1, CallLoopEffect, LoopEffectKeepsOne DEF Threads
<1>2. ASSUME NEW t \in Threads, Step(t) PROVE OneReconnector'
  BY <1>2, CallLoopEffect, ReconnectLoopEffect, LoopEffectKeepsOne DEF Step
<1>3. CASE \/ \E t \in Closers : Close(t)
           \/ PeerDown \/ PeerUp \/ UNCHANGED vars
  <2>1. UNCHANGED <<pc, reconnecting>>
    BY <1>3 DEF Close, PeerDown, PeerUp, vars, shared, locals
  <2>2. QED
    BY <2>1 DEF OneReconnector
<1>4. QED
  BY <1>1, <1>2, <1>3 DEF Next, Dead

\* At most one goroutine is in the retry loop, and the flag says whether one is.
THEOREM ReconnectorExclusive == Spec => []OneReconnector
<1>1. Init => OneReconnector
  BY DEF Init, InitWith, OneReconnector, OwnsLoop
<1>2. QED
  BY <1>1, OneReconnectorStep, TypeCorrect, PTL DEF Spec

-----------------------------------------------------------------------------
(* Sockets under way are private                                           *)

\* A step that touches no dial: the installed socket may be closed or dropped.
NoDialEffect ==
  /\ UNCHANGED dialed
  /\ \A u \in Threads : pc'[u] = "install" <=> pc[u] = "install"
  /\ currentConn' \in {currentConn, NoConn}
  /\ \A s \in Socks : s # currentConn /\ sock'[s] = "closed" => sock[s] = "closed"

\* A step that dials and installs nothing keeps dialed sockets private.
LEMMA NoDialKeepsPrivate ==
  ASSUME TypeOK, DialedIsPrivate, NoDialEffect
  PROVE  DialedIsPrivate'
BY NoConnAssumption DEF TypeOK, DialedIsPrivate, NoDialEffect

\* A send is such a step,
LEMMA CallNoDialEffect ==
  ASSUME TypeOK, NEW t \in Threads,
         Write(t) \/ SendAfterReconnect(t) \/ Resend(t)
  PROVE  NoDialEffect
<1>1. \A u \in Threads : pc'[u] = "install" <=> pc[u] = "install"
  <2>1. pc[t] # "install" /\ pc'[t] # "install"
    BY DEF TypeOK, Write, SendAfterReconnect, Resend, TrySend, At, Goto, CallReconnect, Return
  <2>2. \A u \in Threads : u # t => pc'[u] = pc[u]
    BY ControlEffects DEF Write, SendAfterReconnect, Resend, TrySend
  <2>3. QED
    BY <2>1, <2>2
<1>2. UNCHANGED dialed /\ currentConn' \in {currentConn, NoConn}
  BY DEF Write, SendAfterReconnect, Resend, TrySend, shared
<1>3. \A s \in Socks : s # currentConn /\ sock'[s] = "closed" => sock[s] = "closed"
  BY DEF TypeOK, Write, SendAfterReconnect, Resend, TrySend, shared
<1>4. QED
  BY <1>1, <1>2, <1>3 DEF NoDialEffect

\* and so are most steps of the loop.
LEMMA LoopNoDialEffect ==
  ASSUME TypeOK, NEW t \in Threads,
         \/ EnterReconnect(t) \/ Poll(t) \/ CheckClosing(t)
         \/ DialFails(t) \/ Sleep(t) \/ Abandon(t)
  PROVE  NoDialEffect
<1>1. UNCHANGED <<dialed, currentConn, sock>>
  BY DEF EnterReconnect, Poll, CheckClosing, DialFails, Sleep, Abandon, shared
<1>2. pc[t] # "install" /\ pc'[t] # "install"
  BY ReconnectOkCases
     DEF TypeOK, EnterReconnect, Poll, CheckClosing, DialFails, Sleep, Abandon,
         TakeLoop, ReconnectErr, At, Goto, Return
<1>3. \A u \in Threads : u # t => pc'[u] = pc[u]
  BY ReconnectLoopEffect DEF LoopEffect
<1>4. QED
  BY <1>1, <1>2, <1>3 DEF NoDialEffect

\* A dial opens a socket nobody else has.
LEMMA DialKeepsPrivate ==
  ASSUME TypeOK, DialedIsPrivate, NEW t \in Threads, DialOk(t)
  PROVE  DialedIsPrivate'
<1>1. PICK s \in Socks : /\ Unused(s)
                         /\ sock' = [sock EXCEPT ![s] = "open"]
                         /\ dialed' = [dialed EXCEPT ![t] = s]
  BY DEF DialOk
<1>2. pc' = [pc EXCEPT ![t] = "install"] /\ UNCHANGED currentConn
  BY DEF DialOk, Goto
<1>3. QED
  BY <1>1, <1>2, NoConnAssumption DEF TypeOK, DialedIsPrivate, Unused

\* An install gives away the only socket a loop has dialed.
LEMMA InstallKeepsPrivate ==
  ASSUME TypeOK, OneReconnector, DialedIsPrivate, NEW t \in Threads, Install(t)
  PROVE  DialedIsPrivate'
<1>1. pc[t] = "install" /\ pc'[t] # "install"
  BY ReconnectOkCases DEF Install, At, TypeOK, ReconnectErr, Goto, Return
<1>2. \A u \in Threads : u # t => pc'[u] = pc[u] /\ pc[u] # "install"
  BY <1>1, ReconnectLoopEffect DEF LoopEffect, OneReconnector, OwnsLoop
<1>3. dialed'[t] = NoConn /\ \A u \in Threads : u # t => dialed'[u] = dialed[u]
  BY DEF Install, TypeOK
<1>4. \A u \in Threads : u # t => dialed[u] = NoConn
  BY <1>2 DEF DialedIsPrivate
<1>5. QED
  BY <1>1, <1>2, <1>3, <1>4 DEF DialedIsPrivate

\* Every step keeps dialed sockets private.
LEMMA DialedIsPrivateStep ==
  TypeOK /\ OneReconnector /\ DialedIsPrivate /\ [Next]_vars => DialedIsPrivate'
<1> SUFFICES ASSUME TypeOK, OneReconnector, DialedIsPrivate, [Next]_vars
             PROVE  DialedIsPrivate'
  OBVIOUS
<1>1. ASSUME NEW t \in Writers, Write(t) PROVE DialedIsPrivate'
  BY <1>1, CallNoDialEffect, NoDialKeepsPrivate DEF Threads
<1>2. ASSUME NEW t \in Threads, Step(t) PROVE DialedIsPrivate'
  BY <1>2, CallNoDialEffect, LoopNoDialEffect, NoDialKeepsPrivate,
     DialKeepsPrivate, InstallKeepsPrivate DEF Step
<1>3. ASSUME NEW t \in Closers, Close(t) PROVE DialedIsPrivate'
  <2>1. NoDialEffect
    BY <1>3 DEF Close, TypeOK, NoDialEffect, locals
  <2>2. QED
    BY <2>1, NoDialKeepsPrivate
<1>4. CASE PeerDown \/ PeerUp
  <2>1. NoDialEffect
    BY <1>4 DEF PeerDown, PeerUp, TypeOK, NoDialEffect, locals, shared
  <2>2. QED
    BY <2>1, NoDialKeepsPrivate
<1>5. CASE UNCHANGED vars
  BY <1>5 DEF DialedIsPrivate, vars, shared, locals
<1>6. QED
  BY <1>1, <1>2, <1>3, <1>4, <1>5 DEF Next, Dead

\* A socket under way is in the hands of one goroutine and never installed.
THEOREM DialedPrivate == Spec => []DialedIsPrivate
<1>1. Init => DialedIsPrivate
  BY DEF Init, InitWith, DialedIsPrivate
<1>2. QED
  BY <1>1, DialedIsPrivateStep, TypeCorrect, ReconnectorExclusive, PTL DEF Spec

-----------------------------------------------------------------------------
(* A closed wrapper                                                        *)

\* No step puts a usable socket into a closed wrapper.
LEMMA ClosedHoldsNothingStep ==
  TypeOK /\ DialedIsPrivate /\ ClosedHoldsNothing /\ [Next]_vars
    => ClosedHoldsNothing'
<1> SUFFICES ASSUME TypeOK, DialedIsPrivate, ClosedHoldsNothing, [Next]_vars
             PROVE  ClosedHoldsNothing'
  OBVIOUS
<1>1. ASSUME NEW t \in Threads, Write(t) \/ SendAfterReconnect(t) \/ Resend(t)
      PROVE  ClosedHoldsNothing'
  <2>1. UNCHANGED closing
    BY <1>1 DEF Write, SendAfterReconnect, Resend, shared
  <2>2. currentConn' = NoConn \/ UNCHANGED <<currentConn, sock>>
    BY <1>1 DEF Write, SendAfterReconnect, Resend, TrySend, shared
  <2>3. QED
    BY <2>1, <2>2 DEF ClosedHoldsNothing
<1>2. ASSUME NEW t \in Threads,
             \/ EnterReconnect(t) \/ Poll(t) \/ CheckClosing(t)
             \/ DialFails(t) \/ Sleep(t) \/ Abandon(t)
      PROVE  ClosedHoldsNothing'
  <2>1. UNCHANGED <<closing, currentConn, sock>>
    BY <1>2 DEF EnterReconnect, Poll, CheckClosing, DialFails, Sleep, Abandon, shared
  <2>2. QED
    BY <2>1 DEF ClosedHoldsNothing
<1>3. ASSUME NEW t \in Threads, DialOk(t) PROVE ClosedHoldsNothing'
  BY <1>3 DEF DialOk, Unused, ClosedHoldsNothing, TypeOK
<1>4. ASSUME NEW t \in Threads, Install(t) PROVE ClosedHoldsNothing'
  BY <1>4 DEF Install, At, ClosedHoldsNothing, DialedIsPrivate, TypeOK
<1>5. ASSUME NEW t \in Closers, Close(t) PROVE ClosedHoldsNothing'
  BY <1>5 DEF Close, ClosedHoldsNothing, TypeOK
<1>6. CASE PeerDown \/ PeerUp
  BY <1>6 DEF PeerDown, PeerUp, ClosedHoldsNothing, TypeOK, shared
<1>7. CASE UNCHANGED vars
  BY <1>7 DEF ClosedHoldsNothing, vars, shared
<1>8. QED
  BY <1>1, <1>2, <1>3, <1>4, <1>5, <1>6, <1>7 DEF Next, Step, Dead, Threads

\* After Close no usable connection is, or ever gets, installed.
THEOREM ClosedStaysClosed == Spec => []ClosedHoldsNothing
<1>1. Init => ClosedHoldsNothing
  BY DEF Init, InitWith, ClosedHoldsNothing
<1>2. QED
  BY <1>1, ClosedHoldsNothingStep, TypeCorrect, DialedPrivate, PTL DEF Spec

-----------------------------------------------------------------------------
(* Who is inside reconnect() on whose behalf.                              *)

\* A goroutine inside the wrapper is a writer, or runs reconnect() alone.
Roles ==
  \A t \in Threads : pc[t] \in Busy =>
    /\ (t \in Writers) <=> (ret[t] # "connect")
    /\ pc[t] \in {"send", "resend"} => t \in Writers

\* A step of t moves nobody else.
OnlyMoves(t) ==
  \A u \in Threads : u # t =>
    pc'[u] = pc[u] /\ ret'[u] = ret[u] /\ result'[u] = result[u]

\* What the control helpers do to the goroutine and to nobody else.
LEMMA ControlFacts ==
  ASSUME TypeOK, NEW t \in Threads
  PROVE  /\ \A l : Goto(t, l) =>
               OnlyMoves(t) /\ pc'[t] = l /\ ret'[t] = ret[t]
         /\ \A f : CallReconnect(t, f) =>
               OnlyMoves(t) /\ pc'[t] = "enter" /\ ret'[t] = f
         /\ \A r : Return(t, r) =>
               OnlyMoves(t) /\ pc'[t] = "idle" /\ result'[t] = r
BY DEF TypeOK, Goto, CallReconnect, Return, OnlyMoves

\* A step keeps the roles if the goroutine that moves stays in its own.
LEMMA RolesStep ==
  ASSUME TypeOK, Roles, NEW t \in Threads, OnlyMoves(t),
         pc'[t] \in Busy =>
           /\ (t \in Writers) <=> (ret'[t] # "connect")
           /\ pc'[t] \in {"send", "resend"} => t \in Writers
  PROVE  Roles'
BY DEF Roles, OnlyMoves

\* Every step does.
LEMMA RolesInductive ==
  TypeOK /\ Roles /\ [Next]_vars => Roles'
<1> SUFFICES ASSUME TypeOK, Roles, [Next]_vars PROVE Roles'
  OBVIOUS
<1> USE DEF At
<1>1. ASSUME NEW t \in Writers, Write(t) PROVE Roles'
  <2>1. t \in Threads
    BY DEF Threads
  <2>2. \/ \E r : Return(t, r)
        \/ \E f \in {"first", "retry"} : CallReconnect(t, f)
    BY <1>1 DEF Write, TrySend
  <2>3. QED
    BY <2>1, <2>2, ControlFacts, RolesStep DEF Busy, InReconnect
<1>2. ASSUME NEW t \in Threads, SendAfterReconnect(t) \/ Resend(t) PROVE Roles'
  <2>1. t \in Writers
    BY <1>2 DEF SendAfterReconnect, Resend, Roles, Busy
  <2>2. \/ \E r : Return(t, r)
        \/ CallReconnect(t, "retry")
        \/ Goto(t, "panicked")
    BY <1>2 DEF SendAfterReconnect, Resend, TrySend
  <2>3. QED
    BY <2>1, <2>2, ControlFacts, RolesStep DEF Busy, InReconnect
<1>3. ASSUME NEW t \in Threads,
             \/ EnterReconnect(t) \/ Poll(t) \/ CheckClosing(t)
             \/ DialOk(t) \/ DialFails(t) \/ Sleep(t) \/ Abandon(t) \/ Install(t)
      PROVE  Roles'
  <2>1. pc[t] \in Busy
    BY <1>3 DEF EnterReconnect, Poll, CheckClosing, DialOk, DialFails, Sleep,
                Abandon, Install, Busy, InReconnect
  <2>2. \/ \E l \in InReconnect : Goto(t, l)
        \/ ReconnectOk(t)
        \/ Return(t, "failed")
    BY <1>3 DEF EnterReconnect, Poll, CheckClosing, DialOk, DialFails, Sleep,
                Abandon, Install, TakeLoop, ReconnectErr, InReconnect
  <2>3. CASE \/ \E l \in InReconnect : Goto(t, l)
             \/ Return(t, "failed")
    BY <2>1, <2>3, ControlFacts, RolesStep DEF Roles, Busy, InReconnect
  <2>4. CASE ReconnectOk(t)
    <3>1. \/ ret[t] \in {"first", "retry"} /\ (Goto(t, "send") \/ Goto(t, "resend"))
          \/ Return(t, "ok")
      BY <2>4 DEF ReconnectOk, TypeOK
    <3>2. QED
      BY <2>1, <3>1, ControlFacts, RolesStep DEF Roles, Busy, InReconnect
  <2>5. QED
    BY <2>2, <2>3, <2>4
<1>4. CASE \/ \E t \in Closers : Close(t)
           \/ PeerDown \/ PeerUp \/ UNCHANGED vars
  <2>1. UNCHANGED <<pc, ret>>
    BY <1>4 DEF Close, PeerDown, PeerUp, vars, locals
  <2>2. QED
    BY <2>1 DEF Roles
<1>5. QED
  BY <1>1, <1>2, <1>3, <1>4 DEF Next, Step, Dead

\* A connector only connects, whatever the others do.
LEMMA RolesInvariant == Spec => []Roles
<1>1. Init => Roles
  BY ThreadsAssumption DEF Init, InitWith, Roles, Threads, Busy, InReconnect
<1>2. QED  BY <1>1, RolesInductive, TypeCorrect, PTL DEF Spec

-----------------------------------------------------------------------------
(* One writer.  Only a send takes the connection away, so a writer that is *)
(* alone finds the one its reconnect() has brought.                        *)

Supplied ==
  \A t \in Threads : /\ pc[t] # "panicked"
                     /\ pc[t] = "send" => currentConn # NoConn

\* A step that leaves the connection installed, and comes to the send with one.
LEMMA SuppliedKept ==
  ASSUME Supplied, NEW t \in Threads, OnlyMoves(t), pc'[t] # "panicked",
         currentConn # NoConn => currentConn' # NoConn,
         pc'[t] = "send" => currentConn' # NoConn
  PROVE  Supplied'
BY DEF Supplied, OnlyMoves

\* Every step of a wrapper with one writer.
LEMMA SuppliedStep ==
  ASSUME \A v, w \in Writers : v = w,
         TypeOK, Roles, DialedIsPrivate, Supplied, [Next]_vars
  PROVE  Supplied'
<1>1. ASSUME NEW t \in Threads, t \in Writers, OnlyMoves(t),
             pc'[t] \notin {"send", "panicked"}
      PROVE  Supplied'
  <2>1. \A u \in Threads : u # t => pc[u] # "send"
    BY <1>1 DEF Roles, Busy
  <2>2. QED  BY <1>1, <2>1 DEF Supplied, OnlyMoves
<1>2. ASSUME NEW t \in Writers, Write(t) PROVE Supplied'
  <2>1. t \in Threads  BY DEF Threads
  <2>2. \/ \E r : Return(t, r)
        \/ \E f : CallReconnect(t, f)
    BY <1>2 DEF Write, TrySend
  <2>3. QED  BY <1>1, <2>1, <2>2, ControlFacts
<1>3. ASSUME NEW t \in Threads, SendAfterReconnect(t) \/ Resend(t) PROVE Supplied'
  <2>1. t \in Writers
    BY <1>3 DEF SendAfterReconnect, Resend, At, Roles, Busy
  <2>2. \/ \E r : Return(t, r)
        \/ \E f : CallReconnect(t, f)
    BY <1>3 DEF SendAfterReconnect, Resend, TrySend, At, Supplied
  <2>3. QED  BY <1>1, <2>1, <2>2, ControlFacts
<1>4. ASSUME NEW t \in Threads,
             EnterReconnect(t) \/ CheckClosing(t) \/ DialOk(t) \/ DialFails(t)
               \/ Sleep(t) \/ Abandon(t)
      PROVE  Supplied'
  <2>1. \/ \E l \in InReconnect : Goto(t, l)
        \/ \E r : Return(t, r)
    BY <1>4 DEF EnterReconnect, CheckClosing, DialOk, DialFails, Sleep, Abandon,
                TakeLoop, ReconnectErr, InReconnect
  <2>2. currentConn' = currentConn
    BY <1>4 DEF EnterReconnect, CheckClosing, DialOk, DialFails, Sleep, Abandon, shared
  <2>3. QED  BY <2>1, <2>2, ControlFacts, SuppliedKept DEF InReconnect
<1>5. ASSUME NEW t \in Threads, Poll(t) \/ Install(t) PROVE Supplied'
  <2>1. \/ /\ currentConn' # NoConn
           /\ Goto(t, "send") \/ Goto(t, "resend") \/ Return(t, "ok")
        \/ /\ currentConn' = currentConn
           /\ Goto(t, "check") \/ Return(t, "failed")
    BY <1>5, ReconnectOkCases
       DEF Poll, Install, At, TakeLoop, ReconnectErr, DialedIsPrivate
  <2>2. QED  BY <2>1, ControlFacts, SuppliedKept
<1>6. CASE \/ \E t \in Closers : Close(t)
           \/ PeerDown \/ PeerUp \/ UNCHANGED vars
  <2>1. UNCHANGED <<pc, currentConn>>
    BY <1>6 DEF Close, PeerDown, PeerUp, vars, shared, locals
  <2>2. QED  BY <2>1 DEF Supplied
<1>7. QED  BY <1>2, <1>3, <1>4, <1>5, <1>6 DEF Next, Step, Dead

\* With one writer Write does not panic (connection.go:65), whoever else connects
\* or closes: it takes two writers, as in the run panic.
THEOREM OneWriterNeverPanics ==
  ASSUME \A v, w \in Writers : v = w
  PROVE  Spec => []WriteNeverPanics
<1>1. Init => Supplied
  BY DEF Init, InitWith, Supplied
<1>2. TypeOK /\ Roles /\ DialedIsPrivate /\ Supplied /\ [Next]_vars => Supplied'
  BY SuppliedStep
<1>3. Supplied => WriteNeverPanics
  BY DEF Supplied, WriteNeverPanics, Panicked
<1>4. QED
  BY <1>1, <1>2, <1>3, TypeCorrect, RolesInvariant, DialedPrivate, PTL DEF Spec

-----------------------------------------------------------------------------
(* One user.  Nobody installs a connection behind the back of the one that *)
(* dials, so no descriptor is lost, and Close leaves none open.            *)

OneUserInv ==
  /\ \A t \in Threads : pc[t] # "idle" => t \in Writers \cup Connectors
  /\ \A t \in Threads : pc[t] \in InReconnect => currentConn = NoConn
  /\ NoSocketLost

\* When the only user moves, nobody else is inside or has a socket in hand.
LEMMA UserAlone ==
  ASSUME \A v, w \in Writers \cup Connectors : v = w,
         TypeOK, DialedIsPrivate, OneUserInv,
         NEW t \in Threads, t \in Writers \/ pc[t] # "idle"
  PROVE  /\ t \in Writers \cup Connectors
         /\ \A u \in Threads : u # t => pc[u] = "idle" /\ dialed[u] = NoConn
BY DEF OneUserInv, DialedIsPrivate

\* It is enough to look at that user and its socket.
LEMMA UserKeeps ==
  ASSUME TypeOK, NEW t \in Writers \cup Connectors, OnlyMoves(t),
         \A u \in Threads : u # t => pc[u] = "idle",
         pc'[t] \in InReconnect => currentConn' = NoConn,
         \A s \in Socks : sock'[s] # "closed" => s = currentConn' \/ s = dialed'[t]
  PROVE  OneUserInv'
<1>1. t \in Threads  BY DEF Threads
<1>2. \A u \in Threads : u # t => pc'[u] = "idle"
  BY DEF OnlyMoves
<1>3. NoSocketLost'
  BY <1>1 DEF NoSocketLost
<1>4. \A u \in Threads : pc'[u] \in InReconnect => currentConn' = NoConn
  BY <1>2 DEF InReconnect
<1>5. QED  BY <1>2, <1>3, <1>4 DEF OneUserInv

\* Every step of a wrapper with one user.
LEMMA OneUserStep ==
  ASSUME \A v, w \in Writers \cup Connectors : v = w,
         TypeOK, DialedIsPrivate, OneUserInv, [Next]_vars
  PROVE  OneUserInv'
<1>1. ASSUME NEW t \in Threads, t \in Writers \/ pc[t] # "idle"
      PROVE  /\ t \in Writers \cup Connectors
             /\ \A u \in Threads : u # t => pc[u] = "idle" /\ dialed[u] = NoConn
             /\ \A s \in Socks : sock[s] # "closed" => s = currentConn \/ s = dialed[t]
  <2>1. /\ t \in Writers \cup Connectors
        /\ \A u \in Threads : u # t => pc[u] = "idle" /\ dialed[u] = NoConn
    BY <1>1, UserAlone
  <2>2. QED  BY <2>1, NoConnAssumption DEF OneUserInv, NoSocketLost
<1>2. ASSUME NEW t \in Threads,
             \/ t \in Writers /\ Write(t)
             \/ SendAfterReconnect(t) \/ Resend(t)
      PROVE  OneUserInv'
  <2>1. (t \in Writers \/ pc[t] # "idle") /\ dialed' = dialed /\ pc[t] # "install"
    BY <1>2 DEF Write, SendAfterReconnect, Resend, At
  <2>2. \/ /\ currentConn' = currentConn /\ sock' = sock
           /\ (\E r : Return(t, r)) \/ Goto(t, "panicked")
        \/ /\ currentConn = NoConn /\ currentConn' = currentConn /\ sock' = sock
           /\ CallReconnect(t, "first")
        \/ /\ currentConn' = NoConn /\ CallReconnect(t, "retry")
           /\ sock' = [sock EXCEPT ![currentConn] = "closed"]
    BY <1>2 DEF Write, SendAfterReconnect, Resend, TrySend, shared
  <2>3. OnlyMoves(t) /\ (pc'[t] \in InReconnect => currentConn' = NoConn)
    BY <2>2, ControlFacts DEF InReconnect
  <2>4. dialed[t] = NoConn
    BY <2>1 DEF DialedIsPrivate
  <2>5. \A s \in Socks : sock'[s] # "closed" => s = currentConn'
    BY <1>1, <2>1, <2>2, <2>4, NoConnAssumption DEF TypeOK
  <2>6. QED  BY <1>1, <2>1, <2>3, <2>5, UserKeeps
<1>3. ASSUME NEW t \in Threads,
             \/ EnterReconnect(t) \/ Poll(t) \/ CheckClosing(t) \/ DialFails(t)
             \/ Sleep(t) \/ Abandon(t)
      PROVE  OneUserInv'
  <2>1. pc[t] \in InReconnect /\ UNCHANGED <<currentConn, sock, dialed>>
    BY <1>3 DEF EnterReconnect, Poll, CheckClosing, DialFails, Sleep, Abandon, At,
                InReconnect, shared
  <2>2. currentConn = NoConn
    BY <2>1 DEF OneUserInv
  <2>3. OnlyMoves(t)
    BY <1>3, ControlFacts, ReconnectOkCases
       DEF EnterReconnect, Poll, CheckClosing, DialFails, Sleep, Abandon, TakeLoop,
           ReconnectErr
  <2>4. pc[t] # "idle"  BY <2>1 DEF InReconnect
  <2>5. QED  BY <1>1, <2>1, <2>2, <2>3, <2>4, UserKeeps
<1>4. ASSUME NEW t \in Threads, DialOk(t) PROVE OneUserInv'
  <2>1. PICK s \in Socks : /\ sock' = [sock EXCEPT ![s] = "open"]
                           /\ dialed' = [dialed EXCEPT ![t] = s]
    BY <1>4 DEF DialOk
  <2>2. pc[t] = "dial" /\ currentConn' = currentConn /\ OnlyMoves(t)
    BY <1>4, ControlFacts DEF DialOk, At
  <2>3. currentConn = NoConn /\ dialed[t] = NoConn
    BY <2>2 DEF OneUserInv, DialedIsPrivate, InReconnect
  <2>4. \A r \in Socks : sock'[r] # "closed" => r = dialed'[t]
    BY <1>1, <2>1, <2>2, <2>3, NoConnAssumption DEF TypeOK
  <2>5. QED  BY <1>1, <2>2, <2>3, <2>4, UserKeeps
<1>5. ASSUME NEW t \in Threads, Install(t) PROVE OneUserInv'
  <2>1. pc[t] = "install" /\ currentConn = NoConn
    BY <1>5 DEF Install, At, OneUserInv, InReconnect
  <2>2. OnlyMoves(t) /\ pc'[t] \notin InReconnect
    BY <1>5, ControlFacts, ReconnectOkCases DEF Install, ReconnectErr, InReconnect
  <2>3. \A s \in Socks : sock'[s] # "closed" => s = currentConn'
    BY <1>1, <1>5, <2>1, NoConnAssumption DEF Install, TypeOK
  <2>4. QED  BY <1>1, <2>1, <2>2, <2>3, UserKeeps
<1>6. CASE \/ \E t \in Closers : Close(t)
           \/ PeerDown \/ PeerUp \/ UNCHANGED vars
  <2>1. UNCHANGED <<pc, currentConn, dialed>>
    BY <1>6 DEF Close, PeerDown, PeerUp, vars, shared, locals
  <2>2. \A s \in Socks : sock'[s] # "closed" => sock[s] # "closed"
    BY <1>6 DEF Close, PeerDown, PeerUp, vars, shared, TypeOK
  <2>3. QED  BY <2>1, <2>2 DEF OneUserInv, NoSocketLost
<1>7. Writers \subseteq Threads  BY DEF Threads
<1>8. QED
  BY <1>2, <1>3, <1>4, <1>5, <1>6, <1>7 DEF Next, Step, Dead

\* With one user Close terminates the connection (connection.go:107): what is left
\* open after it, as in the run leak, takes a second goroutine that dials.
THEOREM OneUserLeavesNothing ==
  ASSUME \A v, w \in Writers \cup Connectors : v = w
  PROVE  Spec => []CloseTerminatesConnection
<1>1. Init => OneUserInv
  BY DEF Init, InitWith, OneUserInv, NoSocketLost
<1>2. TypeOK /\ DialedIsPrivate /\ OneUserInv /\ [Next]_vars => OneUserInv'
  BY OneUserStep
<1>3. DialedIsPrivate /\ ClosedHoldsNothing /\ OneUserInv => CloseTerminatesConnection
  BY NoConnAssumption
     DEF OneUserInv, NoSocketLost, DialedIsPrivate, ClosedHoldsNothing,
         CloseTerminatesConnection
<1>4. QED
  BY <1>1, <1>2, <1>3, TypeCorrect, DialedPrivate, ClosedStaysClosed, PTL DEF Spec

=============================================================================
