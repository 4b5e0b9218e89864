------------------------ MODULE CppConnection_proofs ------------------------
(***************************************************************************)
(* Proofs about CppConnection, for any senders, receivers, connecting      *)
(* threads, closers and sockets, any limits and any bounds.                *)
(***************************************************************************)
EXTENDS CppConnection, TLAPS

Labels  == Holding \cup {"idle", "lock", "sleep", "crashed", "closing", "done"}
Rets    == {"first", "retry", "connect"}
Results == {"none", "ok", "dropped", "failed"}

-----------------------------------------------------------------------------
(* Type correctness                                                        *)

\* The part of the types the control helpers are responsible for.
ControlTypes ==
  /\ pc' \in [Threads \cup Closers -> Labels]
  /\ ret' \in [Threads -> Rets]
  /\ result' \in [Threads -> Results]

\* The rest of it.
DataTypes ==
  /\ socket' \in Socks \cup {NoSock}
  /\ mutex' \in Threads \cup {Nobody}
  /\ sock' \in [Socks -> {"open", "broken", "closed"}]
  /\ attempt' \in [Threads -> Nat]
  /\ calls' \in [Threads -> Nat]
  /\ outages' \in Nat

Flags == closed' \in BOOLEAN /\ peerUp' \in BOOLEAN

\* The types of all variables from those of the three groups.
LEMMA TypesTogether ==
  ASSUME TypeOK, ControlTypes, DataTypes, Flags, UNCHANGED given
  PROVE  TypeOK'
BY DEF TypeOK, ControlTypes, DataTypes, Flags, Labels, Rets, Results, given

\* What each control helper does to the types.
LEMMA GotoTypes ==
  ASSUME TypeOK, NEW t \in Threads \cup Closers, NEW l \in Labels, Goto(t, l)
  PROVE  ControlTypes
BY DEF TypeOK, ControlTypes, Goto, Labels, Rets, Results

\* A return frees the mutex.
LEMMA ReturnTypes ==
  ASSUME TypeOK, NEW t \in Threads, NEW r \in Results, Return(t, r)
  PROVE  ControlTypes /\ mutex' = Nobody
BY DEF TypeOK, ControlTypes, Return, Labels, Rets, Results

\* A call of Reconnect starts its counter.
LEMMA CallReconnectTypes ==
  ASSUME TypeOK, NEW t \in Threads, NEW r \in Rets, CallReconnect(t, r)
  PROVE  ControlTypes /\ attempt' \in [Threads -> Nat]
BY DEF TypeOK, ControlTypes, CallReconnect, Labels, Holding, Rets, Results

\* A return of Reconnect ends in one of its three callers.
LEMMA ReconnectReturnsTypes ==
  ASSUME TypeOK, NEW t \in Threads, ReconnectReturns(t)
  PROVE  /\ ControlTypes
         /\ attempt' \in [Threads -> Nat]
         /\ mutex' \in Threads \cup {Nobody}
<1>1. attempt' \in [Threads -> Nat]
  BY DEF ReconnectReturns, LoopEnds, TypeOK
<1>2. CASE Goto(t, "use") /\ mutex' = t
  BY <1>1, <1>2, GotoTypes DEF Labels, Holding
<1>3. CASE Goto(t, "again") /\ mutex' = t
  BY <1>1, <1>3, GotoTypes DEF Labels, Holding
<1>4. CASE Return(t, "ok")
  BY <1>1, <1>4, ReturnTypes DEF Results
<1>5. QED
  BY <1>2, <1>3, <1>4 DEF ReconnectReturns

\* Send and Receive up to their first use keep the types.
LEMMA EnterUserTypes ==
  ASSUME TypeOK, NEW t \in Threads, EnterUser(t)
  PROVE  TypeOK'
<1>1. ControlTypes
  BY ReturnTypes, CallReconnectTypes, GotoTypes
     DEF EnterUser, Labels, Holding, Rets, Results
<1>2. mutex' \in Threads \cup {Nobody}
  BY DEF EnterUser, Return
<1>3. attempt' \in [Threads -> Nat]
  BY CallReconnectTypes DEF EnterUser, Rets, TypeOK
<1>4. DataTypes
  BY <1>2, <1>3 DEF EnterUser, DataTypes, TypeOK, env
<1>5. Flags /\ UNCHANGED given
  BY Zenon DEF EnterUser, Flags, TypeOK, env
<1>6. QED
  BY <1>1, <1>4, <1>5, TypesTogether

\* The uses of the socket keep the types.
LEMMA UseTypes ==
  ASSUME TypeOK, NEW t \in Threads,
         \/ UseWorks(t) \/ UseThrows(t) \/ UseNull(t)
         \/ AgainThrows(t) \/ AgainTest(t)
  PROVE  TypeOK'
<1>1. ControlTypes
  BY ReturnTypes, CallReconnectTypes, GotoTypes
     DEF UseWorks, UseThrows, UseNull, AgainThrows, AgainTest,
         Labels, Holding, Rets, Results
<1>2. mutex' \in Threads \cup {Nobody}
  BY DEF UseWorks, UseThrows, UseNull, AgainThrows, AgainTest, Return,
         wrapper, TypeOK
<1>3. attempt' \in [Threads -> Nat]
  BY CallReconnectTypes
     DEF UseWorks, UseThrows, UseNull, AgainThrows, AgainTest, Rets, TypeOK
<1>4. UNCHANGED <<socket, closed, sock, peerUp, outages, calls, given>>
  BY DEF UseWorks, UseThrows, UseNull, AgainThrows, AgainTest, wrapper, env
<1>5. Flags
  BY <1>4, Zenon DEF Flags, TypeOK
<1>6. DataTypes
  BY <1>2, <1>3, <1>4 DEF DataTypes, TypeOK
<1>7. QED
  BY <1>1, <1>4, <1>5, <1>6, TypesTogether

\* The retry loop keeps the types.
LEMMA LoopTypes ==
  ASSUME TypeOK, NEW t \in Threads,
         EnterConnector(t) \/ LoopTest(t) \/ DialOk(t) \/ DialFails(t) \/ Wake(t)
  PROVE  TypeOK'
<1>1. ControlTypes
  BY ReturnTypes, CallReconnectTypes, GotoTypes, ReconnectReturnsTypes
     DEF EnterConnector, LoopTest, DialOk, DialFails, Wake,
         Labels, Holding, Rets, Results
<1>2. mutex' \in Threads \cup {Nobody}
  BY ReconnectReturnsTypes
     DEF EnterConnector, LoopTest, DialOk, DialFails, Wake, Return, TypeOK
<1>3. attempt' \in [Threads -> Nat]
  <2>1. CASE EnterConnector(t)
    BY <2>1, CallReconnectTypes DEF EnterConnector, Rets
  <2>2. CASE LoopTest(t) \/ DialFails(t)
    BY <2>2 DEF LoopTest, LoopEnds, DialFails, TypeOK
  <2>3. CASE DialOk(t)
    BY <2>3, ReconnectReturnsTypes DEF DialOk
  <2>4. CASE Wake(t)
    BY <2>4, ReconnectReturnsTypes, BoundsAssumption DEF Wake, TypeOK
  <2>5. QED
    BY <2>1, <2>2, <2>3, <2>4
<1>4. /\ socket' \in Socks \cup {NoSock}
      /\ sock' \in [Socks -> {"open", "broken", "closed"}]
  BY DEF EnterConnector, LoopTest, DialOk, DialFails, Wake, OldSocketClosed, TypeOK
<1>5. UNCHANGED <<closed, peerUp, outages, calls, given>>
  BY DEF EnterConnector, LoopTest, DialOk, DialFails, Wake, env
<1>6. Flags
  BY <1>5, Zenon DEF Flags, TypeOK
<1>7. DataTypes
  BY <1>2, <1>3, <1>4, <1>5 DEF DataTypes, TypeOK
<1>8. QED
  BY <1>1, <1>5, <1>6, <1>7, TypesTogether

\* All variables keep their types in every behaviour of the wrapper.
THEOREM TypeCorrect == Spec => []TypeOK
<1>1. Init => TypeOK
  <2> SUFFICES ASSUME Init PROVE TypeOK
    OBVIOUS
  <2>1. pc \in [Threads \cup Closers -> Labels]
    BY DEF Init, Labels, Holding
  <2>2. closed \in BOOLEAN /\ peerUp \in BOOLEAN
    BY DEF Init
  <2>3. QED
    BY <2>1, <2>2 DEF Init, TypeOK, Labels
<1>2. TypeOK /\ [Next]_vars => TypeOK'
  <2> SUFFICES ASSUME TypeOK, [Next]_vars PROVE TypeOK'
    OBVIOUS
  <2>1. ASSUME NEW t \in Users, Call(t) PROVE TypeOK'
    <3>1. t \in Threads
      BY DEF Threads
    <3>2. ControlTypes
      BY <2>1, <3>1, GotoTypes DEF Call, Labels
    <3>3. DataTypes
      BY <2>1, <3>1 DEF Call, DataTypes, TypeOK, wrapper, env
    <3>4. Flags /\ UNCHANGED given
      BY <2>1, Zenon DEF Call, Flags, TypeOK, wrapper, env
    <3>5. QED
      BY <3>2, <3>3, <3>4, TypesTogether
  <2>2. ASSUME NEW t \in Users, UseWorks(t) PROVE TypeOK'
    BY <2>2, UseTypes DEF Threads
  <2>3. ASSUME NEW t \in Threads, Proceed(t) PROVE TypeOK'
    BY <2>3, UseTypes, LoopTypes DEF Proceed
  <2>4. ASSUME NEW t \in Threads, Acquire(t) PROVE TypeOK'
    BY <2>4, EnterUserTypes, LoopTypes DEF Acquire
  <2>5. ASSUME NEW x \in Closers, CloseWins(x) PROVE TypeOK'
    <3>1. ControlTypes
      BY <2>5, GotoTypes DEF CloseWins, Labels
    <3>2. DataTypes
      BY <2>5 DEF CloseWins, DataTypes, TypeOK, env
    <3>3. Flags /\ UNCHANGED given
      BY <2>5, Zenon DEF CloseWins, Flags, TypeOK, env
    <3>4. QED
      BY <3>1, <3>2, <3>3, TypesTogether
  <2>6. ASSUME NEW x \in Closers, CloseSocket(x) PROVE TypeOK'
    <3>1. ControlTypes
      BY <2>6, GotoTypes DEF CloseSocket, Labels
    <3>2. DataTypes
      BY <2>6 DEF CloseSocket, OldSocketClosed, DataTypes, TypeOK, env
    <3>3. Flags /\ UNCHANGED given
      BY <2>6, Zenon DEF CloseSocket, Flags, TypeOK, env
    <3>4. QED
      BY <3>1, <3>2, <3>3, TypesTogether
  <2>7. CASE PeerDown \/ PeerUp
    <3>1. ControlTypes
      BY <2>7 DEF PeerDown, PeerUp, ControlTypes, TypeOK, locals, Labels, Rets, Results
    <3>2. DataTypes
      BY <2>7 DEF PeerDown, PeerUp, DataTypes, TypeOK, wrapper, locals
    <3>3. Flags /\ UNCHANGED given
      BY <2>7, Zenon DEF PeerDown, PeerUp, Flags, TypeOK, wrapper
    <3>4. QED
      BY <3>1, <3>2, <3>3, TypesTogether
  <2>8. CASE UNCHANGED vars
    BY <2>8 DEF TypeOK, vars, wrapper, env, locals, given
  <2>9. QED
    BY <2>1, <2>2, <2>3, <2>4, <2>5, <2>6, <2>7, <2>8 DEF Next, Dead
<1>3. QED
  BY <1>1, <1>2, PTL DEF Spec

-----------------------------------------------------------------------------
(* The mutex and what it protects                                          *)

\* Whoever is in a section of code under the mutex holds it.
MutexHeld ==
  \A t \in Threads : pc[t] \in Holding \cup {"crashed"} => mutex = t

\* Closers are past the exchange on closed_ once they are on their way.
ClosersClosed ==
  \A x \in Closers : pc[x] \in {"closing", "done"} => closed

\* After a Close nobody dials.
NoDialAfterClose ==
  (\E x \in Closers : pc[x] = "done") => \A t \in Threads : pc[t] # "dial"

\* A retry follows a failure of a socket that was there, and a socket_ once set
\* is never empty again.
RetryHasSocket ==
  \A t \in Threads :
    /\ ret[t] = "retry" => socket # NoSock
    /\ pc[t] \in {"again", "resend"} => ret[t] = "retry"

IInv ==
  /\ TypeOK
  /\ MutexHeld
  /\ OnlyInstalledIsOpen
  /\ ClosersClosed
  /\ NoDialAfterClose
  /\ CloseIsFinal
  /\ RetryHasSocket
  /\ NothingSilentlyDropped

\* The steps a thread takes inside the wrapper.
Inside(t) == UseWorks(t) \/ Proceed(t) \/ Acquire(t)

\* What such a step does to the rest of the world: nothing to the other
\* threads, nothing to closed_, and nothing at all while another thread has the
\* mutex.
Alone(t) ==
  /\ \A u \in Threads \cup Closers : u # t => pc'[u] = pc[u]
  /\ \A u \in Threads : u # t => ret'[u] = ret[u] /\ result'[u] = result[u]
  /\ closed' = closed
  /\ mutex = Nobody \/ pc[t] \in Holding

\* What it does to the thread itself and to the mutex.
Own(t) ==
  /\ pc'[t] \in Holding \cup {"crashed"} => mutex' = t
  /\ pc'[t] \in {"again", "resend"} => ret'[t] = "retry"
  /\ pc'[t] = "dial" => ~closed
  /\ ret'[t] = "retry" => socket' # NoSock
  /\ result'[t] = "dropped" => closed \/ result[t] = "dropped"

\* What it does to the sockets.
Sockets(t) ==
  /\ \A s \in Socks : sock'[s] # "closed" => s = socket'
  /\ pc[t] # "dial" => UNCHANGED <<socket, sock>>
  /\ socket # NoSock => socket' # NoSock

\* A control helper moves its own thread only.
LEMMA HelpersAlone ==
  ASSUME TypeOK, NEW t \in Threads,
         \/ \E l \in Labels : Goto(t, l)
         \/ \E r \in Results : Return(t, r)
         \/ \E r \in Rets : CallReconnect(t, r)
         \/ ReconnectReturns(t)
  PROVE  /\ \A u \in Threads \cup Closers : u # t => pc'[u] = pc[u]
         /\ \A u \in Threads : u # t => ret'[u] = ret[u] /\ result'[u] = result[u]
BY DEF TypeOK, Goto, Return, CallReconnect, ReconnectReturns

\* A step of one thread leaves the control of the others alone.
LEMMA StepAlone ==
  ASSUME IInv, NEW t \in Threads, Inside(t)
  PROVE  Alone(t)
<1>1. \/ \E l \in Labels : Goto(t, l)
      \/ \E r \in Results : Return(t, r)
      \/ \E r \in Rets : CallReconnect(t, r)
      \/ ReconnectReturns(t)
  BY DEF Inside, Proceed, Acquire, EnterUser, UseWorks, UseThrows, UseNull,
         AgainThrows, AgainTest, EnterConnector, LoopTest, DialOk, DialFails,
         Wake, Labels, Holding, Results, Rets
<1>2. closed' = closed
  BY DEF Inside, Proceed, Acquire, EnterUser, UseWorks, UseThrows, UseNull,
         AgainThrows, AgainTest, EnterConnector, LoopTest, DialOk, DialFails,
         Wake, wrapper
<1>3. mutex = Nobody \/ pc[t] \in Holding
  BY DEF Inside, Proceed, Acquire, EnterUser, UseWorks, UseThrows, UseNull,
         AgainThrows, AgainTest, EnterConnector, LoopTest, DialOk, DialFails,
         Wake, At, Holding
<1>4. QED
  BY <1>1, <1>2, <1>3, HelpersAlone DEF Alone, IInv

\* What one step of a thread may do to the sockets: only the
\* installed one may be open after it, and only a dial changes which that is.
LEMMA StepSockets ==
  ASSUME IInv, NEW t \in Threads, Inside(t)
  PROVE  Sockets(t)
<1>1. CASE DialOk(t)
  BY <1>1, NoSockAssumption
     DEF DialOk, At, OldSocketClosed, Sockets, IInv, TypeOK, OnlyInstalledIsOpen
<1>2. CASE DialFails(t)
  BY <1>2 DEF DialFails, At, OldSocketClosed, Sockets, IInv, TypeOK, OnlyInstalledIsOpen
<1>3. CASE UNCHANGED <<socket, sock>>
  BY <1>3 DEF Sockets, IInv, OnlyInstalledIsOpen
<1>4. QED
  BY <1>1, <1>2, <1>3
     DEF Inside, Proceed, Acquire, EnterUser, UseWorks, UseThrows, UseNull,
         AgainThrows, AgainTest, EnterConnector, LoopTest, Wake, wrapper

\* What holds of a thread back from Reconnect.
LEMMA ReconnectReturnsOwn ==
  ASSUME IInv, NEW t \in Threads, ReconnectReturns(t), socket # NoSock => socket' # NoSock
  PROVE  Own(t)
BY NobodyAssumption
   DEF ReconnectReturns, Goto, Return, Own, IInv, TypeOK, RetryHasSocket, Holding

\* What holds of the thread that has moved, after any of its steps.
LEMMA StepOwn ==
  ASSUME IInv, NEW t \in Threads, Inside(t)
  PROVE  Own(t)
<1>1. Sockets(t)
  BY StepSockets
<1>2. CASE EnterUser(t)
  BY <1>2, <1>1 DEF EnterUser, Return, CallReconnect, Goto, Own, IInv, TypeOK,
                    RetryHasSocket, Holding
<1>3. CASE UseWorks(t)
  BY <1>3 DEF UseWorks, Return, Own, IInv, TypeOK, Holding
<1>4. CASE UseThrows(t)
  BY <1>4 DEF UseThrows, Throws, At, CallReconnect, Own, IInv, TypeOK,
                         MutexHeld, Holding, wrapper
<1>5. CASE UseNull(t)
  BY <1>5 DEF UseNull, At, Goto, Own, IInv, TypeOK, MutexHeld, RetryHasSocket,
              Holding, wrapper
<1>6. CASE AgainThrows(t)
  BY <1>6 DEF AgainThrows, Return, Own, IInv, TypeOK, Holding
<1>7. CASE AgainTest(t)
  BY <1>7 DEF AgainTest, At, Return, Goto, Own, IInv, TypeOK, RetryHasSocket, MutexHeld,
              Holding
<1>8. CASE EnterConnector(t)
  BY <1>8 DEF EnterConnector, CallReconnect, Own, IInv, TypeOK, Holding
<1>9. CASE LoopTest(t)
  <2>1. CASE closed
    BY <1>9, <2>1 DEF LoopTest, Return, Own, IInv, TypeOK, Holding
  <2>2. CASE ~closed
    BY <1>9, <2>2, <1>1 DEF LoopTest, At, Return, Goto, Own, Sockets, IInv, TypeOK,
                            MutexHeld, RetryHasSocket, Holding
  <2>3. QED
    BY <2>1, <2>2
<1>10. CASE DialOk(t)
  BY <1>10, <1>1, ReconnectReturnsOwn DEF DialOk, Sockets
<1>11. CASE DialFails(t)
  BY <1>11 DEF DialFails, Goto, Own, IInv, TypeOK, RetryHasSocket, Holding
<1>12. CASE Wake(t)
  <2>1. CASE closed
    BY <1>12, <2>1, <1>1, ReconnectReturnsOwn DEF Wake, Sockets
  <2>2. CASE ~closed
    BY <1>12, <2>2 DEF Wake, Goto, Own, IInv, TypeOK, RetryHasSocket, Holding
  <2>3. QED
    BY <2>1, <2>2
<1>13. QED
  BY <1>2, <1>3, <1>4, <1>5, <1>6, <1>7, <1>8, <1>9, <1>10, <1>11, <1>12
     DEF Inside, Proceed, Acquire
-----------------------------------------------------------------------------

\* Every step of a thread keeps the inductive invariant.
LEMMA StepKeepsIInv ==
  ASSUME IInv, NEW t \in Threads, Inside(t), TypeOK'
  PROVE  IInv'
<1>1. Alone(t) /\ Own(t) /\ Sockets(t)
  BY StepAlone, StepOwn, StepSockets
<1>2. MutexHeld'
  <2> SUFFICES ASSUME NEW u \in Threads, pc'[u] \in Holding \cup {"crashed"}
               PROVE  mutex' = u
    BY DEF MutexHeld
  <2>1. CASE u = t
    BY <1>1, <2>1 DEF Own
  <2>2. CASE u # t
    <3>1. pc[u] \in Holding \cup {"crashed"} /\ mutex = u
      BY <1>1, <2>2 DEF Alone, IInv, MutexHeld
    <3>2. pc[t] \in Holding => mutex = t
      BY DEF IInv, MutexHeld
    <3>3. QED
      BY <1>1, <2>2, <3>1, <3>2, NobodyAssumption DEF Alone
  <2>3. QED
    BY <2>1, <2>2
<1>3. OnlyInstalledIsOpen'
  BY <1>1 DEF Sockets, OnlyInstalledIsOpen
<1>4. \A x \in Closers : pc'[x] = pc[x]
  BY <1>1, ThreadsAssumption DEF Alone
<1>5. ClosersClosed'
  BY <1>1, <1>4, Zenon DEF Alone, IInv, ClosersClosed
<1>6. NoDialAfterClose'
  <2> SUFFICES ASSUME NEW x \in Closers, pc'[x] = "done",
                      NEW u \in Threads, pc'[u] = "dial"
               PROVE  FALSE
    BY DEF NoDialAfterClose
  <2>1. pc[x] = "done" /\ closed
    BY <1>4 DEF IInv, ClosersClosed
  <2>2. CASE u = t
    BY <1>1, <2>1, <2>2 DEF Own
  <2>3. CASE u # t
    BY <1>1, <2>1, <2>3 DEF Alone, IInv, NoDialAfterClose
  <2>4. QED
    BY <2>2, <2>3
<1>7. CloseIsFinal'
  <2> SUFFICES ASSUME NEW x \in Closers, pc'[x] = "done", NEW s \in Socks
               PROVE  sock'[s] = "closed"
    BY DEF CloseIsFinal
  <2>1. pc[x] = "done"
    BY <1>4
  <2>2. pc[t] # "dial" /\ sock[s] = "closed"
    BY <2>1 DEF IInv, NoDialAfterClose, CloseIsFinal
  <2>3. QED
    BY <1>1, <2>2 DEF Sockets
<1>8. RetryHasSocket'
  BY <1>1 DEF Alone, Own, Sockets, IInv, RetryHasSocket
<1>9. NothingSilentlyDropped'
  <2> SUFFICES ASSUME NEW u \in Threads, result'[u] = "dropped"
               PROVE  closed
    BY <1>1, Zenon DEF Alone, NothingSilentlyDropped
  <2>1. closed \/ result[u] = "dropped"
    BY <1>1 DEF Alone, Own
  <2>2. QED
    BY <2>1 DEF IInv, NothingSilentlyDropped
<1>10. QED
  BY <1>2, <1>3, <1>5, <1>6, <1>7, <1>8, <1>9 DEF IInv

\* The steps that are not a thread's own.
LEMMA OtherKeepsIInv ==
  ASSUME IInv, TypeOK',
         \/ \E t \in Users : Call(t)
         \/ \E x \in Closers : CloseWins(x) \/ CloseSocket(x)
         \/ PeerDown \/ PeerUp \/ UNCHANGED vars
  PROVE  IInv'
<1>1. ASSUME NEW t \in Users, Call(t) PROVE IInv'
  <2>1. /\ t \in Threads
        /\ pc' = [pc EXCEPT ![t] = "lock"]
        /\ UNCHANGED <<wrapper, ret, result>>
    BY <1>1 DEF Call, Goto, Threads
  <2>2. UNCHANGED <<mutex, closed, socket, sock>>
    BY <2>1 DEF wrapper
  <2>3. /\ \A u \in Threads : pc'[u] = pc[u] \/ pc'[u] = "lock"
        /\ \A x \in Closers : pc'[x] = pc[x]
    BY <2>1, ThreadsAssumption DEF IInv, TypeOK
  <2>4. MutexHeld' /\ OnlyInstalledIsOpen' /\ NoDialAfterClose' /\ CloseIsFinal' /\ RetryHasSocket'
    BY <2>1, <2>2, <2>3 DEF IInv, MutexHeld, OnlyInstalledIsOpen, NoDialAfterClose,
                            CloseIsFinal, RetryHasSocket, Holding
  <2>5. ClosersClosed' /\ NothingSilentlyDropped'
    BY <2>1, <2>2, <2>3, Zenon DEF IInv, ClosersClosed, NothingSilentlyDropped
  <2>6. QED
    BY <2>4, <2>5 DEF IInv
<1>2. ASSUME NEW x \in Closers, CloseWins(x) PROVE IInv'
  <2>1. /\ pc' = [pc EXCEPT ![x] = "closing"]
        /\ closed'
        /\ UNCHANGED <<socket, mutex, sock, ret, result>>
    BY <1>2 DEF CloseWins, Goto
  <2>2. /\ \A u \in Threads : pc'[u] = pc[u]
        /\ \A y \in Closers : pc'[y] = pc[y] \/ pc'[y] = "closing"
    BY <2>1, ThreadsAssumption DEF IInv, TypeOK
  <2>3. MutexHeld' /\ OnlyInstalledIsOpen' /\ NoDialAfterClose' /\ CloseIsFinal' /\ RetryHasSocket'
    BY <2>1, <2>2 DEF IInv, MutexHeld, OnlyInstalledIsOpen, NoDialAfterClose,
                      CloseIsFinal, RetryHasSocket, Holding
  <2>4. ClosersClosed' /\ NothingSilentlyDropped'
    BY <2>1, Zenon DEF ClosersClosed, NothingSilentlyDropped
  <2>5. QED
    BY <2>3, <2>4 DEF IInv
<1>3. ASSUME NEW x \in Closers, CloseSocket(x) PROVE IInv'
  <2>1. /\ pc' = [pc EXCEPT ![x] = "done"]
        /\ pc[x] = "closing"
        /\ mutex = Nobody
        /\ UNCHANGED <<socket, mutex, closed, ret, result>>
    BY <1>3 DEF CloseSocket, Goto, At
  <2>2. /\ \A u \in Threads : pc'[u] = pc[u]
        /\ \A y \in Closers : y # x => pc'[y] = pc[y]
    BY <2>1, ThreadsAssumption DEF IInv, TypeOK
  <2>3. \A s \in Socks : sock'[s] = "closed"
    BY <1>3 DEF CloseSocket, OldSocketClosed, IInv, OnlyInstalledIsOpen
  <2>4. \A u \in Threads : pc[u] # "dial"
    BY <2>1, NobodyAssumption DEF IInv, MutexHeld, Holding
  <2>5. MutexHeld' /\ OnlyInstalledIsOpen' /\ NoDialAfterClose' /\ CloseIsFinal' /\ RetryHasSocket'
    BY <2>1, <2>2, <2>3, <2>4
       DEF IInv, MutexHeld, OnlyInstalledIsOpen, NoDialAfterClose, CloseIsFinal,
           RetryHasSocket, Holding
  <2>6. closed
    BY <2>1 DEF IInv, ClosersClosed
  <2>7. ClosersClosed' /\ NothingSilentlyDropped'
    BY <2>1, <2>6, Zenon DEF ClosersClosed, NothingSilentlyDropped
  <2>8. QED
    BY <2>5, <2>7 DEF IInv
<1>4. CASE PeerDown \/ PeerUp \/ UNCHANGED vars
  <2>1. UNCHANGED <<pc, ret, result, socket, mutex, closed>>
    BY <1>4 DEF PeerDown, PeerUp, vars, wrapper, locals
  <2>2. \A s \in Socks : sock[s] = "closed" => sock'[s] = "closed"
    BY <1>4 DEF PeerDown, PeerUp, vars, wrapper, locals, IInv, TypeOK
  <2>3. OnlyInstalledIsOpen' /\ CloseIsFinal'
    BY <2>1, <2>2 DEF IInv, OnlyInstalledIsOpen, CloseIsFinal
  <2>4. MutexHeld' /\ NoDialAfterClose' /\ RetryHasSocket'
    BY <2>1 DEF IInv, MutexHeld, NoDialAfterClose, RetryHasSocket
  <2>5. ClosersClosed' /\ NothingSilentlyDropped'
    BY <2>1, Zenon DEF IInv, ClosersClosed, NothingSilentlyDropped
  <2>6. QED
    BY <2>3, <2>4, <2>5 DEF IInv
<1>5. QED
  BY <1>1, <1>2, <1>3, <1>4

\* The inductive invariant holds always.
LEMMA Invariance == Spec => []IInv
<1>1. Init /\ TypeOK => IInv
  BY NobodyAssumption
     DEF Init, IInv, MutexHeld, OnlyInstalledIsOpen, ClosersClosed, NoDialAfterClose,
         CloseIsFinal, RetryHasSocket, NothingSilentlyDropped, Holding
<1>2. IInv /\ TypeOK' /\ [Next]_vars => IInv'
  <2> SUFFICES ASSUME IInv, TypeOK', [Next]_vars PROVE IInv'
    OBVIOUS
  <2>1. ASSUME NEW t \in Threads, Inside(t) PROVE IInv'
    BY <2>1, StepKeepsIInv
  <2>2. QED
    BY <2>1, OtherKeepsIInv DEF Next, Inside, Threads, Dead
<1>3. QED
  BY <1>1, <1>2, TypeCorrect, PTL DEF Spec

\* No socket is lost open, however many retry loops run side by side.
THEOREM NoSocketLost == Spec => []OnlyInstalledIsOpen
<1>1. IInv => OnlyInstalledIsOpen
  BY DEF IInv
<1>2. QED
  BY <1>1, Invariance, PTL

\* Nothing is open, or will be, once the closer that closed the wrapper is back.
THEOREM ClosedForGood == Spec => []CloseIsFinal
<1>1. IInv => CloseIsFinal
  BY DEF IInv
<1>2. QED
  BY <1>1, Invariance, PTL

\* Only a closed wrapper drops data without an exception.
LEMMA DroppedWhenClosed == Spec => []NothingSilentlyDropped
<1>1. IInv => NothingSilentlyDropped
  BY DEF IInv
<1>2. QED
  BY <1>1, Invariance, PTL
-----------------------------------------------------------------------------

(* Healthy connections are kept                                            *)

\* A loop that has not slept was entered because there was no usable socket.
FreshLoop ==
  \A t \in Users :
    pc[t] \in {"loop", "dial"} /\ attempt[t] = 0 /\ socket # NoSock =>
      sock[socket] # "open"

\* Every step keeps it true that a fresh loop has no usable socket.
LEMMA FreshLoopStep ==
  ASSUME IInv, FreshLoop, NEW t \in Threads, Inside(t), TypeOK'
  PROVE  FreshLoop'
<1> SUFFICES ASSUME NEW u \in Users, pc'[u] \in {"loop", "dial"}, attempt'[u] = 0,
                    socket' # NoSock
             PROVE  sock'[socket'] # "open"
  BY DEF FreshLoop
<1>1. u \in Threads
  BY DEF Threads
<1>2. CASE u # t
  <2>1. Alone(t)
    BY StepAlone
  <2>2. mutex = u
    BY <1>1, <1>2, <2>1 DEF Alone, IInv, MutexHeld, Holding
  <2>3. pc[t] \in Holding => mutex = t
    BY DEF IInv, MutexHeld
  <2>4. QED
    BY <1>1, <1>2, <2>1, <2>2, <2>3, NobodyAssumption DEF Alone
<1>3. CASE u = t
  <2>1. CASE EnterUser(t)
    BY <1>1, <1>3, <2>1 DEF EnterUser, Return, CallReconnect, Goto, IInv, TypeOK
  <2>2. CASE UseThrows(t)
    BY <1>1, <1>3, <2>2 DEF UseThrows, Throws, wrapper
  <2>3. CASE LoopTest(t)
    BY <1>1, <1>3, <2>3 DEF LoopTest, At, Return, Goto, FreshLoop, IInv, TypeOK
  <2>4. CASE Wake(t)
    BY <1>1, <1>3, <2>4, BoundsAssumption
       DEF Wake, ReconnectReturns, Return, Goto, IInv, TypeOK
  <2>5. CASE EnterConnector(t)
    BY <1>1, <1>3, <2>5, ThreadsAssumption DEF EnterConnector
  <2>6. CASE \/ UseWorks(t) \/ UseNull(t) \/ AgainThrows(t) \/ AgainTest(t)
             \/ DialOk(t) \/ DialFails(t)
    BY <1>1, <1>3, <2>6
       DEF UseWorks, UseNull, AgainThrows, AgainTest, DialOk, DialFails,
           ReconnectReturns, Return, Goto, IInv, TypeOK
  <2>7. QED
    BY <2>1, <2>2, <2>3, <2>4, <2>5, <2>6 DEF Inside, Proceed, Acquire
<1>4. QED
  BY <1>2, <1>3

\* So it holds always.
LEMMA FreshLoopInvariant == Spec => []FreshLoop
<1>1. Init => FreshLoop
  BY DEF Init, FreshLoop
<1>2. IInv /\ FreshLoop /\ TypeOK' /\ [Next]_vars => FreshLoop'
  <2> SUFFICES ASSUME IInv, FreshLoop, TypeOK', [Next]_vars PROVE FreshLoop'
    OBVIOUS
  <2>1. ASSUME NEW t \in Threads, Inside(t) PROVE FreshLoop'
    BY <2>1, FreshLoopStep
  <2>2. ASSUME NEW t \in Users, Call(t) PROVE FreshLoop'
    BY <2>2 DEF Call, Goto, FreshLoop, Threads, wrapper, IInv, TypeOK
  <2>3. ASSUME NEW x \in Closers, CloseWins(x) \/ CloseSocket(x) PROVE FreshLoop'
    <3>1. \A u \in Users : pc'[u] \in {"loop", "dial"} => pc[u] = pc'[u]
      BY <2>3 DEF CloseWins, CloseSocket, Goto, Threads, IInv, TypeOK
    <3>2. UNCHANGED <<attempt, socket>>
      BY <2>3 DEF CloseWins, CloseSocket
    <3>3. \A s \in Socks : sock'[s] = "open" => sock[s] = "open"
      BY <2>3 DEF CloseWins, CloseSocket, OldSocketClosed
    <3>4. QED
      BY <3>1, <3>2, <3>3 DEF FreshLoop, IInv, TypeOK
  <2>4. CASE PeerDown \/ PeerUp \/ UNCHANGED vars
    <3>1. UNCHANGED <<pc, attempt, socket>>
      BY <2>4 DEF PeerDown, PeerUp, vars, wrapper, locals
    <3>2. \A s \in Socks : sock'[s] = "open" => sock[s] = "open"
      BY <2>4 DEF PeerDown, PeerUp, vars, wrapper
    <3>3. QED
      BY <3>1, <3>2 DEF FreshLoop, IInv, TypeOK
  <2>5. QED
    BY <2>1, <2>2, <2>3, <2>4 DEF Next, Inside, Threads, Dead
<1>3. QED
  BY <1>1, <1>2, TypeCorrect, Invariance, PTL DEF Spec

\* A healthy connection is closed only by Close, by the connecting thread, or by
\* a retry loop that has slept.
THEOREM HealthyKept == Spec => HealthyConnectionKept
<1> DEFINE Kept ==
      \A s \in Socks : sock[s] = "open" /\ sock'[s] = "closed" =>
         \/ \E x \in Closers : pc[x] = "closing" /\ pc'[x] = "done"
         \/ \E t \in Connectors : pc[t] = "dial"
         \/ \E t \in Threads : pc[t] = "dial" /\ attempt[t] > 0
<1>1. IInv /\ FreshLoop /\ [Next]_vars => [Kept]_vars
  <2> SUFFICES ASSUME IInv, FreshLoop, [Next]_vars,
                      NEW s \in Socks, sock[s] = "open", sock'[s] = "closed"
               PROVE  \/ \E x \in Closers : pc[x] = "closing" /\ pc'[x] = "done"
                      \/ \E t \in Connectors : pc[t] = "dial"
                      \/ \E t \in Threads : pc[t] = "dial" /\ attempt[t] > 0
    OBVIOUS
  <2>1. s = socket
    BY DEF IInv, OnlyInstalledIsOpen
  <2>2. ASSUME NEW t \in Threads, Inside(t)
        PROVE  \/ \E g \in Connectors : pc[g] = "dial"
               \/ \E u \in Threads : pc[u] = "dial" /\ attempt[u] > 0
    <3>1. pc[t] = "dial"
      BY <2>2, StepSockets DEF Sockets
    <3>2. t \in Users => attempt[t] # 0
      BY <2>1, <3>1, NoSockAssumption DEF FreshLoop
    <3>3. attempt[t] \in Nat
      BY DEF IInv, TypeOK
    <3>4. QED
      BY <3>1, <3>2, <3>3 DEF Threads
  <2>3. ASSUME NEW x \in Closers, CloseSocket(x)
        PROVE  pc[x] = "closing" /\ pc'[x] = "done"
    BY <2>3 DEF CloseSocket, At, Goto, IInv, TypeOK
  <2>4. ASSUME \/ \E t \in Users : Call(t)
               \/ \E x \in Closers : CloseWins(x)
               \/ PeerDown \/ PeerUp \/ UNCHANGED vars
        PROVE  FALSE
    BY <2>4 DEF Call, CloseWins, PeerDown, PeerUp, vars, wrapper, IInv, TypeOK
  <2>5. QED
    BY <2>2, <2>3, <2>4 DEF Next, Inside, Threads, Dead
<1>2. QED
  BY <1>1, Invariance, FreshLoopInvariant, PTL DEF Spec, HealthyConnectionKept

-----------------------------------------------------------------------------
(* The empty socket                                                        *)

\* Who is about to use the socket has one, or comes from a Reconnect that was told
\* of the close; and who has crashed was such a thread.
UseSupplied ==
  \A t \in Threads : /\ pc[t] = "use" => closed \/ socket # NoSock
                     /\ pc[t] = "crashed" => closed

\* What holds of the thread that has moved.
LEMMA StepSupplied ==
  ASSUME IInv, UseSupplied, NEW t \in Threads, Inside(t)
  PROVE  /\ pc'[t] = "use" => closed \/ socket' # NoSock
         /\ pc'[t] = "crashed" => closed
<1>1. CASE UseNull(t)
  BY <1>1 DEF UseNull, At, Goto, UseSupplied, IInv, TypeOK
<1>2. CASE DialOk(t)
  BY <1>2, NoSockAssumption
     DEF DialOk, ReconnectReturns, Goto, Return, IInv, TypeOK
<1>3. CASE EnterUser(t)
  BY <1>3 DEF EnterUser, Return, CallReconnect, Goto, IInv, TypeOK
<1>4. CASE Wake(t)
  BY <1>4 DEF Wake, ReconnectReturns, Goto, Return, IInv, TypeOK
<1>5. CASE \/ UseWorks(t) \/ UseThrows(t) \/ AgainThrows(t) \/ AgainTest(t)
           \/ LoopTest(t) \/ DialFails(t) \/ EnterConnector(t)
  <2>1. pc'[t] \notin {"use", "crashed"}
    BY <1>5 DEF UseWorks, UseThrows, AgainThrows, AgainTest, LoopTest, DialFails,
                EnterConnector, Return, CallReconnect, Goto, IInv, TypeOK
  <2>2. QED  BY <2>1
<1>6. QED
  BY <1>1, <1>2, <1>3, <1>4, <1>5 DEF Inside, Proceed, Acquire

\* Every step keeps it so: closed_ stays set, and socket_ is never emptied.
LEMMA UseSuppliedStep == IInv /\ UseSupplied /\ [Next]_vars => UseSupplied'
<1> SUFFICES ASSUME IInv, UseSupplied, [Next]_vars PROVE UseSupplied'
  OBVIOUS
<1>1. ASSUME NEW t \in Threads, Inside(t) PROVE UseSupplied'
  <2>1. /\ \A u \in Threads : u # t => pc'[u] = pc[u]
        /\ closed' = closed
        /\ socket # NoSock => socket' # NoSock
    BY <1>1, StepAlone, StepSockets DEF Alone, Sockets
  <2>2. QED  BY <1>1, <2>1, StepSupplied DEF UseSupplied
<1>2. ASSUME NEW t \in Threads \cup Closers, NEW l \in {"lock", "closing", "done"},
             Goto(t, l), closed' = closed \/ closed', socket' = socket
      PROVE  UseSupplied'
  BY <1>2 DEF Goto, UseSupplied, IInv, TypeOK
<1>3. ASSUME NEW t \in Users, Call(t) PROVE UseSupplied'
  BY <1>2, <1>3 DEF Call, Threads, wrapper
<1>4. ASSUME NEW x \in Closers, CloseWins(x) \/ CloseSocket(x) PROVE UseSupplied'
  BY <1>2, <1>4 DEF CloseWins, CloseSocket
<1>5. CASE PeerDown \/ PeerUp \/ UNCHANGED vars
  <2>1. UNCHANGED <<pc, closed, socket>>
    BY <1>5 DEF PeerDown, PeerUp, vars, wrapper, locals
  <2>2. QED  BY <2>1 DEF UseSupplied
<1>6. QED
  BY <1>1, <1>3, <1>4, <1>5 DEF Next, Inside, Threads, Dead

\* The null socket is used only in a closed wrapper (ManagedConnection.hpp:53, 70):
\* every other way out of Reconnect brings a socket or an exception.
LEMMA CrashTakesClose == Spec => []CrashOnlyAfterClose
<1>1. Init => UseSupplied
  BY DEF Init, UseSupplied, Threads
<1>2. UseSupplied => CrashOnlyAfterClose
  BY DEF UseSupplied, CrashOnlyAfterClose, Crashed
<1>3. QED  BY <1>1, <1>2, UseSuppliedStep, Invariance, PTL DEF Spec

\* No caller of a wrapper that is not closed comes out of Reconnect with neither a
\* socket nor an exception (ManagedConnection.hpp:53, 57, 70, 116).
THEOREM QuietWhenClosed == Spec => []OnlyCloseIsQuiet
BY DroppedWhenClosed, CrashTakesClose, PTL DEF OnlyCloseIsQuiet

=============================================================================
