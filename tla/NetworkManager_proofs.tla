------------------------ MODULE NetworkManager_proofs ------------------------
(***************************************************************************)
(* Proofs about NetworkManager: the numbers given to the OnError hook, the *)
(* number of dials, and the descriptors of a wrapper with one user, for    *)
(* any number of goroutines and sockets, any MaxRetries and any bounds.    *)
(***************************************************************************)
EXTENDS NetworkManager, TLAPS

Labels == Busy \cup {"idle", "panicked", "connecting", "pausing"}

\* NMTypeOK and the types of the variables of the wrapper.
Types ==
  /\ NMTypeOK
  /\ currentConn \in Socks \cup {NoConn}
  /\ sock \in [Socks -> {"open", "broken", "closed"}]
  /\ ret \in [Threads -> {"first", "retry", "connect"}]
  /\ attempt \in [Threads -> Nat]
  /\ dialed \in [Threads -> Socks \cup {NoConn}]
  /\ result \in [Threads -> {"none", "ok", "failed"}]
  /\ calls \in [Threads -> Nat]

-----------------------------------------------------------------------------
(* What the control helpers do.                                            *)

\* One goroutine moves, to a label.
Moved(t) ==
  /\ pc' \in [Threads -> Labels]
  /\ pc' = [pc EXCEPT ![t] = pc'[t]]
  /\ ret' \in [Threads -> {"first", "retry", "connect"}]
  /\ result' \in [Threads -> {"none", "ok", "failed"}]

\* Each control helper moves one goroutine.
LEMMA HelpersMove ==
  ASSUME Types, NEW t \in Threads,
         \/ \E l \in Labels : Goto(t, l)
         \/ \E from \in {"first", "retry"} : CallReconnect(t, from)
         \/ \E r \in {"ok", "failed"} : Return(t, r)
  PROVE  Moved(t)
BY DEF Types, NMTypeOK, Moved, Labels, Busy, InReconnect, Goto, CallReconnect, Return

\* reconnect() returning nil is one of the three, and leaves the loop.
LEMMA ReconnectOkMoves ==
  ASSUME Types, NEW t \in Threads, ReconnectOk(t)
  PROVE  Moved(t) /\ pc'[t] \in {"send", "resend", "idle"}
<1>1. Goto(t, "send") \/ Goto(t, "resend") \/ Return(t, "ok")
  BY DEF Types, ReconnectOk
<1>2. Moved(t)
  BY <1>1, HelpersMove DEF Labels, Busy, InReconnect
<1>3. QED
  BY <1>1, <1>2 DEF Goto, Return, Types, NMTypeOK

\* What the steps of one goroutine have in common.
OneMoves(t) ==
  /\ Moved(t)
  /\ mode' = mode
  /\ \A u \in Threads \ {t} : /\ attempt'[u] = attempt[u]
                              /\ failures'[u] = failures[u]
                              /\ lastReport'[u] = lastReport[u]
                              /\ dialed'[u] = dialed[u]

-----------------------------------------------------------------------------
(* The steps of ConnectWithRetry and of the wrapper move one goroutine.    *)

\* The loop of ConnectWithRetry moves one goroutine.
LEMMA BlockingMoves ==
  ASSUME Types, NEW t \in Threads, ConnectWithRetry(t)
  PROVE  OneMoves(t)
<1>1. CASE BlockingDialOk(t)
  BY <1>1, HelpersMove DEF BlockingDialOk, OneMoves
<1>2. CASE BlockingDialFails(t)
  BY <1>2, HelpersMove
     DEF BlockingDialFails, OneMoves, CountFailure, Report, Labels, Types, NMTypeOK
<1>3. CASE BlockingPause(t)
  BY <1>3, HelpersMove DEF BlockingPause, OneMoves, Labels, Types, nmVars
<1>4. CASE BlockingGivesUp(t)
  BY <1>4, HelpersMove DEF BlockingGivesUp, OneMoves
<1>5. QED  BY <1>1, <1>2, <1>3, <1>4 DEF ConnectWithRetry

\* So do the sends of the wrapper,
LEMMA SendMoves ==
  ASSUME Types, NEW t \in Threads,
         Write(t) \/ SendAfterReconnect(t) \/ Resend(t), UNCHANGED nmVars
  PROVE  OneMoves(t) /\ pc'[t] \in {"idle", "enter", "panicked"}
<1>1. \/ Goto(t, "panicked")
      \/ \E from \in {"first", "retry"} : CallReconnect(t, from)
      \/ \E r \in {"ok", "failed"} : Return(t, r)
  BY DEF Write, SendAfterReconnect, Resend, TrySend
<1>2. Moved(t)
  BY <1>1, HelpersMove DEF Labels
<1>3. pc'[t] \in {"idle", "enter", "panicked"}
  BY <1>1 DEF Goto, CallReconnect, Return, Types, NMTypeOK
<1>4. attempt' = attempt /\ dialed' = dialed
  BY DEF Write, SendAfterReconnect, Resend
<1>5. QED  BY <1>2, <1>3, <1>4 DEF OneMoves, nmVars

\* and its retry loop.
LEMMA LoopMoves ==
  ASSUME Types, NEW t \in Threads,
         \/ (CheckClosing(t) \/ DialOk(t) \/ Sleep(t)) /\ UNCHANGED nmVars
         \/ FailedDial(t) \/ StartLoop(t) \/ StartWaiting(t)
         \/ EndReconnect(t)
  PROVE  OneMoves(t)
<1>1. CASE CheckClosing(t) /\ UNCHANGED nmVars
  BY <1>1, HelpersMove DEF CheckClosing, OneMoves, nmVars, Labels, Busy, InReconnect
<1>2. CASE DialOk(t) /\ UNCHANGED nmVars
  BY <1>2, HelpersMove DEF DialOk, OneMoves, nmVars, Labels, Busy, InReconnect, Types
<1>3. CASE Sleep(t) /\ UNCHANGED nmVars
  BY <1>3, HelpersMove DEF Sleep, OneMoves, nmVars, Labels, Busy, InReconnect, Types
<1>4. CASE FailedDial(t)
  BY <1>4, HelpersMove
     DEF FailedDial, DialFails, CountFailure, Report, OneMoves, Labels, Busy,
         InReconnect, Types, NMTypeOK
<1>5. ASSUME EnterReconnect(t) \/ Poll(t)
      PROVE  /\ Moved(t) /\ dialed' = dialed
             /\ \A u \in Threads \ {t} : attempt'[u] = attempt[u]
  <2>1. Moved(t)
    BY <1>5, HelpersMove, ReconnectOkMoves
       DEF EnterReconnect, Poll, TakeLoop, Labels, Busy, InReconnect
  <2>2. attempt' = attempt \/ attempt' = [attempt EXCEPT ![t] = 0]
    BY <1>5 DEF EnterReconnect, Poll, TakeLoop
  <2>3. QED  BY <1>5, <2>1, <2>2 DEF EnterReconnect, Poll, Types
<1>6. CASE StartLoop(t)
  BY <1>5, <1>6 DEF StartLoop, ResetCounts, OneMoves, Types, NMTypeOK
<1>7. CASE StartWaiting(t)
  BY <1>5, <1>7 DEF StartWaiting, OneMoves, nmVars
<1>8. CASE EndReconnect(t)
  <2>1. Abandon(t) => Moved(t) /\ dialed' = dialed /\ attempt' = attempt
    BY HelpersMove DEF Abandon, ReconnectErr
  <2>2. Install(t) => /\ Moved(t) /\ attempt' = attempt
                      /\ dialed' = [dialed EXCEPT ![t] = NoConn]
    BY HelpersMove, ReconnectOkMoves DEF Install, ReconnectErr
  <2>3. /\ Moved(t)
        /\ \A u \in Threads \ {t} : attempt'[u] = attempt[u] /\ dialed'[u] = dialed[u]
    BY <1>5, <1>8, <2>1, <2>2 DEF EndReconnect, Types
  <2>4. /\ mode' = mode /\ failures' = failures
        /\ lastReport' = lastReport \/ lastReport' = [lastReport EXCEPT ![t] = 1]
    BY <1>8 DEF EndReconnect, Report
  <2>5. QED  BY <2>3, <2>4 DEF OneMoves, Types, NMTypeOK
<1>9. QED  BY <1>1, <1>2, <1>3, <1>4, <1>6, <1>7, <1>8

-----------------------------------------------------------------------------
(* Type correctness                                                        *)

\* A step of the wrapper or of the manager keeps every type.
LEMMA TypesStep == Types /\ [NMNext]_allVars => Types'
<1> SUFFICES ASSUME Types, [NMNext]_allVars PROVE Types'
  OBVIOUS
<1> USE DEF Types, NMTypeOK
<1>1. ASSUME NEW t \in Threads, ConnectWithRetry(t) PROVE Types'
  <2>1. Moved(t) /\ mode' = mode
    BY <1>1, BlockingMoves DEF OneMoves
  <2>2. /\ handedOver' \in BOOLEAN
        /\ currentConn' \in Socks \cup {NoConn}
        /\ sock' \in [Socks -> {"open", "broken", "closed"}]
        /\ dialed' = dialed /\ calls' = calls
    BY <1>1 DEF ConnectWithRetry, BlockingDialOk, BlockingDialFails, BlockingPause,
                BlockingGivesUp, shared, nmVars
  <2>3. /\ attempt' \in [Threads -> Nat]
        /\ failures' \in [Threads -> Nat]
        /\ lastReport' \in [Threads -> Nat]
    BY <1>1 DEF ConnectWithRetry, BlockingDialOk, BlockingDialFails, BlockingPause,
                BlockingGivesUp, CountFailure, Report, nmVars
  <2>4. QED  BY <2>1, <2>2, <2>3 DEF Moved, Labels
<1>2. ASSUME NEW t \in Threads,
             Write(t) \/ SendAfterReconnect(t) \/ Resend(t), UNCHANGED nmVars
      PROVE  Types'
  <2>1. Moved(t)
    BY <1>2, SendMoves DEF OneMoves
  <2>2. /\ currentConn' \in Socks \cup {NoConn}
        /\ sock' \in [Socks -> {"open", "broken", "closed"}]
        /\ calls' \in [Threads -> Nat]
        /\ attempt' = attempt /\ dialed' = dialed
    BY <1>2 DEF Write, SendAfterReconnect, Resend, TrySend, shared
  <2>3. QED  BY <1>2, <2>1, <2>2 DEF Moved, Labels, nmVars
<1>3. ASSUME NEW t \in Threads,
             \/ (CheckClosing(t) \/ DialOk(t) \/ Sleep(t)) /\ UNCHANGED nmVars
             \/ FailedDial(t) \/ StartLoop(t) \/ StartWaiting(t)
             \/ EndReconnect(t)
      PROVE  Types'
  <2>1. Moved(t) /\ mode' = mode
    BY <1>3, LoopMoves DEF OneMoves
  <2>2. /\ currentConn' \in Socks \cup {NoConn}
        /\ sock' \in [Socks -> {"open", "broken", "closed"}]
        /\ dialed' \in [Threads -> Socks \cup {NoConn}]
        /\ calls' = calls
    BY <1>3 DEF CheckClosing, DialOk, Sleep, FailedDial, DialFails, StartLoop,
                StartWaiting, EnterReconnect, EndReconnect, Poll, Abandon, Install, shared
  <2>3. attempt' \in [Threads -> Nat]
    BY <1>3 DEF CheckClosing, DialOk, Sleep, FailedDial, DialFails, StartLoop,
                StartWaiting, EnterReconnect, EndReconnect, Poll, Abandon, Install, TakeLoop
  <2>4. /\ handedOver' \in BOOLEAN
        /\ failures' \in [Threads -> Nat]
        /\ lastReport' \in [Threads -> Nat]
    <3>1. CASE UNCHANGED nmVars  BY <3>1 DEF nmVars
    <3>2. CASE FailedDial(t)  BY <3>2 DEF FailedDial, CountFailure, Report
    <3>3. CASE StartLoop(t)  BY <3>3 DEF StartLoop, ResetCounts
    <3>4. CASE EndReconnect(t)
      <4>1. /\ handedOver' = TRUE \/ handedOver' = handedOver
            /\ failures' = failures
            /\ lastReport' = lastReport \/ lastReport' = [lastReport EXCEPT ![t] = 1]
        BY <3>4, Zenon DEF EndReconnect, Report
      <4>2. lastReport' \in [Threads -> Nat]  BY <4>1
      <4>3. QED  BY <4>1, <4>2
    <3>5. QED  BY <1>3, <3>1, <3>2, <3>3, <3>4 DEF StartWaiting
  <2>5. QED  BY <2>1, <2>2, <2>3, <2>4 DEF Moved, Labels
<1>4. ASSUME NEW t \in Closers, Close(t), UNCHANGED nmVars PROVE Types'
  BY <1>4 DEF Close, locals, nmVars
<1>5. CASE Environment
  BY <1>5 DEF Environment, PeerDown, PeerUp, Dead, shared, locals, vars, nmVars
<1>6. CASE UNCHANGED allVars
  BY <1>6 DEF allVars, vars, shared, locals, nmVars
<1>7. Writers \subseteq Threads
  BY DEF Threads
<1>8. QED
  BY <1>1, <1>2, <1>3, <1>4, <1>5, <1>6, <1>7 DEF NMNext, NMStep, UseWrapper, Quiet

\* The types hold initially.
LEMMA TypesInit == NMInit => Types
BY DEF NMInit, InitWith, Types, NMTypeOK, Labels, Busy, InReconnect

\* The types of the manager (manager.go), whatever its callers do.
THEOREM NMTypeCorrect == NMSpec => []NMTypeOK
<1>1. Types => NMTypeOK  BY DEF Types
<1>2. QED  BY TypesInit, TypesStep, <1>1, PTL DEF NMSpec

-----------------------------------------------------------------------------
(* Counting the failed dials.  The hook and the loop counter agree until   *)
(* the counter reaches its bound; a limited loop never reaches it.         *)

Counted(t) ==
  /\ attempt[t] <= AttemptCap
  /\ pc[t] \in {"check", "dial", "connecting"} =>
       \/ failures[t] = attempt[t]
       \/ attempt[t] = AttemptCap /\ failures[t] = AttemptCap + 1
  /\ pc[t] \in {"sleep", "pausing"} =>
       failures[t] = attempt[t] + 1 /\ lastReport[t] = failures[t]

\* The two loops are never mixed.
OwnLoop(t) ==
  /\ pc[t] \in {"connecting", "pausing"} => t \in Connectors /\ mode = "Blocking"
  /\ t \in Connectors /\ mode = "Blocking" => pc[t] \in {"connecting", "pausing", "idle"}

Limited(t) ==
  MaxRetries # -1 =>
    /\ failures[t] <= IF mode = "Blocking" /\ t \in Connectors
                        THEN MaxRetries ELSE MaxRetries + 1
    /\ pc[t] \in {"check", "dial", "connecting"} => attempt[t] <= MaxRetries
    /\ pc[t] \in {"sleep", "pausing"} => attempt[t] < MaxRetries

CountInv == \A t \in Threads : Counted(t) /\ OwnLoop(t) /\ Limited(t)

\* The goroutines that do not move keep their counts.
LEMMA OthersCount ==
  ASSUME Types, CountInv, NEW t \in Threads, OneMoves(t), NEW u \in Threads \ {t}
  PROVE  (Counted(u) /\ OwnLoop(u) /\ Limited(u))'
<1>1. pc'[u] = pc[u]
  BY DEF OneMoves, Moved, Types, NMTypeOK
<1>2. QED  BY <1>1 DEF OneMoves, CountInv, Counted, OwnLoop, Limited

\* A step that leaves the retry loops disturbs no count of its own.
LEMMA OutsideCount ==
  ASSUME Types, CountInv, NEW t \in Threads, OneMoves(t),
         pc'[t] \notin {"check", "dial", "connecting", "sleep", "pausing"},
         attempt' = attempt, failures' = failures,
         t \in Connectors /\ mode = "Blocking" => pc'[t] = "idle"
  PROVE  (Counted(t) /\ OwnLoop(t) /\ Limited(t))'
BY DEF OneMoves, CountInv, Counted, OwnLoop, Limited

\* ConnectWithRetry keeps the counts of its goroutine.
LEMMA BlockingCount ==
  ASSUME Types, CountInv, NEW t \in Threads, ConnectWithRetry(t)
  PROVE  (Counted(t) /\ OwnLoop(t) /\ Limited(t))'
<1>1. OneMoves(t) /\ Counted(t) /\ OwnLoop(t) /\ Limited(t)
  BY BlockingMoves DEF CountInv
<1>2. CASE BlockingDialOk(t)
  <2>1. pc'[t] = "idle" /\ attempt' = attempt /\ failures' = failures
    BY <1>2 DEF BlockingDialOk, Return, Types, NMTypeOK
  <2>2. QED  BY <1>1, <2>1, OutsideCount
<1>3. CASE BlockingGivesUp(t)
  <2>1. pc'[t] = "idle" /\ attempt' = attempt /\ failures' = failures
    BY <1>3 DEF BlockingGivesUp, Return, Types, NMTypeOK
  <2>2. QED  BY <1>1, <2>1, OutsideCount
<1>4. CASE BlockingDialFails(t)
  <2>1. /\ pc[t] = "connecting" /\ pc'[t] = "pausing" /\ attempt' = attempt
        /\ lastReport'[t] = attempt[t] + 1
        /\ failures'[t] = IF failures[t] <= AttemptCap THEN failures[t] + 1
                                                       ELSE failures[t]
        /\ MaxRetries # -1 => attempt[t] < MaxRetries
    BY <1>4 DEF BlockingDialFails, At, LoopGoesOn, Goto, Report, CountFailure,
                Types, NMTypeOK
  <2>2. failures'[t] = attempt[t] + 1
    BY <1>1, <2>1, BoundsAssumption DEF Counted, Types, NMTypeOK
  <2>3. QED
    BY <1>1, <2>1, <2>2, RetriesAssumption
       DEF Counted, OwnLoop, Limited, OneMoves, Types, NMTypeOK
<1>5. CASE BlockingPause(t)
  <2>1. /\ pc[t] = "pausing" /\ pc'[t] = "connecting" /\ failures' = failures
        /\ attempt'[t] = IF attempt[t] < AttemptCap THEN attempt[t] + 1 ELSE attempt[t]
    BY <1>5 DEF BlockingPause, At, Goto, nmVars, Types, NMTypeOK
  <2>2. QED
    BY <1>1, <2>1, RetriesAssumption, BoundsAssumption
       DEF Counted, OwnLoop, Limited, OneMoves, Types, NMTypeOK
<1>6. QED  BY <1>2, <1>3, <1>4, <1>5 DEF ConnectWithRetry

\* reconnect() keeps them, its hook included.
LEMMA LoopCount ==
  ASSUME Types, CountInv, NEW t \in Threads,
         \/ (CheckClosing(t) \/ DialOk(t) \/ Sleep(t)) /\ UNCHANGED nmVars
         \/ FailedDial(t) \/ StartLoop(t) \/ StartWaiting(t)
         \/ EndReconnect(t)
  PROVE  (Counted(t) /\ OwnLoop(t) /\ Limited(t))'
<1>1. OneMoves(t) /\ Counted(t) /\ OwnLoop(t) /\ Limited(t)
  BY LoopMoves DEF CountInv
<1>2. ~(t \in Connectors /\ mode = "Blocking")
  BY <1>1 DEF OwnLoop, CheckClosing, DialOk, Sleep, FailedDial, DialFails, StartLoop,
              StartWaiting, EnterReconnect, Poll, EndReconnect, Abandon, Install, At
<1>3. CASE CheckClosing(t) /\ UNCHANGED nmVars
  <2>1. /\ pc[t] = "check" /\ pc'[t] \in {"abandon", "dial"}
        /\ attempt' = attempt /\ failures' = failures
    BY <1>3 DEF CheckClosing, At, Goto, nmVars, Types, NMTypeOK
  <2>2. QED  BY <1>1, <1>2, <2>1 DEF Counted, OwnLoop, Limited, OneMoves
<1>4. CASE DialOk(t) /\ UNCHANGED nmVars
  <2>1. pc'[t] = "install" /\ attempt' = attempt /\ failures' = failures
    BY <1>4 DEF DialOk, Goto, nmVars, Types, NMTypeOK
  <2>2. QED  BY <1>1, <1>2, <2>1, OutsideCount
<1>5. CASE Sleep(t) /\ UNCHANGED nmVars
  <2>1. /\ pc[t] = "sleep" /\ failures' = failures
        /\ \/ /\ pc'[t] = "check"
              /\ attempt'[t] = IF attempt[t] < AttemptCap THEN attempt[t] + 1
                                                          ELSE attempt[t]
           \/ pc'[t] = "abandon" /\ attempt' = attempt
    BY <1>5 DEF Sleep, At, Goto, nmVars, Types, NMTypeOK
  <2>2. QED
    BY <1>1, <1>2, <2>1, RetriesAssumption, BoundsAssumption
       DEF Counted, OwnLoop, Limited, OneMoves, Types, NMTypeOK
<1>6. CASE FailedDial(t)
  <2>1. /\ pc[t] = "dial" /\ attempt' = attempt
        /\ failures'[t] = IF failures[t] <= AttemptCap THEN failures[t] + 1
                                                       ELSE failures[t]
        /\ \/ pc'[t] = "abandon"
           \/ /\ pc'[t] = "sleep" /\ ~LastAttempt(attempt[t])
              /\ lastReport'[t] = attempt[t] + 1
    BY <1>6 DEF FailedDial, DialFails, At, Goto, CountFailure, Report, Types, NMTypeOK
  <2>2. failures'[t] = attempt[t] + 1
    BY <1>1, <2>1, BoundsAssumption DEF Counted, Types, NMTypeOK
  <2>3. MaxRetries # -1 => attempt[t] <= MaxRetries
    BY <1>1, <2>1 DEF Limited
  <2>4. QED
    BY <1>1, <1>2, <2>1, <2>2, <2>3, RetriesAssumption
       DEF Counted, OwnLoop, Limited, LastAttempt, OneMoves, Types, NMTypeOK
<1>7. CASE StartLoop(t)
  <2>1. pc'[t] = "check" /\ attempt'[t] = 0 /\ failures'[t] = 0
    BY <1>7 DEF StartLoop, EnterReconnect, Poll, TakeLoop, ReconnectOk, Goto, Return,
                ResetCounts, Types, NMTypeOK
  <2>2. QED
    BY <1>1, <1>2, <2>1, RetriesAssumption, BoundsAssumption
       DEF Counted, OwnLoop, Limited, OneMoves
<1>8. CASE StartWaiting(t)
  <2>1. pc'[t] = "wait" /\ attempt' = attempt /\ failures' = failures
    BY <1>8 DEF StartWaiting, EnterReconnect, TakeLoop, Goto, nmVars, Types, NMTypeOK
  <2>2. QED  BY <1>1, <1>2, <2>1, OutsideCount
<1>9. CASE EndReconnect(t)
  <2>1. pc'[t] \in {"send", "resend", "idle"}
    BY <1>9, ReconnectOkMoves
       DEF EndReconnect, Poll, Abandon, Install, TakeLoop, ReconnectErr, Goto, Return,
           Types, NMTypeOK
  <2>2. attempt' = attempt /\ failures' = failures
    BY <1>9 DEF EndReconnect, Poll, Abandon, Install, TakeLoop, Goto, Types, NMTypeOK
  <2>3. QED  BY <1>1, <1>2, <2>1, <2>2, OutsideCount
<1>10. QED  BY <1>3, <1>4, <1>5, <1>6, <1>7, <1>8, <1>9

\* A send keeps them.
LEMMA SendCount ==
  ASSUME Types, CountInv, NEW t \in Threads,
         \/ t \in Writers /\ Write(t)
         \/ SendAfterReconnect(t) \/ Resend(t),
         UNCHANGED nmVars
  PROVE  (Counted(t) /\ OwnLoop(t) /\ Limited(t))'
<1>1. OneMoves(t) /\ pc'[t] \in {"idle", "enter", "panicked"}
  BY SendMoves
<1>2. attempt' = attempt /\ failures' = failures
  BY DEF Write, SendAfterReconnect, Resend, nmVars
<1>3. ~(t \in Connectors /\ mode = "Blocking")
  BY ThreadsAssumption DEF CountInv, OwnLoop, SendAfterReconnect, Resend, At
<1>4. QED  BY <1>1, <1>2, <1>3, OutsideCount

\* Every step keeps the counts.
LEMMA CountStep == Types /\ CountInv /\ [NMNext]_allVars => CountInv'
<1> SUFFICES ASSUME Types, CountInv, [NMNext]_allVars PROVE CountInv'
  OBVIOUS
<1>1. ASSUME NEW t \in Threads, NMStep(t) PROVE CountInv'
  <2>1. CASE ConnectWithRetry(t)
    BY <2>1, BlockingMoves, BlockingCount, OthersCount DEF CountInv
  <2>2. CASE (SendAfterReconnect(t) \/ Resend(t)) /\ UNCHANGED nmVars
    BY <2>2, SendMoves, SendCount, OthersCount DEF CountInv
  <2>3. CASE \/ (CheckClosing(t) \/ DialOk(t) \/ Sleep(t)) /\ UNCHANGED nmVars
             \/ FailedDial(t) \/ StartLoop(t) \/ StartWaiting(t)
             \/ EndReconnect(t)
    BY <2>3, LoopMoves, LoopCount, OthersCount DEF CountInv
  <2>4. QED  BY <1>1, <2>1, <2>2, <2>3 DEF NMStep, Quiet
<1>2. ASSUME NEW t \in Writers, Write(t), UNCHANGED nmVars PROVE CountInv'
  <2>1. t \in Threads  BY DEF Threads
  <2>2. QED  BY <1>2, <2>1, SendMoves, SendCount, OthersCount DEF CountInv
<1>3. ASSUME UNCHANGED <<locals, nmVars>> PROVE CountInv'
  BY <1>3 DEF locals, nmVars, CountInv, Counted, OwnLoop, Limited
<1>4. CASE UseWrapper
  BY <1>2, <1>3, <1>4 DEF UseWrapper, Close
<1>5. CASE Environment
  BY <1>3, <1>5 DEF Environment, PeerDown, PeerUp, Dead, vars
<1>6. CASE UNCHANGED allVars
  BY <1>3, <1>6 DEF allVars, vars
<1>7. QED  BY <1>1, <1>4, <1>5, <1>6 DEF NMNext

\* The counts are right initially.
LEMMA CountInit == NMInit => CountInv
BY RetriesAssumption, BoundsAssumption
   DEF NMInit, InitWith, CountInv, Counted, OwnLoop, Limited

\* The types and the counts are right always.
LEMMA CountInvariant == NMSpec => [](Types /\ CountInv)
BY TypesInit, TypesStep, CountInit, CountStep, PTL DEF NMSpec

\* A goroutine that is about to pause has told the hook of every failure, in both
\* retry loops (manager.go:133, connection.go:200).
THEOREM HookCounts == NMSpec => []HookKeepsCount
<1>1. CountInv => HookKeepsCount
  BY DEF CountInv, Counted, HookKeepsCount
<1>2. QED  BY CountInvariant, <1>1, PTL

\* ConnectWithRetry never dials more often than MaxRetries (manager.go:122), whoever
\* else dials.
THEOREM DialsBounded == NMSpec => []DialBudget
<1>1. CountInv => DialBudget
  BY DEF CountInv, Limited, DialBudget, Threads
<1>2. QED  BY CountInvariant, <1>1, PTL

-----------------------------------------------------------------------------
(* One writer, one connecting goroutine, and a mode that waits: there is   *)
(* never more than one goroutine inside, and it dials only when nothing is *)
(* installed, so that no socket is overwritten.                            *)

Waits == mode # "NonBlocking"

Active == Busy \cup {"connecting", "pausing"}
InLoop == InReconnect \cup {"connecting", "pausing"}

OneInside ==
  /\ \A t, u \in Threads : pc[t] \in Active /\ pc[u] \in Active => t = u
  /\ \A t \in Threads : pc[t] \in Active =>
       t \in IF handedOver THEN Writers ELSE Connectors

ConnectorsConnect ==
  \A g \in Connectors : ret[g] = "connect" /\ pc[g] \notin {"send", "resend"}

NothingToLose ==
  /\ \A t \in Threads : pc[t] \in InLoop => currentConn = NoConn
  /\ \A t \in Threads : pc[t] # "install" => dialed[t] = NoConn
  /\ NoSocketLost

OneUserInv == Waits => OneInside /\ ConnectorsConnect /\ NothingToLose

SingleUser ==
  /\ \A v, w \in Writers : v = w
  /\ \A g, h \in Connectors : g = h

\* The goroutine that moves stays inside, or leaves; the hand-over is its own.
LEMMA InsideStep ==
  ASSUME Types, CountInv, OneUserInv, Waits, NEW t \in Threads, NMStep(t)
  PROVE  OneInside' /\ ConnectorsConnect' /\ OneMoves(t) /\ pc[t] \in Active
<1>1. OneMoves(t)
  BY BlockingMoves, SendMoves, LoopMoves DEF NMStep, Quiet
<1>2. pc[t] \in Active
  BY DEF NMStep, ConnectWithRetry, BlockingDialOk, BlockingDialFails, BlockingPause,
         BlockingGivesUp, Quiet, SendAfterReconnect, Resend, CheckClosing, DialOk, Sleep,
         FailedDial, DialFails, StartLoop, StartWaiting, EnterReconnect, EndReconnect,
         Poll, Abandon, Install, At, Active, Busy, InReconnect
<1>3. \/ handedOver' = handedOver
      \/ t \in Connectors /\ pc'[t] = "idle"
  <2>1. CASE ConnectWithRetry(t)
    <3>1. t \in Connectors
      BY <2>1 DEF ConnectWithRetry, BlockingDialOk, BlockingDialFails, BlockingPause,
                  BlockingGivesUp, At, CountInv, OwnLoop
    <3>2. QED
      BY <2>1, <3>1 DEF ConnectWithRetry, BlockingDialOk, BlockingDialFails,
                        BlockingPause, BlockingGivesUp, Return, nmVars, Types, NMTypeOK
  <2>2. CASE EndReconnect(t)
    <3>1. CASE t \in Connectors
      <4>1. ret[t] = "connect"
        BY <3>1 DEF OneUserInv, ConnectorsConnect
      <4>2. Return(t, "ok") \/ Return(t, "failed")
        BY <2>2, <4>1 DEF EndReconnect, Poll, Abandon, Install, TakeLoop, ReconnectErr,
                          ReconnectOk, Goto, Types, NMTypeOK
      <4>3. QED  BY <3>1, <4>2 DEF Return, Types, NMTypeOK
    <3>2. CASE t \notin Connectors
      BY <2>2, <3>2 DEF EndReconnect
    <3>3. QED  BY <3>1, <3>2
  <2>3. CASE Quiet(t) \/ FailedDial(t) \/ StartLoop(t) \/ StartWaiting(t)
    BY <2>3 DEF Quiet, FailedDial, StartLoop, StartWaiting, nmVars
  <2>4. QED  BY <2>1, <2>2, <2>3 DEF NMStep
<1>4. \A u \in Threads \ {t} : pc'[u] = pc[u] /\ pc[u] \notin Active
  BY <1>1, <1>2 DEF OneMoves, Moved, Types, NMTypeOK, OneUserInv, OneInside
<1>5. OneInside'
  <2>1. \A u \in Threads : pc'[u] \in Active => u = t
    BY <1>4
  <2>2. pc'[t] \in Active => handedOver' = handedOver
    BY <1>3 DEF Active, Busy, InReconnect
  <2>3. pc'[t] \in Active => t \in IF handedOver' THEN Writers ELSE Connectors
    BY <1>2, <2>2 DEF OneUserInv, OneInside
  <2>4. QED  BY <2>1, <2>3 DEF OneInside
<1>6. ASSUME t \in Connectors
      PROVE  ret'[t] = "connect" /\ pc'[t] \notin {"send", "resend"}
  <2>1. ret[t] = "connect" /\ pc[t] \notin {"send", "resend"}
    BY <1>6 DEF OneUserInv, ConnectorsConnect
  <2>2. CASE ConnectWithRetry(t)
    BY <2>1, <2>2 DEF ConnectWithRetry, BlockingDialOk, BlockingDialFails,
                      BlockingPause, BlockingGivesUp, Return, Goto, Types, NMTypeOK
  <2>3. CASE Quiet(t) \/ FailedDial(t)
    BY <2>1, <2>3 DEF Quiet, FailedDial, SendAfterReconnect, Resend, CheckClosing, DialOk,
                      DialFails, Sleep, At, Goto, Types, NMTypeOK
  <2>4. CASE StartLoop(t) \/ StartWaiting(t)
    BY <2>1, <2>4 DEF StartLoop, StartWaiting, EnterReconnect, Poll, TakeLoop,
                      ReconnectOk, Goto, Return, Types, NMTypeOK
  <2>5. CASE EndReconnect(t)
    <3>1. Return(t, "ok") \/ Return(t, "failed")
      BY <2>1, <2>5 DEF EndReconnect, Poll, Abandon, Install, TakeLoop, ReconnectErr,
                        ReconnectOk, Goto, Types, NMTypeOK
    <3>2. QED  BY <2>1, <3>1 DEF Return, Types, NMTypeOK
  <2>6. QED  BY <2>2, <2>3, <2>4, <2>5 DEF NMStep
<1>7. ConnectorsConnect'
  <2>1. ASSUME NEW g \in Connectors, g # t
        PROVE  ret'[g] = ret[g] /\ pc'[g] = pc[g]
    <3>1. g \in Threads  BY DEF Threads
    <3>2. ret' = ret \/ \E from \in {"first", "retry"} : CallReconnect(t, from)
      BY DEF NMStep, ConnectWithRetry, BlockingDialOk, BlockingDialFails, BlockingPause,
             BlockingGivesUp, Quiet, SendAfterReconnect, Resend, TrySend, CheckClosing,
             DialOk, Sleep, FailedDial, DialFails, StartLoop, StartWaiting,
             EnterReconnect, EndReconnect, Poll, Abandon, Install, TakeLoop, ReconnectOk,
             ReconnectErr, Goto, Return, Types
    <3>3. QED  BY <1>4, <2>1, <3>1, <3>2 DEF CallReconnect, Types
  <2>2. QED  BY <1>6, <2>1 DEF OneUserInv, ConnectorsConnect
<1>8. QED  BY <1>1, <1>2, <1>5, <1>7

\* Sockets: a step that dials, installs, fails or gives up loses none.
LEMMA NothingLostStep ==
  ASSUME Types, CountInv, OneUserInv, Waits, NEW t \in Threads, NMStep(t)
  PROVE  NothingToLose'
<1>1. OneMoves(t) /\ pc[t] \in Active
  BY InsideStep
<1>2. \A u \in Threads \ {t} : /\ pc'[u] = pc[u] /\ dialed'[u] = dialed[u]
                               /\ pc[u] \notin Active
  BY <1>1 DEF OneMoves, Moved, Types, NMTypeOK, OneUserInv, OneInside
<1>3. /\ \A u \in Threads \ {t} : dialed[u] = NoConn
      /\ pc[t] \in InLoop => currentConn = NoConn
      /\ pc[t] # "install" => dialed[t] = NoConn
      /\ \A s \in Socks : sock[s] # "closed" => s = currentConn \/ s = dialed[t]
  <2>1. \A u \in Threads \ {t} : dialed[u] = NoConn
    BY <1>2 DEF OneUserInv, NothingToLose, Active, Busy, InReconnect
  <2>2. QED
    BY <2>1, NoConnAssumption DEF OneUserInv, NothingToLose, NoSocketLost
\* It is enough to look at the goroutine that moves.
<1> DEFINE Safe == /\ pc'[t] \in InLoop => currentConn' = NoConn
                   /\ pc'[t] # "install" => dialed'[t] = NoConn
                   /\ \A s \in Socks : sock'[s] # "closed" =>
                        s = currentConn' \/ s = dialed'[t]
<1>4. ASSUME Safe PROVE NothingToLose'
  <2>1. \A u \in Threads \ {t} : pc'[u] \notin InLoop
    BY <1>2 DEF Active, Busy, InLoop
  <2>2. \A u \in Threads \ {t} : dialed'[u] = NoConn
    BY <1>2, <1>3
  <2>3. QED  BY <1>4, <2>1, <2>2 DEF NothingToLose, NoSocketLost
<1>5. CASE ConnectWithRetry(t)
  <2>1. CASE BlockingDialOk(t)
    <3>1. PICK s \in Socks : /\ sock' = [sock EXCEPT ![s] = "open"]
                             /\ currentConn' = s
      BY <2>1 DEF BlockingDialOk
    <3>2. /\ pc[t] = "connecting" /\ pc'[t] = "idle" /\ dialed' = dialed
      BY <2>1 DEF BlockingDialOk, At, Return, Types, NMTypeOK
    <3>3. Safe
      BY <1>3, <3>1, <3>2, NoConnAssumption DEF InLoop, InReconnect, Types
    <3>4. QED  BY <1>4, <3>3
  <2>2. CASE BlockingDialFails(t) \/ BlockingPause(t) \/ BlockingGivesUp(t)
    <3>1. /\ pc[t] \in {"connecting", "pausing"}
          /\ pc'[t] \in {"connecting", "pausing", "idle"}
          /\ currentConn' = currentConn /\ sock' = sock /\ dialed' = dialed
      BY <2>2 DEF BlockingDialFails, BlockingPause, BlockingGivesUp, At, Goto, Return,
                  shared, Types, NMTypeOK
    <3>2. Safe  BY <1>3, <3>1 DEF InLoop
    <3>3. QED  BY <1>4, <3>2
  <2>3. QED  BY <1>5, <2>1, <2>2 DEF ConnectWithRetry
<1>6. CASE SendAfterReconnect(t) \/ Resend(t)
  <2>1. pc[t] \in {"send", "resend"} /\ dialed' = dialed
    BY <1>6 DEF SendAfterReconnect, Resend, At
  <2>2. \/ /\ pc'[t] \in {"idle", "panicked"}
           /\ currentConn' = currentConn /\ sock' = sock
        \/ /\ pc'[t] = "enter" /\ currentConn' = NoConn
           /\ currentConn \in Socks
           /\ sock' = [sock EXCEPT ![currentConn] = "closed"]
    BY <1>6 DEF SendAfterReconnect, Resend, TrySend, Goto, Return, CallReconnect, shared,
                Types, NMTypeOK
  <2>3. Safe
    BY <1>3, <2>1, <2>2 DEF InLoop, InReconnect, Types
  <2>4. QED  BY <1>4, <2>3
<1>7. CASE CheckClosing(t) \/ Sleep(t) \/ FailedDial(t)
  <2>1. /\ pc[t] \in {"check", "sleep", "dial"}
        /\ pc'[t] \in {"check", "dial", "sleep", "abandon"}
        /\ currentConn' = currentConn /\ sock' = sock /\ dialed' = dialed
    BY <1>7 DEF CheckClosing, Sleep, FailedDial, DialFails, At, Goto, shared, Types, NMTypeOK
  <2>2. Safe  BY <1>3, <2>1 DEF InLoop, InReconnect
  <2>3. QED  BY <1>4, <2>2
<1>8. CASE DialOk(t)
  <2>1. PICK s \in Socks : /\ sock' = [sock EXCEPT ![s] = "open"]
                           /\ dialed' = [dialed EXCEPT ![t] = s]
    BY <1>8 DEF DialOk
  <2>2. pc[t] = "dial" /\ pc'[t] = "install" /\ currentConn' = currentConn
    BY <1>8 DEF DialOk, At, Goto, Types, NMTypeOK
  <2>3. Safe
    BY <1>3, <2>1, <2>2, NoConnAssumption DEF InLoop, InReconnect, Types
  <2>4. QED  BY <1>4, <2>3
<1>9. CASE StartLoop(t) \/ StartWaiting(t)
  <2>1. /\ pc[t] \in {"enter", "wait"} /\ pc'[t] \in {"check", "wait"}
        /\ currentConn' = currentConn /\ sock' = sock /\ dialed' = dialed
    BY <1>9 DEF StartLoop, StartWaiting, EnterReconnect, Poll, At
  <2>2. Safe  BY <1>3, <2>1 DEF InLoop, InReconnect
  <2>3. QED  BY <1>4, <2>2
<1>10. CASE EndReconnect(t)
  <2>1. CASE Poll(t)
    <3>1. pc[t] = "wait" /\ currentConn = NoConn
      BY <1>3, <2>1 DEF Poll, At, InLoop, InReconnect
    <3>2. pc'[t] = "check"
      BY <2>1, <3>1 DEF Poll, TakeLoop, Goto, Types, NMTypeOK
    <3>3. QED  BY <1>10, <3>2 DEF EndReconnect
  <2>2. CASE Abandon(t)
    <3>1. /\ pc[t] = "abandon" /\ pc'[t] = "idle"
          /\ currentConn' = currentConn /\ sock' = sock /\ dialed' = dialed
      BY <2>2 DEF Abandon, ReconnectErr, Return, At, Types, NMTypeOK
    <3>2. Safe  BY <1>3, <3>1 DEF InLoop, InReconnect
    <3>3. QED  BY <1>4, <3>2
  <2>3. CASE Install(t)
    <3>1. /\ pc[t] = "install" /\ dialed'[t] = NoConn
          /\ pc'[t] \in {"send", "resend", "idle"}
      BY <2>3, ReconnectOkMoves
         DEF Install, At, ReconnectErr, Return, Types, NMTypeOK
    <3>2. \/ /\ currentConn' = currentConn
             /\ sock' = [sock EXCEPT ![dialed[t]] = "closed"]
          \/ currentConn' = dialed[t] /\ sock' = sock
      BY <2>3 DEF Install
    <3>3. currentConn = NoConn
      BY <1>3, <3>1 DEF InLoop, InReconnect
    <3>4. Safe
      BY <1>3, <3>1, <3>2, <3>3, NoConnAssumption DEF InLoop, InReconnect, Types
    <3>5. QED  BY <1>4, <3>4
  <2>4. QED  BY <1>10, <2>1, <2>2, <2>3 DEF EndReconnect
<1>11. QED
  BY <1>5, <1>6, <1>7, <1>8, <1>9, <1>10 DEF NMStep, Quiet

\* The one writer enters when nobody else is inside.
LEMMA WriteKeepsUser ==
  ASSUME Types, OneUserInv, Waits, SingleUser, handedOver,
         NEW w \in Writers, Write(w), UNCHANGED nmVars
  PROVE  OneInside' /\ ConnectorsConnect' /\ NothingToLose'
<1>1. w \in Threads /\ w \notin Connectors
  BY ThreadsAssumption DEF Threads
<1>2. OneMoves(w) /\ pc'[w] \in {"idle", "enter", "panicked"} /\ pc[w] = "idle"
  BY <1>1, SendMoves DEF Write, At
<1>3. \A u \in Threads \ {w} : pc'[u] = pc[u] /\ pc[u] \notin Active
  BY <1>1, <1>2
     DEF OneMoves, Moved, Types, NMTypeOK, OneUserInv, OneInside, SingleUser
<1>4. handedOver' = handedOver
  BY DEF nmVars
<1>5. OneInside'
  BY <1>1, <1>3, <1>4 DEF OneInside
<1>6. ConnectorsConnect'
  <2>1. ASSUME NEW g \in Connectors PROVE pc'[g] = pc[g] /\ ret'[g] = ret[g]
    <3>1. g \in Threads /\ g # w  BY <1>1 DEF Threads
    <3>2. ret' = ret \/ \E from \in {"first", "retry"} : CallReconnect(w, from)
      BY DEF Write, TrySend, Return
    <3>3. QED  BY <1>3, <3>1, <3>2 DEF CallReconnect, Types
  <2>2. QED  BY <2>1 DEF OneUserInv, ConnectorsConnect
<1>7. /\ dialed' = dialed
      /\ \/ pc'[w] = "idle" /\ currentConn' = currentConn /\ sock' = sock
         \/ /\ pc'[w] = "enter" /\ currentConn = NoConn
            /\ currentConn' = currentConn /\ sock' = sock
         \/ /\ pc'[w] = "enter" /\ currentConn' = NoConn /\ currentConn \in Socks
            /\ sock' = [sock EXCEPT ![currentConn] = "closed"]
  BY <1>1 DEF Write, TrySend, Return, CallReconnect, Types, NMTypeOK
<1>8. \A u \in Threads : pc'[u] \in InLoop => u = w
  BY <1>3 DEF Active, Busy, InLoop
<1>9. \A u \in Threads : dialed[u] = NoConn
  BY <1>2, <1>3 DEF OneUserInv, NothingToLose, Active, Busy, InReconnect
<1>10. NoSocketLost'
  BY <1>7, <1>9, NoConnAssumption
     DEF OneUserInv, NothingToLose, NoSocketLost, Types
<1>11. \A u \in Threads : pc'[u] \in InLoop => currentConn' = NoConn
  BY <1>7, <1>8 DEF InLoop, InReconnect
<1>12. NothingToLose'
  BY <1>7, <1>9, <1>10, <1>11 DEF NothingToLose
<1>13. QED  BY <1>5, <1>6, <1>12

\* Every step of a wrapper with a single user.
LEMMA UserStep ==
  SingleUser /\ Types /\ CountInv /\ OneUserInv /\ [NMNext]_allVars => OneUserInv'
<1> SUFFICES ASSUME SingleUser, Types, CountInv, OneUserInv, [NMNext]_allVars, Waits'
             PROVE  OneInside' /\ ConnectorsConnect' /\ NothingToLose'
  BY DEF OneUserInv
<1>1. ASSUME NEW t \in Threads, NMStep(t)
      PROVE  OneInside' /\ ConnectorsConnect' /\ NothingToLose'
  <2>1. Waits
    BY <1>1, BlockingMoves, SendMoves, LoopMoves DEF NMStep, Quiet, OneMoves, Waits
  <2>2. QED  BY <1>1, <2>1, InsideStep, NothingLostStep
<1>2. ASSUME NEW w \in Writers, handedOver, Write(w), UNCHANGED nmVars
      PROVE  OneInside' /\ ConnectorsConnect' /\ NothingToLose'
  <2>1. Waits  BY <1>2 DEF nmVars, Waits
  <2>2. QED  BY <1>2, <2>1, WriteKeepsUser
<1>3. ASSUME UNCHANGED <<locals, nmVars, currentConn>>,
             \A s \in Socks : sock'[s] # "closed" => sock[s] # "closed"
      PROVE  OneInside' /\ ConnectorsConnect' /\ NothingToLose'
  <2>1. OneInside /\ ConnectorsConnect /\ NothingToLose
    BY <1>3 DEF OneUserInv, Waits, nmVars
  <2>2. OneInside' /\ ConnectorsConnect'
    BY <1>3, <2>1 DEF OneInside, ConnectorsConnect, locals, nmVars
  <2>3. NothingToLose'
    BY <1>3, <2>1 DEF NothingToLose, NoSocketLost, locals
  <2>4. QED  BY <2>2, <2>3
<1>4. CASE UseWrapper
  <2>1. ASSUME NEW t \in Closers, Close(t), UNCHANGED nmVars
        PROVE  OneInside' /\ ConnectorsConnect' /\ NothingToLose'
    <3>1. UNCHANGED <<locals, nmVars, currentConn>>
      BY <2>1 DEF Close
    <3>2. \A s \in Socks : sock'[s] # "closed" => sock[s] # "closed"
      BY <2>1 DEF Close, Types
    <3>3. QED  BY <1>3, <3>1, <3>2
  <2>2. QED  BY <1>2, <1>4, <2>1 DEF UseWrapper
<1>5. CASE Environment
  <2>1. UNCHANGED <<locals, nmVars, currentConn>>
    BY <1>5 DEF Environment, PeerDown, PeerUp, Dead, vars, shared
  <2>2. \A s \in Socks : sock'[s] # "closed" => sock[s] # "closed"
    BY <1>5 DEF Environment, PeerDown, PeerUp, Dead, vars, shared, Types
  <2>3. QED  BY <1>3, <2>1, <2>2
<1>6. CASE UNCHANGED allVars
  BY <1>3, <1>6 DEF allVars, vars, shared
<1>7. QED  BY <1>1, <1>4, <1>5, <1>6 DEF NMNext

\* A single user loses nothing initially.
LEMMA UserInit == SingleUser /\ NMInit => OneUserInv
<1> SUFFICES ASSUME SingleUser, NMInit, Waits
             PROVE  OneInside /\ ConnectorsConnect /\ NothingToLose
  BY DEF OneUserInv
<1>1. handedOver = FALSE
  BY DEF NMInit, Waits
<1>2. \A t \in Threads : pc[t] \in Active => t \in Connectors
  BY DEF NMInit, InitWith, Active, Busy, InReconnect
<1>3. OneInside
  BY <1>1, <1>2 DEF OneInside, SingleUser
<1>4. ConnectorsConnect
  <2>1. \A g \in Connectors : g \in Threads  BY DEF Threads
  <2>2. QED  BY <2>1 DEF ConnectorsConnect, NMInit, InitWith
<1>5. NothingToLose
  BY DEF NothingToLose, NoSocketLost, NMInit, InitWith
<1>6. QED  BY <1>3, <1>4, <1>5

\* With a single writer and a Connect that waits (manager.go:43, Blocking and
\* Indefinite) no descriptor is ever lost, which fails with two users.
THEOREM OneUserKeepsSockets ==
  ASSUME SingleUser
  PROVE  NMSpec => []OneUserLosesNothing
<1>1. NMInit => OneUserInv
  BY UserInit
<1>2. Types /\ CountInv /\ OneUserInv /\ [NMNext]_allVars => OneUserInv'
  BY UserStep
<1>3. OneUserInv => OneUserLosesNothing
  BY DEF OneUserInv, OneUserLosesNothing, Waits, NothingToLose
<1>4. QED  BY CountInvariant, <1>1, <1>2, <1>3, PTL DEF NMSpec

-----------------------------------------------------------------------------
(* Giving up.  Nobody closes a wrapper before Connect has handed it over,  *)
(* so a goroutine of Connect that leaves its loop without a connection has *)
(* dialed as often as it may.                                              *)

Spent(t) == MaxRetries # -1 /\ failures[t] >= MaxRetries

Earned(t) ==
  /\ pc[t] = "install" => dialed[t] # NoConn
  /\ pc[t] = "abandon" /\ ~closing => Spent(t)

SurrenderInv ==
  /\ ~handedOver => ~closing
  /\ \A t \in Threads : Earned(t)

\* Nothing but a Close closes the wrapper, and it takes a wrapper handed over.
LEMMA ClosedAfterHandOver ==
  ASSUME [NMNext]_allVars
  PROVE  /\ closing' = closing \/ (handedOver /\ closing')
         /\ handedOver' = handedOver \/ handedOver'
<1>1. ASSUME NEW t \in Threads, NMStep(t)
      PROVE  closing' = closing /\ (handedOver' = handedOver \/ handedOver')
  BY <1>1 DEF NMStep, ConnectWithRetry, BlockingDialOk, BlockingDialFails, BlockingPause,
              BlockingGivesUp, Quiet, SendAfterReconnect, Resend, CheckClosing, DialOk,
              Sleep, FailedDial, DialFails, StartLoop, StartWaiting, EnterReconnect,
              EndReconnect, Poll, Abandon, Install, shared, nmVars
<1>2. CASE UseWrapper
  BY <1>2 DEF UseWrapper, Write, Close, nmVars
<1>3. CASE Environment
  BY <1>3 DEF Environment, PeerDown, PeerUp, Dead, vars, shared, nmVars
<1>4. CASE UNCHANGED allVars
  BY <1>4 DEF allVars, vars, shared, nmVars
<1>5. QED  BY <1>1, <1>2, <1>3, <1>4 DEF NMNext

\* A goroutine that comes to its exit with nothing has dialed often enough.
LEMMA EarnedByMoving ==
  ASSUME Types, CountInv, SurrenderInv, NEW t \in Threads, NMStep(t),
         closing' = closing
  PROVE  Earned(t)'
<1>1. Earned(t) /\ Counted(t)
  BY DEF SurrenderInv, CountInv
<1>2. CASE ConnectWithRetry(t) \/ SendAfterReconnect(t) \/ Resend(t)
  <2>1. pc'[t] \notin {"install", "abandon"}
    BY <1>2 DEF ConnectWithRetry, BlockingDialOk, BlockingDialFails, BlockingPause,
                BlockingGivesUp, SendAfterReconnect, Resend, TrySend, Goto, Return,
                CallReconnect, Types, NMTypeOK
  <2>2. QED  BY <2>1 DEF Earned
<1>3. CASE CheckClosing(t) \/ Sleep(t)
  <2>1. pc'[t] # "install" /\ (pc'[t] = "abandon" => closing)
    BY <1>3 DEF CheckClosing, Sleep, Goto, Types, NMTypeOK
  <2>2. QED  BY <2>1 DEF Earned
<1>4. CASE DialOk(t)
  <2>1. pc'[t] = "install" /\ dialed'[t] # NoConn
    BY <1>4, NoConnAssumption DEF DialOk, Goto, Types, NMTypeOK
  <2>2. QED  BY <2>1 DEF Earned
<1>5. CASE FailedDial(t)
  <2>1. /\ pc[t] = "dial" /\ pc'[t] # "install"
        /\ pc'[t] = "abandon" => LastAttempt(attempt[t])
        /\ failures'[t] = IF failures[t] <= AttemptCap THEN failures[t] + 1
                                                       ELSE failures[t]
    BY <1>5 DEF FailedDial, DialFails, At, Goto, CountFailure, Types, NMTypeOK
  <2>2. failures'[t] >= attempt[t]
    BY <1>1, <2>1, BoundsAssumption DEF Counted, Types, NMTypeOK
  <2>3. LastAttempt(attempt[t]) => MaxRetries # -1 /\ failures'[t] >= MaxRetries
    BY <2>1, <2>2, RetriesAssumption, BoundsAssumption DEF LastAttempt, Types, NMTypeOK
  <2>4. QED  BY <2>1, <2>3 DEF Earned, Spent
<1>6. CASE StartLoop(t) \/ StartWaiting(t) \/ EndReconnect(t)
  <2>1. pc'[t] \in {"check", "wait", "send", "resend", "idle"}
    BY <1>6, ReconnectOkMoves
       DEF StartLoop, StartWaiting, EndReconnect, EnterReconnect, Poll, Abandon, Install,
           TakeLoop, ReconnectErr, Goto, Return, Types, NMTypeOK
  <2>2. QED  BY <2>1 DEF Earned
<1>7. QED  BY <1>2, <1>3, <1>4, <1>5, <1>6 DEF NMStep, Quiet

\* Every step keeps the exits earned.
LEMMA SurrenderStep ==
  Types /\ CountInv /\ SurrenderInv /\ [NMNext]_allVars => SurrenderInv'
<1> SUFFICES ASSUME Types, CountInv, SurrenderInv, [NMNext]_allVars
             PROVE  \A t \in Threads : Earned(t)'
  BY ClosedAfterHandOver DEF SurrenderInv
<1>1. closing' = closing \/ closing'
  BY ClosedAfterHandOver
\* Whoever does not move, or enters the wrapper, is where it was or not at an exit.
<1>2. ASSUME NEW u \in Threads, pc'[u] = pc[u] \/ pc'[u] \notin {"install", "abandon"},
             dialed'[u] = dialed[u], failures'[u] = failures[u]
      PROVE  Earned(u)'
  BY <1>1, <1>2 DEF SurrenderInv, Earned, Spent
<1>3. ASSUME NEW t \in Threads, OneMoves(t), NEW u \in Threads \ {t}
      PROVE  Earned(u)'
  <2>1. pc'[u] = pc[u] /\ dialed'[u] = dialed[u] /\ failures'[u] = failures[u]
    BY <1>3 DEF OneMoves, Moved, Types, NMTypeOK
  <2>2. QED  BY <1>2, <2>1
<1>4. ASSUME NEW t \in Threads, NMStep(t) PROVE \A u \in Threads : Earned(u)'
  <2>1. OneMoves(t)
    BY <1>4, BlockingMoves, SendMoves, LoopMoves DEF NMStep, Quiet
  <2>2. closing' = closing
    BY <1>4 DEF NMStep, ConnectWithRetry, BlockingDialOk, BlockingDialFails,
                BlockingPause, BlockingGivesUp, Quiet, SendAfterReconnect, Resend,
                CheckClosing, DialOk, Sleep, FailedDial, DialFails, StartLoop,
                StartWaiting, EnterReconnect, EndReconnect, Poll, Abandon, Install, shared
  <2>3. QED  BY <1>3, <1>4, <2>1, <2>2, EarnedByMoving
<1>5. ASSUME NEW w \in Writers, Write(w), UNCHANGED nmVars
      PROVE  \A u \in Threads : Earned(u)'
  <2>1. w \in Threads  BY DEF Threads
  <2>2. OneMoves(w) /\ pc'[w] \in {"idle", "enter", "panicked"}
    BY <1>5, <2>1, SendMoves
  <2>3. dialed' = dialed /\ failures' = failures
    BY <1>5 DEF Write, nmVars
  <2>4. Earned(w)'  BY <1>2, <2>1, <2>2, <2>3
  <2>5. QED  BY <1>3, <2>1, <2>2, <2>4
<1>6. ASSUME UNCHANGED <<locals, nmVars>> PROVE \A u \in Threads : Earned(u)'
  BY <1>2, <1>6 DEF locals, nmVars
<1>7. CASE UseWrapper
  BY <1>5, <1>6, <1>7 DEF UseWrapper, Close
<1>8. CASE Environment
  BY <1>6, <1>8 DEF Environment, PeerDown, PeerUp, Dead, vars
<1>9. CASE UNCHANGED allVars
  BY <1>6, <1>9 DEF allVars, vars
<1>10. QED  BY <1>4, <1>7, <1>8, <1>9 DEF NMNext

\* Nobody is at an exit at first, and nothing is closed.
LEMMA SurrenderInit == NMInit => SurrenderInv
BY DEF NMInit, InitWith, SurrenderInv, Earned

\* Always: the types, the counts, and the exits earned.
LEMMA SurrenderInvariant == NMSpec => [](Types /\ CountInv /\ SurrenderInv)
BY CountInvariant, SurrenderInit, SurrenderStep, PTL DEF NMSpec

\* The step that hands the wrapper over brings a connection, or is the last of a
\* loop that has dialed as often as it may.
LEMMA HandOver ==
  ASSUME Types, CountInv, SurrenderInv, [NMNext]_allVars, ~handedOver, handedOver'
  PROVE  \/ currentConn' # NoConn
         \/ \E g \in Connectors :
              Spent(g)' /\ (mode = "Blocking" => failures'[g] = MaxRetries)
<1>1. PICK g \in Threads : NMStep(g)
  BY DEF NMNext, UseWrapper, Environment, allVars, nmVars
<1>2. Counted(g) /\ OwnLoop(g) /\ Limited(g) /\ Earned(g) /\ ~closing
  BY DEF CountInv, SurrenderInv
<1>3. CASE ConnectWithRetry(g)
  <2>1. BlockingDialOk(g) => currentConn' # NoConn
    BY NoConnAssumption DEF BlockingDialOk
  <2>2. CASE BlockingGivesUp(g)
    <3>1. /\ g \in Connectors /\ failures' = failures /\ failures[g] >= attempt[g]
          /\ ~LoopGoesOn(attempt[g])
      BY <1>2, <2>2, BoundsAssumption
         DEF BlockingGivesUp, At, OwnLoop, Counted, Types, NMTypeOK
    <3>2. Spent(g)'
      BY <3>1, RetriesAssumption DEF LoopGoesOn, Spent, Types, NMTypeOK
    <3>3. mode = "Blocking" => failures[g] <= MaxRetries
      BY <1>2, <3>1, RetriesAssumption DEF Limited, LoopGoesOn
    <3>4. mode = "Blocking" => failures'[g] = MaxRetries
      BY <3>1, <3>2, <3>3, RetriesAssumption DEF Spent, Types, NMTypeOK
    <3>5. QED  BY <3>1, <3>2, <3>4
  <2>3. QED
    BY <1>3, <2>1, <2>2
       DEF ConnectWithRetry, BlockingDialFails, BlockingPause, nmVars
<1>4. CASE EndReconnect(g)
  <2>1. g \in Connectors /\ failures' = failures
    BY <1>4 DEF EndReconnect
  <2>2. CASE Poll(g)
    BY <1>4, <2>2 DEF EndReconnect, Poll, TakeLoop, Goto, Types, NMTypeOK
  <2>3. CASE Abandon(g)
    <3>1. Spent(g)
      BY <1>2, <2>3 DEF Abandon, At, Earned
    <3>2. mode # "Blocking"
      BY <1>2, <2>1, <2>3 DEF Abandon, At, OwnLoop
    <3>3. QED  BY <2>1, <3>1, <3>2 DEF Spent
  <2>4. CASE Install(g)
    BY <1>2, <2>4 DEF Install, At, Earned
  <2>5. QED  BY <1>4, <2>2, <2>3, <2>4 DEF EndReconnect
<1>5. CASE Quiet(g) \/ FailedDial(g) \/ StartLoop(g) \/ StartWaiting(g)
  BY <1>5 DEF Quiet, FailedDial, StartLoop, StartWaiting, nmVars
<1>6. QED  BY <1>1, <1>3, <1>4, <1>5 DEF NMStep

\* One goroutine runs Connect, as in manager.go:174: in ModeBlocking it hands over
\* an unconnected wrapper exactly when its MaxRetries attempts have failed, whatever
\* MaxRetries is.
THEOREM SurrenderIsLate ==
  ASSUME \A g, h \in Connectors : g = h
  PROVE  NMSpec => NoEarlySurrender
<1>1. /\ Types /\ CountInv /\ SurrenderInv /\ [NMNext]_allVars
      => (mode = "Blocking" /\ ~handedOver /\ handedOver' =>
            \/ currentConn' # NoConn
            \/ MaxRetries # -1 /\ \A g \in Connectors : failures'[g] = MaxRetries)
  BY HandOver DEF Spent
<1>2. QED  BY SurrenderInvariant, <1>1, PTL DEF NMSpec, NoEarlySurrender

\* Without a limit on the retries ModeIndefinite keeps the promise of its comment
\* (manager.go:42): the wrapper it returns is connected.
THEOREM UnlimitedIsConnected ==
  ASSUME MaxRetries = -1
  PROVE  NMSpec => IndefiniteMeansConnected
<1>1. /\ Types /\ CountInv /\ SurrenderInv /\ [NMNext]_allVars
      => (mode = "Indefinite" /\ ~handedOver /\ handedOver' => currentConn' # NoConn)
  BY HandOver DEF Spent
<1>2. QED  BY SurrenderInvariant, <1>1, PTL DEF NMSpec, IndefiniteMeansConnected

-----------------------------------------------------------------------------
(* The wrapper inside                                                      *)

\* Nobody is in the loop of ConnectWithRetry.
NoOwnLoop ==
  /\ mode # "Blocking"
  /\ \A t \in Threads : pc[t] \notin {"connecting", "pausing"}

\* Where the steps of the wrapper lead.
LEMMA StaysInWrapper ==
  ASSUME Types, NoOwnLoop, NEW t \in Threads, Step(t) \/ Write(t), mode' = mode
  PROVE  NoOwnLoop'
<1> DEFINE Places == Busy \cup {"idle", "panicked"}
<1>1. \/ \E l \in Places : Goto(t, l)
      \/ \E from \in {"first", "retry"} : CallReconnect(t, from)
      \/ \E r \in {"ok", "failed"} : Return(t, r)
  <2>1. CASE Write(t) \/ SendAfterReconnect(t) \/ Resend(t)
    BY <2>1 DEF Write, SendAfterReconnect, Resend, TrySend
  <2>2. CASE Poll(t) \/ Install(t) \/ Abandon(t)
    <3>1. ReconnectOk(t) => \/ \E l \in Places : Goto(t, l)
                            \/ Return(t, "ok")
      BY DEF ReconnectOk, Types, Busy
    <3>2. TakeLoop(t) => \E l \in Places : Goto(t, l)
      BY DEF TakeLoop, Busy, InReconnect
    <3>3. QED  BY <2>2, <3>1, <3>2 DEF Poll, Install, Abandon, ReconnectErr
  <2>3. CASE EnterReconnect(t) \/ CheckClosing(t) \/ DialOk(t) \/ DialFails(t) \/ Sleep(t)
    BY <2>3 DEF EnterReconnect, TakeLoop, CheckClosing, DialOk, DialFails, Sleep, Busy,
                InReconnect
  <2>4. QED  BY <2>1, <2>2, <2>3 DEF Step
<1>2. \E l \in Places : pc' = [pc EXCEPT ![t] = l]
  BY <1>1 DEF Goto, CallReconnect, Return, Busy, InReconnect
<1>3. \A l \in Places : l \notin {"connecting", "pausing"}
  BY DEF Busy, InReconnect
<1>4. QED  BY <1>2, <1>3 DEF NoOwnLoop, Types, NMTypeOK

\* Whatever the hook and the hand-over add, a step is one of the wrapper alone.
LEMMA WrapperStep ==
  Types /\ NoOwnLoop /\ [NMNext]_allVars => NoOwnLoop' /\ [Next]_vars
<1> SUFFICES ASSUME Types, NoOwnLoop, [NMNext]_allVars
             PROVE  NoOwnLoop' /\ [Next]_vars
  OBVIOUS
<1>1. ASSUME NEW t \in Threads, NMStep(t) PROVE NoOwnLoop' /\ Next
  <2>1. ~ConnectWithRetry(t)
    BY DEF NoOwnLoop, ConnectWithRetry, BlockingDialOk, BlockingDialFails, BlockingPause,
           BlockingGivesUp, At
  <2>2. Step(t) /\ mode' = mode
    BY <1>1, <2>1 DEF NMStep, Quiet, FailedDial, StartLoop, StartWaiting, EndReconnect,
                      Step, nmVars
  <2>3. QED  BY <2>2, StaysInWrapper DEF Next
<1>2. CASE UseWrapper
  <2>1. ASSUME NEW t \in Writers, Write(t) PROVE NoOwnLoop' /\ Next
    BY <1>2, <2>1, StaysInWrapper DEF UseWrapper, nmVars, Next, Threads
  <2>2. ASSUME NEW t \in Closers, Close(t) PROVE NoOwnLoop' /\ Next
    BY <1>2, <2>2 DEF UseWrapper, nmVars, Next, Close, locals, NoOwnLoop
  <2>3. QED  BY <1>2, <2>1, <2>2 DEF UseWrapper
<1>3. CASE Environment \/ UNCHANGED allVars
  BY <1>3 DEF Environment, Next, PeerDown, PeerUp, Dead, NoOwnLoop, allVars, nmVars, vars,
              locals
<1>4. QED  BY <1>1, <1>2, <1>3 DEF NMNext

\* In the two modes that connect with reconnect(), Connect and its users make the
\* wrapper do nothing it would not do by itself (manager.go:149, 163): what is proved
\* of ManagedConnection, its refinement of ResilientLink included, holds of the
\* wrapper that Connect has created.
THEOREM ConnectUsesTheWrapper == NMSpec /\ mode # "Blocking" => Spec
<1>1. NMInit /\ mode # "Blocking" => Init /\ NoOwnLoop
  BY DEF NMInit, Init, InitWith, NoOwnLoop
<1>2. NMSpec => []Types
  BY CountInvariant, PTL
<1>3. QED  BY <1>1, <1>2, WrapperStep, PTL DEF NMSpec, Spec
=============================================================================
