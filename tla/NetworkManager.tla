--------------------------- MODULE NetworkManager ---------------------------
(***************************************************************************)
(* The Go NetworkManager of src/go/pkg/conn_manager/manager.go: Connect in *)
(* its three modes, composed with the wrapper it creates, and the OnError  *)
(* hook every loop calls.  The one goroutine of Connectors runs Connect:   *)
(*                                                                         *)
(*   Blocking     ConnectWithRetry's own loop, on a wrapper nobody has yet *)
(*                (pc = connecting: loop test and dial; pausing: its sleep)*)
(*   NonBlocking  the wrapper is handed over at once, reconnect() runs in  *)
(*                the background                                           *)
(*   Indefinite   reconnect() runs, then the wrapper is handed over        *)
(*                                                                         *)
(* Writers and closers have the wrapper once it is handed over.            *)
(***************************************************************************)
EXTENDS ManagedConnection

CONSTANT Modes   \* the connection modes used

ASSUME ModesAssumption ==
  /\ Modes \subseteq {"Blocking", "NonBlocking", "Indefinite"}
  /\ Modes # {}

VARIABLES
  mode,        \* the mode Connect was called with
  handedOver,  \* Connect has returned the wrapper
  failures,    \* per goroutine: failed dials of its current or last loop
  lastReport   \* per goroutine: attempt number of the last OnError call, or 0

nmVars  == <<mode, handedOver, failures, lastReport>>
allVars == <<vars, nmVars>>

-----------------------------------------------------------------------------
(* The hook.                                                               *)

\* OnError(n, ...); both loops number the attempt i + 1.
Report(t, n) == lastReport' = [lastReport EXCEPT ![t] = n]

CountFailure(t) ==
  failures' = [failures EXCEPT ![t] = IF @ <= AttemptCap THEN @ + 1 ELSE @]

\* Mutant: a new loop starts below zero.
ResetCountsBelowZero(t) ==
  /\ failures' = [failures EXCEPT ![t] = -1]
  /\ lastReport' = [lastReport EXCEPT ![t] = -1]

ResetCounts(t) ==
  /\ failures' = [failures EXCEPT ![t] = 0]
  /\ lastReport' = [lastReport EXCEPT ![t] = 0]

-----------------------------------------------------------------------------
(* ConnectWithRetry                                                        *)

\* Mutants: one attempt too many, one too few, no limit at all.
LoopGoesOnOnceMore(i) == MaxRetries = -1 \/ i <= MaxRetries
LoopGoesOnOnceLess(i) == MaxRetries = -1 \/ i + 1 < MaxRetries
LoopGoesOnForEver(i) == TRUE

LoopGoesOn(i) == MaxRetries = -1 \/ i < MaxRetries

BlockingDialOk(g) ==
  /\ At(g, "connecting")
  /\ LoopGoesOn(attempt[g])
  /\ peerUp
  /\ \E s \in Socks : /\ Unused(s)
                      /\ sock' = [sock EXCEPT ![s] = "open"]
                      /\ currentConn' = s
  /\ Return(g, "ok")
  /\ handedOver' = TRUE
  /\ UNCHANGED <<reconnecting, closing, env, attempt, dialed, calls,
                 mode, failures, lastReport>>

BlockingDialFails(g) ==
  /\ At(g, "connecting")
  /\ LoopGoesOn(attempt[g])
  /\ ~peerUp
  /\ CountFailure(g)
  /\ Report(g, attempt[g] + 1)
  /\ Goto(g, "pausing")
  /\ UNCHANGED <<shared, env, attempt, dialed, calls, mode, handedOver>>

\* time.Sleep, also after the last attempt.
BlockingPause(g) ==
  /\ At(g, "pausing")
  /\ attempt' = [attempt EXCEPT ![g] = IF @ < AttemptCap THEN @ + 1 ELSE @]
  /\ Goto(g, "connecting")
  /\ UNCHANGED <<shared, env, dialed, calls, nmVars>>

\* The loop is over: Connect hands over a new, unconnected wrapper.
BlockingGivesUp(g) ==
  /\ At(g, "connecting")
  /\ ~LoopGoesOn(attempt[g])
  /\ Return(g, "failed")
  /\ handedOver' = TRUE
  /\ UNCHANGED <<shared, env, attempt, dialed, calls, mode, failures, lastReport>>

ConnectWithRetry(g) ==
  \/ BlockingDialOk(g)
  \/ BlockingDialFails(g)
  \/ BlockingPause(g)
  \/ BlockingGivesUp(g)

-----------------------------------------------------------------------------
(* reconnect(), seen from the manager                                      *)

\* The steps of the wrapper that neither call the hook nor end a reconnect().
Quiet(t) ==
  /\ \/ SendAfterReconnect(t)
     \/ Resend(t)
     \/ CheckClosing(t)
     \/ DialOk(t)
     \/ Sleep(t)
  /\ UNCHANGED nmVars

\* Mutant: the hook gets the loop counter as it is.
FailedDialFromZero(t) ==
  /\ DialFails(t)
  /\ CountFailure(t)
  /\ IF LastAttempt(attempt[t]) THEN UNCHANGED lastReport
                                ELSE Report(t, attempt[t])
  /\ UNCHANGED <<mode, handedOver>>

\* Line 192 returns before the hook of line 200 is reached.
FailedDial(t) ==
  /\ DialFails(t)
  /\ CountFailure(t)
  /\ IF LastAttempt(attempt[t]) THEN UNCHANGED lastReport
                                ELSE Report(t, attempt[t] + 1)
  /\ UNCHANGED <<mode, handedOver>>

StartLoop(t) ==
  /\ EnterReconnect(t) \/ Poll(t)
  /\ pc'[t] = "check"
  /\ ResetCounts(t)
  /\ UNCHANGED <<mode, handedOver>>

StartWaiting(t) ==
  /\ EnterReconnect(t)
  /\ pc'[t] = "wait"
  /\ UNCHANGED nmVars

\* reconnect() returns.  ConnectBlocking and the goroutine of
\* ConnectNonBlocking report its error as attempt 1; both then have the
\* wrapper handed over.
EndReconnect(t) ==
  /\ Poll(t) \/ Abandon(t) \/ Install(t)
  /\ pc'[t] # "check"
  /\ IF t \in Connectors
       THEN /\ handedOver' = TRUE
            /\ IF result'[t] = "failed" THEN Report(t, 1)
                                        ELSE UNCHANGED lastReport
       ELSE UNCHANGED <<handedOver, lastReport>>
  /\ UNCHANGED <<mode, failures>>

-----------------------------------------------------------------------------

NMInit ==
  /\ mode \in Modes
  /\ handedOver = (mode = "NonBlocking")
  /\ failures = [t \in Threads |-> 0]
  /\ lastReport = [t \in Threads |-> 0]
  /\ InitWith(IF mode = "Blocking" THEN "connecting" ELSE "enter")

NMStep(t) ==
  \/ ConnectWithRetry(t)
  \/ Quiet(t)
  \/ FailedDial(t)
  \/ StartLoop(t)
  \/ StartWaiting(t)
  \/ EndReconnect(t)

UseWrapper ==
  /\ handedOver
  /\ \/ \E t \in Writers : Write(t)
     \/ \E t \in Closers : Close(t)
  /\ UNCHANGED nmVars

Environment == (PeerDown \/ PeerUp \/ Dead) /\ UNCHANGED nmVars

NMNext ==
  \/ \E t \in Threads : NMStep(t)
  \/ UseWrapper
  \/ Environment

NMSpec == NMInit /\ [][NMNext]_allVars

NMFairSpec == NMSpec /\ \A t \in Threads : WF_allVars(NMStep(t))

-----------------------------------------------------------------------------
(* Properties                                                              *)

\* Every variable has a value of its type.
NMTypeOK ==
  /\ mode \in Modes
  /\ handedOver \in BOOLEAN
  /\ failures \in [Threads -> Nat]
  /\ lastReport \in [Threads -> Nat]
  /\ pc \in [Threads -> Busy \cup {"idle", "panicked", "connecting", "pausing"}]

\* A goroutine that sleeps before its next attempt has told the hook of every
\* failure so far, numbered from 1 without a gap, in both retry loops.
HookKeepsCount ==
  \A t \in Threads :
    pc[t] \in {"sleep", "pausing"} => lastReport[t] = failures[t]

\* One user after the other loses no descriptor: as long as Connect waits before
\* it hands the wrapper to a single writer, every descriptor that is not closed
\* is installed or about to be.
OneUserLosesNothing == mode # "NonBlocking" => NoSocketLost

\* ConnectWithRetry stays within its budget: "MaxRetries is the maximum number of
\* connection attempts" (manager.go:49).
DialBudget ==
  mode = "Blocking" /\ MaxRetries # -1 =>
    \A g \in Connectors : failures[g] <= MaxRetries

\* Nor does it give up early: "ModeBlocking blocks until connection is successful
\* (or MaxRetries reached)" (manager.go:38).  The wrapper it hands over has a
\* connection, or all of its attempts, and no more, have failed.
NoEarlySurrender ==
  [][mode = "Blocking" /\ ~handedOver /\ handedOver' =>
       \/ currentConn' # NoConn
       \/ MaxRetries # -1 /\ \A g \in Connectors : failures'[g] = MaxRetries
    ]_allVars

\* Connect comes back: once the peer stays reachable in every mode, and in
\* ModeBlocking with a limit (manager.go:38) whatever the peer does.
ConnectReturns ==
  (mode = "Blocking" /\ MaxRetries # -1) \/ <>[]peerUp => <>handedOver

\* "ModeIndefinite blocks indefinitely until connection is successful"
\* (manager.go:42): the wrapper it returns is connected.
IndefiniteMeansConnected ==
  [][mode = "Indefinite" /\ ~handedOver /\ handedOver' =>
       currentConn' # NoConn]_allVars

\* "MaxRetries is the maximum number of connection attempts" (manager.go:49), of
\* every retry loop.
AttemptsWithinMaximum ==
  MaxRetries # -1 => \A t \in Threads : failures[t] <= MaxRetries
=============================================================================
