------------------------- MODULE ManagedConnection -------------------------
(***************************************************************************)
(* The Go connection wrapper of src/go/pkg/conn_manager/connection.go: one *)
(* ManagedConnection value shared by several goroutines.                   *)
(*                                                                         *)
(* Writers run Write, Closers Close; Connectors run reconnect() alone, as the *)
(* goroutine started by ConnectNonBlocking does.  The wrapper's mutex is   *)
(* released around every reconnect(), so one action stands for one section *)
(* of code that holds the mutex, or for one call made without it (the      *)
(* dial, the retry sleep).  The names of the control points are:           *)
(*                                                                         *)
(*   idle      outside the wrapper                                         *)
(*   enter     reconnect() called, mutex not yet taken (line 129)          *)
(*   wait      in the polling loop of a second reconnect() (139-154)       *)
(*   check     top of the retry loop (165)                                 *)
(*   dial      about to call EstablishConnection (172)                     *)
(*   install   a dial succeeded, mutex not yet taken (174)                 *)
(*   sleep     in the back-off select (207)                                *)
(*   abandon   about to clear `reconnecting` and return an error           *)
(*   send      reconnect() returned nil to the first send (62)             *)
(*   resend    reconnect() returned nil to the retry (77)                  *)
(*   panicked  dereferenced a nil connection: the process has died         *)
(*                                                                         *)
(* The transport (safe-socket) is external: sockets are identities with a  *)
(* status, and the peer's reachability decides what a dial or a send does. *)
(***************************************************************************)
EXTENDS Integers

CONSTANTS
  Writers,      \* goroutines that call Write
  Closers,      \* goroutines that call Close
  Connectors,   \* goroutines that only run reconnect()
  Socks,        \* socket descriptors
  NoConn,       \* the nil connection
  MaxRetries,   \* NetworkManager.MaxRetries; -1 for no limit
  MaxCalls,     \* bound: Write calls of one writer
  MaxOutages,   \* bound: times the peer goes away
  AttemptCap    \* bound: the loop counter stops counting here

Threads == Writers \cup Closers \cup Connectors

ASSUME ThreadsAssumption == (Writers \cup Closers) \cap Connectors = {}
ASSUME NoConnAssumption  == NoConn \notin Socks
ASSUME RetriesAssumption == MaxRetries \in Nat \cup {-1}
ASSUME BoundsAssumption  ==
  /\ MaxCalls \in Nat
  /\ MaxOutages \in Nat
  /\ AttemptCap \in Nat
  /\ AttemptCap > MaxRetries + 1   \* the bound never hides a missed give-up

VARIABLES
  currentConn,   \* the installed connection, or NoConn
  reconnecting,  \* some goroutine owns the retry loop
  closing,       \* the closing channel has been closed
  sock,          \* status of every descriptor: open, broken (peer lost), closed
  peerUp,        \* environment: the peer accepts connections
  outages,       \* environment: how often the peer went away
  pc,            \* control point of every goroutine
  ret,           \* who called reconnect(): first send, retry, or connect
  attempt,       \* i, the counter of the retry loop
  dialed,        \* conn, the result of the last successful dial
  result,        \* what the last Write returned
  calls          \* how many Write calls were made

shared == <<currentConn, reconnecting, closing, sock>>
env    == <<peerUp, outages>>
locals == <<pc, ret, attempt, dialed, result, calls>>
vars   == <<shared, env, locals>>

InReconnect == {"enter", "wait", "check", "dial", "install", "sleep", "abandon"}
OwnsLoop    == {"check", "dial", "install", "sleep", "abandon"}
Busy        == InReconnect \cup {"send", "resend"}

Panicked == \E t \in Threads : pc[t] = "panicked"

-----------------------------------------------------------------------------
(* Control-flow helpers: each of the last five sets pc, ret and result.    *)

\* A panic takes the whole process down: nobody is anywhere any more.
At(t, label) == ~Panicked /\ pc[t] = label

Goto(t, label) ==
  /\ pc' = [pc EXCEPT ![t] = label]
  /\ UNCHANGED <<ret, result>>

\* The goroutine calls reconnect(); `from` is the place it returns to.
CallReconnect(t, from) ==
  /\ pc' = [pc EXCEPT ![t] = "enter"]
  /\ ret' = [ret EXCEPT ![t] = from]
  /\ UNCHANGED result

\* Write returns to its caller.
Return(t, r) ==
  /\ pc' = [pc EXCEPT ![t] = "idle"]
  /\ result' = [result EXCEPT ![t] = r]
  /\ UNCHANGED ret

\* reconnect() returns nil to the place it was called from.
ReconnectOk(t) ==
  CASE ret[t] = "first"   -> Goto(t, "send")
    [] ret[t] = "retry"   -> Goto(t, "resend")
    [] ret[t] = "connect" -> Return(t, "ok")

\* reconnect() returns an error, which Write and the connector pass on.
ReconnectErr(t) == Return(t, "failed")

-----------------------------------------------------------------------------
(* Write                                                                   *)

\* The send of line 65 and its error branch, with the mutex held and a
\* connection installed.  A broken connection may still buffer the data.
TrySend(t) ==
  /\ currentConn # NoConn
  /\ \/ /\ sock[currentConn] # "closed"
        /\ Return(t, "ok")
        /\ UNCHANGED <<currentConn, sock>>
     \/ /\ sock[currentConn] # "open"
        /\ sock' = [sock EXCEPT ![currentConn] = "closed"]
        /\ currentConn' = NoConn
        /\ CallReconnect(t, "retry")

Write(t) ==
  /\ At(t, "idle")
  /\ calls[t] < MaxCalls
  /\ calls' = [calls EXCEPT ![t] = @ + 1]
  /\ \/ /\ currentConn = NoConn
        /\ CallReconnect(t, "first")
        /\ UNCHANGED <<currentConn, sock>>
     \/ TrySend(t)
  /\ UNCHANGED <<reconnecting, closing, env, attempt, dialed>>

\* Back from the first reconnect(): the mutex is taken again and the
\* connection used without a second look at it.
SendAfterReconnect(t) ==
  /\ At(t, "send")
  /\ \/ /\ currentConn = NoConn
        /\ Goto(t, "panicked")
        /\ UNCHANGED <<currentConn, sock>>
     \/ TrySend(t)
  /\ UNCHANGED <<reconnecting, closing, env, attempt, dialed, calls>>

\* Mutant: the retry without its nil check reports success.
ResendUnchecked(t) ==
  /\ At(t, "resend")
  /\ Return(t, "ok")
  /\ UNCHANGED <<shared, env, attempt, dialed, calls>>

\* Back from the second reconnect(): the one retry.  Its error is returned as
\* it is, and the connection stays installed.
Resend(t) ==
  /\ At(t, "resend")
  /\ \/ /\ currentConn = NoConn
        /\ Return(t, "failed")
     \/ /\ currentConn # NoConn
        /\ sock[currentConn] # "closed"
        /\ Return(t, "ok")
     \/ /\ currentConn # NoConn
        /\ sock[currentConn] # "open"
        /\ Return(t, "failed")
  /\ UNCHANGED <<shared, env, attempt, dialed, calls>>

-----------------------------------------------------------------------------
(* Close                                                                   *)

\* Close leaves the closed connection installed.
Close(t) ==
  /\ At(t, "idle")
  /\ closing' = TRUE
  /\ sock' = IF currentConn = NoConn THEN sock
             ELSE [sock EXCEPT ![currentConn] = "closed"]
  /\ UNCHANGED <<currentConn, reconnecting, env, locals>>

-----------------------------------------------------------------------------
(* reconnect                                                               *)

TakeLoop(t) ==
  /\ reconnecting' = TRUE
  /\ attempt' = [attempt EXCEPT ![t] = 0]
  /\ Goto(t, "check")

\* Mutant: nobody looks at the flag.
EnterIgnoringFlag(t) ==
  /\ At(t, "enter")
  /\ TakeLoop(t)
  /\ UNCHANGED <<currentConn, closing, sock, env, dialed, calls>>

EnterReconnect(t) ==
  /\ At(t, "enter")
  /\ \/ /\ reconnecting
        /\ Goto(t, "wait")
        /\ UNCHANGED <<reconnecting, attempt>>
     \/ /\ ~reconnecting
        /\ TakeLoop(t)
  /\ UNCHANGED <<currentConn, closing, sock, env, dialed, calls>>

\* One useful poll of the waiting loop; a poll that finds nothing new sleeps
\* and changes no state.
Poll(t) ==
  /\ At(t, "wait")
  /\ \/ /\ currentConn # NoConn
        /\ ReconnectOk(t)
        /\ UNCHANGED <<reconnecting, attempt>>
     \/ /\ currentConn = NoConn
        /\ ~reconnecting
        /\ TakeLoop(t)
  /\ UNCHANGED <<currentConn, closing, sock, env, dialed, calls>>

CheckClosing(t) ==
  /\ At(t, "check")
  /\ Goto(t, IF closing THEN "abandon" ELSE "dial")
  /\ UNCHANGED <<shared, env, attempt, dialed, calls>>

\* A descriptor nobody refers to.
Unused(s) ==
  /\ sock[s] = "closed"
  /\ s # currentConn
  /\ \A t \in Threads : dialed[t] # s

\* Mutant: the dial stores its result in the wrapper, without the mutex.
DialOkInstalls(t) ==
  /\ At(t, "dial")
  /\ peerUp
  /\ \E s \in Socks :
       /\ Unused(s)
       /\ sock' = [sock EXCEPT ![s] = "open"]
       /\ dialed' = [dialed EXCEPT ![t] = s]
       /\ currentConn' = s
  /\ Goto(t, "install")
  /\ UNCHANGED <<reconnecting, closing, env, attempt, calls>>

DialOk(t) ==
  /\ At(t, "dial")
  /\ peerUp
  /\ \E s \in Socks :
       /\ Unused(s)
       /\ sock' = [sock EXCEPT ![s] = "open"]
       /\ dialed' = [dialed EXCEPT ![t] = s]
  /\ Goto(t, "install")
  /\ UNCHANGED <<currentConn, reconnecting, closing, env, attempt, calls>>

\* Mutant: the test for "no limit" inverted.
LastAttemptInverted(i) == MaxRetries = -1 /\ i >= MaxRetries

LastAttempt(i) == MaxRetries # -1 /\ i >= MaxRetries

DialFails(t) ==
  /\ At(t, "dial")
  /\ ~peerUp \/ \A s \in Socks : ~Unused(s)
  /\ Goto(t, IF LastAttempt(attempt[t]) THEN "abandon" ELSE "sleep")
  /\ UNCHANGED <<shared, env, attempt, dialed, calls>>

\* Mutant: the loop counts down.
SleepCountsDown(t) ==
  /\ At(t, "sleep")
  /\ attempt' = [attempt EXCEPT ![t] = @ - 1]
  /\ Goto(t, "check")
  /\ UNCHANGED <<shared, env, dialed, calls>>

\* The select of the back-off: the timer fires, or the channel is closed;
\* when both are ready either branch may be taken.
Sleep(t) ==
  /\ At(t, "sleep")
  /\ \/ /\ attempt' = [attempt EXCEPT ![t] = IF @ < AttemptCap THEN @ + 1 ELSE @]
        /\ Goto(t, "check")
     \/ /\ closing
        /\ Goto(t, "abandon")
        /\ UNCHANGED attempt
  /\ UNCHANGED <<shared, env, dialed, calls>>

\* Mutant: an error exit leaves the flag set.
AbandonKeepsFlag(t) ==
  /\ At(t, "abandon")
  /\ ReconnectErr(t)
  /\ UNCHANGED <<shared, env, attempt, dialed, calls>>

\* The three error exits: clear the flag under the mutex, then return.
Abandon(t) ==
  /\ At(t, "abandon")
  /\ reconnecting' = FALSE
  /\ ReconnectErr(t)
  /\ UNCHANGED <<currentConn, closing, sock, env, attempt, dialed, calls>>

\* Mutants: the exit does not look at `closing`; it keeps the flag; it leaves
\* the socket it discards open.
InstallAfterClose(t) ==
  /\ At(t, "install")
  /\ reconnecting' = FALSE
  /\ dialed' = [dialed EXCEPT ![t] = NoConn]
  /\ currentConn' = dialed[t]
  /\ ReconnectOk(t)
  /\ UNCHANGED <<closing, sock, env, attempt, calls>>

InstallKeepsFlag(t) ==
  /\ At(t, "install")
  /\ ~closing
  /\ dialed' = [dialed EXCEPT ![t] = NoConn]
  /\ currentConn' = dialed[t]
  /\ ReconnectOk(t)
  /\ UNCHANGED <<reconnecting, closing, sock, env, attempt, calls>>

InstallLeavesOpen(t) ==
  /\ At(t, "install")
  /\ reconnecting' = FALSE
  /\ dialed' = [dialed EXCEPT ![t] = NoConn]
  /\ IF closing
       THEN ReconnectErr(t) /\ UNCHANGED currentConn
       ELSE ReconnectOk(t) /\ currentConn' = dialed[t]
  /\ UNCHANGED <<closing, sock, env, attempt, calls>>

\* The success exit.  A wrapper closed during the dial discards the socket;
\* otherwise the socket replaces whatever is installed.
Install(t) ==
  /\ At(t, "install")
  /\ reconnecting' = FALSE
  /\ dialed' = [dialed EXCEPT ![t] = NoConn]
  /\ \/ /\ closing
        /\ sock' = [sock EXCEPT ![dialed[t]] = "closed"]
        /\ ReconnectErr(t)
        /\ UNCHANGED currentConn
     \/ /\ ~closing
        /\ currentConn' = dialed[t]
        /\ ReconnectOk(t)
        /\ UNCHANGED sock
  /\ UNCHANGED <<closing, env, attempt, calls>>

-----------------------------------------------------------------------------
(* The environment: the peer goes away, breaking every open socket, and    *)
(* comes back.                                                             *)

PeerDown ==
  /\ peerUp
  /\ outages < MaxOutages
  /\ peerUp' = FALSE
  /\ outages' = outages + 1
  /\ sock' = [s \in Socks |-> IF sock[s] = "open" THEN "broken" ELSE sock[s]]
  /\ UNCHANGED <<currentConn, reconnecting, closing, locals>>

PeerUp ==
  /\ ~peerUp
  /\ peerUp' = TRUE
  /\ UNCHANGED <<shared, outages, locals>>

-----------------------------------------------------------------------------

\* NewManagedConnection, with the connecting goroutines at `label`.
InitWith(label) ==
  /\ currentConn = NoConn
  /\ reconnecting = FALSE
  /\ closing = FALSE
  /\ sock = [s \in Socks |-> "closed"]
  /\ peerUp \in BOOLEAN
  /\ outages = 0
  /\ pc = [t \in Threads |-> IF t \in Connectors THEN label ELSE "idle"]
  /\ ret = [t \in Threads |-> IF t \in Connectors THEN "connect" ELSE "first"]
  /\ attempt = [t \in Threads |-> 0]
  /\ dialed = [t \in Threads |-> NoConn]
  /\ result = [t \in Threads |-> "none"]
  /\ calls = [t \in Threads |-> 0]

Init == InitWith("enter")

\* What a goroutine inside the wrapper does next.
Step(t) ==
  \/ SendAfterReconnect(t)
  \/ Resend(t)
  \/ EnterReconnect(t)
  \/ Poll(t)
  \/ CheckClosing(t)
  \/ DialOk(t)
  \/ DialFails(t)
  \/ Sleep(t)
  \/ Abandon(t)
  \/ Install(t)

Dead == Panicked /\ UNCHANGED vars

Next ==
  \/ \E t \in Writers : Write(t)
  \/ \E t \in Closers : Close(t)
  \/ \E t \in Threads : Step(t)
  \/ PeerDown
  \/ PeerUp
  \/ Dead

Spec == Init /\ [][Next]_vars

\* Goroutines are scheduled: one that can take a step inside the wrapper does.
\* Nobody is obliged to call Write or Close, and the peer to come back.
Fairness == \A t \in Threads : WF_vars(Step(t))

FairSpec == Spec /\ Fairness

-----------------------------------------------------------------------------
(* Invariants                                                              *)

\* Every variable has a value of its type.
TypeOK ==
  /\ currentConn \in Socks \cup {NoConn}
  /\ reconnecting \in BOOLEAN
  /\ closing \in BOOLEAN
  /\ sock \in [Socks -> {"open", "broken", "closed"}]
  /\ peerUp \in BOOLEAN
  /\ outages \in Nat
  /\ pc \in [Threads -> Busy \cup {"idle", "panicked"}]
  /\ ret \in [Threads -> {"first", "retry", "connect"}]
  /\ attempt \in [Threads -> Nat]
  /\ dialed \in [Threads -> Socks \cup {NoConn}]
  /\ result \in [Threads -> {"none", "ok", "failed"}]
  /\ calls \in [Threads -> Nat]

\* The flag `reconnecting` works as a lock although the mutex is released for
\* the whole of the retry loop: at most one goroutine dials for this wrapper,
\* and the flag is never left set with nobody in the loop (which would make
\* every later reconnect() poll for ever).
OneReconnector ==
  /\ \A t, u \in Threads :
       pc[t] \in OwnsLoop /\ pc[u] \in OwnsLoop => t = u
  /\ reconnecting <=> \E t \in Threads : pc[t] \in OwnsLoop

\* A closed wrapper holds no usable socket: the one installed at Close is
\* closed, and a dial that was under way at Close is not installed after it.
ClosedHoldsNothing ==
  closing /\ currentConn # NoConn => sock[currentConn] = "closed"

\* A socket obtained by a dial is in the hands of one goroutine or installed:
\* the installed socket is not also about to be installed again or discarded
\* by a dialing goroutine.
DialedIsPrivate ==
  \A t \in Threads :
    /\ (dialed[t] # NoConn) <=> (pc[t] = "install")
    /\ dialed[t] # NoConn => /\ dialed[t] # currentConn
                             /\ sock[dialed[t]] # "closed"

\* Every descriptor that is not closed is reachable: installed, or about to be.
\* It takes a wrapper with one user at a time, see NetworkManager.
NoSocketLost ==
  \A s \in Socks : sock[s] # "closed" =>
    s = currentConn \/ \E t \in Threads : dialed[t] = s

-----------------------------------------------------------------------------
(* Liveness                                                                *)

InWrite(t) == pc[t] \in Busy

\* Close stops the reconnection loop: whatever the peer does, and even with
\* unlimited retries, every goroutine that is inside the wrapper when it is
\* closed, or enters it later, comes out again.
CloseReleasesEveryone ==
  \A t \in Threads : (closing /\ InWrite(t)) ~> (~InWrite(t) \/ Panicked)

\* With a limit on the retries no call of the wrapper blocks for ever, also
\* when it waits for the retry loop of another goroutine that gives up.
LimitedRetriesReturn ==
  MaxRetries # -1 =>
    \A t \in Threads : InWrite(t) ~> (~InWrite(t) \/ Panicked)

\* With unlimited retries a call returns once the peer stays reachable.
StablePeerReturns ==
  <>[]peerUp => \A t \in Threads : InWrite(t) ~> (~InWrite(t) \/ Panicked)

-----------------------------------------------------------------------------
(* What the wrapper promises, see ResilientLink.                           *)

LinkState ==
  IF closing THEN "closed" ELSE IF currentConn = NoConn THEN "down" ELSE "up"

CallState ==
  [w \in Writers |-> IF pc[w] = "idle" THEN result[w] ELSE "busy"]

Link == INSTANCE ResilientLink WITH
          Clients <- Writers, link <- LinkState, call <- CallState

\* The wrapper implements the resilient link: no Write is acknowledged by a
\* closed wrapper, a closed wrapper never comes back, and a Write that neither
\* found the connection missing nor had it fail under it does not fail.
ImplementsLink == Link!Spec

-----------------------------------------------------------------------------
(* Claims of the repository's documentation that the code does not keep.   *)

\* "Write sends data over the connection, automatically reconnecting if
\* needed" (connection.go:50): it does not bring the process down instead.
WriteNeverPanics == ~Panicked

\* "Close terminates the connection and stops the reconnection loop"
\* (connection.go:107): once the wrapper is closed and every goroutine has
\* left it, no connection it opened is still open.
CloseTerminatesConnection ==
  closing /\ (\A t \in Threads : pc[t] = "idle") =>
    \A s \in Socks : sock[s] = "closed"
============================================================================
