---------------------------- MODULE CppConnection ----------------------------
(***************************************************************************)
(* The C++ connection wrapper: ManagedConnection.hpp, created by the       *)
(* Connect methods of NetworkManager.hpp.                                  *)
(*                                                                         *)
(* It shares its purpose with the Go wrapper (module ManagedConnection)    *)
(* and none of its locking: the mutex is held by a call from its entry to  *)
(* its return, across dials, sends and receives, and is given up only for  *)
(* the back-off sleep.  There is no flag that makes the retry loop         *)
(* exclusive; `closed_` is an atomic tested with and without the mutex.    *)
(*                                                                         *)
(* Control points of a thread, with a plus where it holds the mutex:       *)
(*   idle      outside the wrapper                                         *)
(*   lock      Send, Receive or Reconnect called, mutex wanted             *)
(*   loop +    test of the retry loop (line 99)                            *)
(*   dial +    the old socket closed, safesock::create running (102)       *)
(*   sleep     mutex given up for the delay, then wanted again (114)       *)
(*   use +     the send or receive of the try block (53, 70)               *)
(*   again +   test of closed_ before the retry in its catch block (57, 74)*)
(*   resend +  the one retry (58, 75), whatever closed_ is by now          *)
(*   crashed   dereferenced the null socket                                *)
(* A closer: idle, closing (it won the exchange on `closed_`), done.       *)
(*                                                                         *)
(* safe-socket is external: see the same remark in ManagedConnection.      *)
(***************************************************************************)
EXTENDS Integers

CONSTANTS
  Senders,      \* threads that call Send
  Receivers,    \* threads that call Receive
  Closers,      \* threads that call Close, or drop the last reference
  Connectors,   \* the thread that runs Connect, or the one it detaches
  Socks,        \* socket objects
  NoSock,       \* the empty unique_ptr
  Nobody,       \* owner of a free mutex
  RetryLimits,  \* values of NetworkManager::max_retries; -1 for no limit
  Modes,        \* connection modes
  MaxCalls,     \* bound: calls of one sender or receiver
  MaxOutages,   \* bound: times the peer goes away
  AttemptCap    \* bound: the loop counter stops counting here

Users   == Senders \cup Receivers
Threads == Users \cup Connectors

ASSUME ThreadsAssumption ==
  /\ Senders \cap Receivers = {}
  /\ Users \cap Connectors = {}
  /\ Threads \cap Closers = {}
ASSUME NoSockAssumption == NoSock \notin Socks
ASSUME NobodyAssumption == Nobody \notin Threads
ASSUME LimitsAssumption == RetryLimits \subseteq Nat \cup {-1}
ASSUME ModesAssumption  == Modes \subseteq {"Blocking", "NonBlocking", "Indefinite"}
ASSUME BoundsAssumption ==
  /\ MaxCalls \in Nat
  /\ MaxOutages \in Nat
  /\ AttemptCap \in Nat \ {0}
  /\ \A limit \in RetryLimits : limit < AttemptCap

VARIABLES
  socket,      \* socket_
  closed,      \* closed_
  mutex,       \* the thread that holds mutex_, or Nobody
  sock,        \* status of every socket object: open, broken, closed
  peerUp,      \* environment: the peer accepts connections
  outages,     \* environment: how often the peer went away
  pc,          \* control point of every thread and closer
  ret,         \* where Reconnect returns to: first use, retry, or connect
  attempt,     \* counter of the retry loop
  result,      \* how the last call ended: ok, dropped (returned without
               \* having done anything), failed (an exception)
  calls,       \* calls made
  mode,        \* mode given to Connect
  maxRetries   \* nm_->max_retries

wrapper == <<socket, closed, mutex, sock>>
env     == <<peerUp, outages>>
locals  == <<pc, ret, attempt, result, calls>>
given   == <<mode, maxRetries>>
vars    == <<wrapper, env, locals, given>>

Holding == {"loop", "dial", "use", "again", "resend"}
Crashed == \E t \in Threads : pc[t] = "crashed"

-----------------------------------------------------------------------------
(* Control flow                                                            *)

\* A crash takes the whole process down.
At(t, label) == ~Crashed /\ pc[t] = label

Goto(t, label) ==
  /\ pc' = [pc EXCEPT ![t] = label]
  /\ UNCHANGED <<ret, result>>

\* The call ends: its unique_lock releases the mutex, its locals are gone.
Return(t, how) ==
  /\ pc' = [pc EXCEPT ![t] = "idle"]
  /\ result' = [result EXCEPT ![t] = how]
  /\ ret' = [ret EXCEPT ![t] = "first"]
  /\ mutex' = Nobody

\* Mutant: the counter starts below zero.
CallReconnectBelowZero(t, from) ==
  /\ pc' = [pc EXCEPT ![t] = "loop"]
  /\ ret' = [ret EXCEPT ![t] = from]
  /\ attempt' = [attempt EXCEPT ![t] = -1]
  /\ UNCHANGED result

\* Reconnect(lock) called with the mutex held.
CallReconnect(t, from) ==
  /\ pc' = [pc EXCEPT ![t] = "loop"]
  /\ ret' = [ret EXCEPT ![t] = from]
  /\ attempt' = [attempt EXCEPT ![t] = 0]
  /\ UNCHANGED result

LoopEnds(t) == attempt' = [attempt EXCEPT ![t] = 0]

\* Reconnect(lock) returns without an exception, connected or not.
ReconnectReturns(t) ==
  /\ LoopEnds(t)
  /\ \/ /\ ret[t] = "first"
        /\ Goto(t, "use")
        /\ mutex' = t
     \/ /\ ret[t] = "retry"
        /\ Goto(t, "again")
        /\ mutex' = t
     \/ /\ ret[t] = "connect"
        /\ Return(t, "ok")

-----------------------------------------------------------------------------
(* Send and Receive                                                        *)

\* Connect has handed the wrapper out: at once in mode NonBlocking.
HandedOver ==
  mode = "NonBlocking" \/ \A g \in Connectors : pc[g] = "idle"

Call(t) ==
  /\ At(t, "idle")
  /\ t \in Users
  /\ HandedOver
  /\ calls[t] < MaxCalls
  /\ calls' = [calls EXCEPT ![t] = @ + 1]
  /\ Goto(t, "lock")
  /\ UNCHANGED <<wrapper, env, attempt, given>>

\* Mutant: an unconnected wrapper is treated like a closed one.
EnterUserUnconnected(t) ==
  /\ At(t, "lock")
  /\ t \in Users
  /\ mutex = Nobody
  /\ IF closed \/ socket = NoSock
       THEN Return(t, "dropped")
       ELSE mutex' = t /\ Goto(t, "use")
  /\ UNCHANGED <<socket, closed, sock, env, attempt, calls, given>>

\* Mutant: EnsureConnected dials whether or not there is a connection.
EnterUserRedials(t) ==
  /\ At(t, "lock")
  /\ t \in Users
  /\ mutex = Nobody
  /\ IF closed
       THEN Return(t, "dropped") /\ UNCHANGED attempt
       ELSE mutex' = t /\ CallReconnect(t, "first")
  /\ UNCHANGED <<socket, closed, sock, env, calls, given>>

\* The mutex, the test of closed_ and EnsureConnected.
EnterUser(t) ==
  /\ At(t, "lock")
  /\ t \in Users
  /\ mutex = Nobody
  /\ \/ /\ closed
        /\ Return(t, "dropped")
        /\ UNCHANGED attempt
     \/ /\ ~closed
        /\ socket = NoSock
        /\ mutex' = t
        /\ CallReconnect(t, "first")
     \/ /\ ~closed
        /\ socket # NoSock
        /\ mutex' = t
        /\ Goto(t, "use")
        /\ UNCHANGED attempt
  /\ UNCHANGED <<socket, closed, sock, env, calls, given>>

\* The transport accepts the data (a broken connection may still buffer
\* them), or has some for the receiver.
Works(t) ==
  /\ socket # NoSock
  /\ \/ sock[socket] = "open"
     \/ t \in Senders /\ sock[socket] = "broken"

\* It throws; the exception closes nothing.
Throws == socket # NoSock /\ sock[socket] # "open"

\* A receive waits, with the mutex, for as long as the peer is silent.
UseWorks(t) ==
  /\ At(t, "use") \/ At(t, "resend")
  /\ Works(t)
  /\ Return(t, "ok")
  /\ UNCHANGED <<socket, closed, sock, env, attempt, calls, given>>

UseThrows(t) ==
  /\ At(t, "use")
  /\ Throws
  /\ CallReconnect(t, "retry")
  /\ UNCHANGED <<wrapper, env, calls, given>>

\* EnsureConnected may have come back without a socket.
UseNull(t) ==
  /\ At(t, "use")
  /\ socket = NoSock
  /\ Goto(t, "crashed")
  /\ UNCHANGED <<wrapper, env, attempt, calls, given>>

AgainThrows(t) ==
  /\ At(t, "resend")
  /\ Throws
  /\ Return(t, "failed")
  /\ UNCHANGED <<socket, closed, sock, env, attempt, calls, given>>

\* closed_ may be set between this test and the retry.
AgainTest(t) ==
  /\ At(t, "again")
  /\ \/ /\ closed \/ socket = NoSock
        /\ Return(t, "dropped")
     \/ /\ ~closed /\ socket # NoSock
        /\ Goto(t, "resend")
        /\ UNCHANGED mutex
  /\ UNCHANGED <<socket, closed, sock, env, attempt, calls, given>>

-----------------------------------------------------------------------------
(* Reconnect                                                               *)

\* The public Reconnect: no look at closed_ before the loop.
EnterConnector(t) ==
  /\ At(t, "lock")
  /\ t \in Connectors
  /\ mutex = Nobody
  /\ mutex' = t
  /\ CallReconnect(t, "connect")
  /\ UNCHANGED <<socket, closed, sock, env, calls, given>>

LoopGoesOn(i) == maxRetries = -1 \/ i < maxRetries

\* Mutant: the exception after the last attempt is forgotten.
LoopTestNoThrow(t) ==
  /\ At(t, "loop")
  /\ IF ~closed /\ LoopGoesOn(attempt[t])
       THEN Goto(t, "dial") /\ UNCHANGED <<mutex, attempt>>
       ELSE ReconnectReturns(t)
  /\ UNCHANGED <<socket, closed, sock, env, calls, given>>

\* The condition of the loop; when it is false, also because the wrapper is
\* closed, the exception "Max retries reached".  ConnectBlocking catches it,
\* reports it as attempt 1 and hands out the unconnected wrapper; the detached
\* thread swallows it.
LoopTest(t) ==
  /\ At(t, "loop")
  /\ IF ~closed /\ LoopGoesOn(attempt[t])
       THEN Goto(t, "dial") /\ UNCHANGED <<mutex, attempt>>
       ELSE Return(t, "failed") /\ LoopEnds(t)
  /\ UNCHANGED <<socket, closed, sock, env, calls, given>>

Unused(s) == sock[s] = "closed" /\ s # socket

\* The socket_->close() before a dial.
OldSocketClosed ==
  [s \in Socks |-> IF s = socket THEN "closed" ELSE sock[s]]

\* Mutant: the new socket replaces the old one without closing it.
DialOkKeepsOld(t) ==
  /\ At(t, "dial")
  /\ peerUp
  /\ \E s \in Socks : /\ Unused(s)
                      /\ sock' = [sock EXCEPT ![s] = "open"]
                      /\ socket' = s
  /\ ReconnectReturns(t)
  /\ UNCHANGED <<closed, env, calls, given>>

DialOk(t) ==
  /\ At(t, "dial")
  /\ peerUp
  /\ \E s \in Socks : /\ Unused(s)
                      /\ sock' = [OldSocketClosed EXCEPT ![s] = "open"]
                      /\ socket' = s
  /\ ReconnectReturns(t)
  /\ UNCHANGED <<closed, env, calls, given>>

\* Mutant: sleeps with the mutex.
DialFailsLocked(t) ==
  /\ At(t, "dial")
  /\ ~peerUp
  /\ sock' = OldSocketClosed
  /\ Goto(t, "sleep")
  /\ UNCHANGED <<socket, closed, mutex, env, attempt, calls, given>>

\* socket_ keeps the object it had, now closed.  The hook runs, then the
\* mutex is given up, also after the last attempt.
DialFails(t) ==
  /\ At(t, "dial")
  /\ ~peerUp
  /\ sock' = OldSocketClosed
  /\ mutex' = Nobody
  /\ Goto(t, "sleep")
  /\ UNCHANGED <<socket, closed, env, attempt, calls, given>>

\* lock.lock(), and a return without an exception when closed meanwhile.
Wake(t) ==
  /\ At(t, "sleep")
  /\ mutex = Nobody
  /\ \/ /\ closed
        /\ ReconnectReturns(t)
     \/ /\ ~closed
        /\ mutex' = t
        /\ attempt' = [attempt EXCEPT ![t] = IF @ < AttemptCap THEN @ + 1 ELSE @]
        /\ Goto(t, "loop")
  /\ UNCHANGED <<socket, closed, sock, env, calls, given>>

-----------------------------------------------------------------------------
(* Close                                                                   *)

\* compare_exchange_strong.  A Close that finds the wrapper closed, as that of
\* the destructor usually does, returns at once, the mutex not even taken.
CloseWins(x) ==
  /\ At(x, "idle")
  /\ ~closed
  /\ HandedOver
  /\ closed' = TRUE
  /\ Goto(x, "closing")
  /\ UNCHANGED <<socket, mutex, sock, env, attempt, calls, given>>

\* Mutant: closes without the mutex.
CloseSocketUnlocked(x) ==
  /\ At(x, "closing")
  /\ sock' = OldSocketClosed
  /\ Goto(x, "done")
  /\ UNCHANGED <<socket, closed, mutex, env, attempt, calls, given>>

\* The lock_guard and the close under it.
CloseSocket(x) ==
  /\ At(x, "closing")
  /\ mutex = Nobody
  /\ sock' = OldSocketClosed
  /\ Goto(x, "done")
  /\ UNCHANGED <<socket, closed, mutex, env, attempt, calls, given>>

-----------------------------------------------------------------------------
(* The environment                                                         *)

PeerDown ==
  /\ peerUp
  /\ outages < MaxOutages
  /\ peerUp' = FALSE
  /\ outages' = outages + 1
  /\ sock' = [s \in Socks |-> IF sock[s] = "open" THEN "broken" ELSE sock[s]]
  /\ UNCHANGED <<socket, closed, mutex, locals, given>>

PeerUp ==
  /\ ~peerUp
  /\ peerUp' = TRUE
  /\ UNCHANGED <<wrapper, outages, locals, given>>

Dead == Crashed /\ UNCHANGED vars

-----------------------------------------------------------------------------

Init ==
  /\ socket = NoSock
  /\ closed = FALSE
  /\ mutex = Nobody
  /\ sock = [s \in Socks |-> "closed"]
  /\ peerUp = TRUE   \* PeerDown may come first
  /\ outages = 0
  /\ pc = [t \in Threads \cup Closers |-> IF t \in Connectors THEN "lock" ELSE "idle"]
  /\ ret = [t \in Threads |-> "first"]
  /\ attempt = [t \in Threads |-> 0]
  /\ result = [t \in Threads |-> "none"]
  /\ calls = [t \in Threads |-> 0]
  /\ mode \in Modes
  /\ maxRetries \in RetryLimits

\* What a thread does with the mutex, or asleep, whether or not data arrive.
Proceed(t) ==
  \/ t \in Senders /\ UseWorks(t)
  \/ UseThrows(t)
  \/ UseNull(t)
  \/ AgainThrows(t)
  \/ AgainTest(t)
  \/ LoopTest(t)
  \/ DialOk(t)
  \/ DialFails(t)

\* What a thread does when the mutex is free.
Acquire(t) ==
  \/ EnterUser(t)
  \/ EnterConnector(t)
  \/ Wake(t)

Next ==
  \/ \E t \in Users : Call(t) \/ UseWorks(t)
  \/ \E t \in Threads : Proceed(t) \/ Acquire(t)
  \/ \E x \in Closers : CloseWins(x) \/ CloseSocket(x)
  \/ PeerDown
  \/ PeerUp
  \/ Dead

Spec == Init /\ [][Next]_vars

\* Threads are scheduled.  Fairness is strong for the sake of the mutex: a
\* thread that wants it gets it if it is free again and again, as a loop that
\* gives it up sleeps for its delay before it wants it back.  Nobody is obliged
\* to call, and the peer neither to come back nor to send.
Fairness ==
  /\ \A t \in Threads : SF_vars(Proceed(t) \/ Acquire(t))
  /\ \A x \in Closers : SF_vars(CloseSocket(x))

FairSpec == Spec /\ Fairness

-----------------------------------------------------------------------------
(* Properties                                                              *)

\* Every variable has a value of its type.
TypeOK ==
  /\ socket \in Socks \cup {NoSock}
  /\ closed \in BOOLEAN
  /\ mutex \in Threads \cup {Nobody}
  /\ sock \in [Socks -> {"open", "broken", "closed"}]
  /\ peerUp \in BOOLEAN
  /\ outages \in Nat
  /\ pc \in [Threads \cup Closers ->
               Holding \cup {"idle", "lock", "sleep", "crashed", "closing", "done"}]
  /\ ret \in [Threads -> {"first", "retry", "connect"}]
  /\ attempt \in [Threads -> Nat]
  /\ result \in [Threads -> {"none", "ok", "dropped", "failed"}]
  /\ calls \in [Threads -> Nat]
  /\ mode \in Modes
  /\ maxRetries \in RetryLimits

\* However many retry loops run side by side (nothing keeps a second thread
\* out of Reconnect while the first sleeps), no socket is lost open: what is
\* not closed is the one socket_ holds.
OnlyInstalledIsOpen == \A s \in Socks : sock[s] # "closed" => s = socket

\* Once Close has returned to the caller that closed the wrapper nothing is
\* open, and nothing will be: a retry loop that slept through it, or was
\* dialing when closed_ was set, leaves no open socket behind.
CloseIsFinal ==
  (\E x \in Closers : pc[x] = "done") => \A s \in Socks : sock[s] = "closed"

\* A Send or Receive that comes back without an exception and without having
\* sent or received anything was told so by a closed wrapper, never by an
\* unconnected one.
NothingSilentlyDropped ==
  (\E t \in Threads : result[t] = "dropped") => closed

\* A reconnection that gives up, throws.  So the empty socket that Send and
\* Receive use without a look at it (53, 70) is met only in a wrapper that was
\* closed meanwhile: the crash takes a Close, no outage and no limit brings it.
CrashOnlyAfterClose == Crashed => closed

\* Reconnect ends in one of three ways for a caller: with a socket, with an
\* exception, or quietly without either; the last only when the wrapper was
\* closed, whichever of its callers goes on with it.
OnlyCloseIsQuiet == NothingSilentlyDropped /\ CrashOnlyAfterClose

\* A healthy connection is closed only by Close, by the connecting thread, or
\* by a retry loop that has slept: a loop just entered closes a connection that
\* failed.
HealthyConnectionKept ==
  [][\A s \in Socks : sock[s] = "open" /\ sock'[s] = "closed" =>
       \/ \E x \in Closers : pc[x] = "closing" /\ pc'[x] = "done"
       \/ \E t \in Connectors : pc[t] = "dial"
       \/ \E t \in Threads : pc[t] = "dial" /\ attempt[t] > 0]_vars

\* A receiver waits for a peer that says nothing.
Silent ==
  \E r \in Receivers : /\ pc[r] \in {"use", "resend"}
                       /\ socket # NoSock
                       /\ sock[socket] = "open"

\* Every call returns, Close included, unless a receiver waits for ever with
\* the mutex or the peer stays unreachable under unlimited retries; closing
\* the wrapper ends the latter.
EverybodyReturns ==
  <>[](maxRetries # -1 \/ peerUp \/ closed) /\ ~<>[]Silent =>
    /\ \A t \in Threads : (pc[t] # "idle") ~> (pc[t] = "idle" \/ Crashed)
    /\ \A x \in Closers : (pc[x] = "closing") ~> (pc[x] = "done" \/ Crashed)

-----------------------------------------------------------------------------
(* A claim of the documentation that the code does not keep.               *)

\* "Send data, reconnecting if necessary" (ManagedConnection.hpp:46): it does
\* not bring the process down instead.
SendNeverCrashes == \A t \in Senders : pc[t] # "crashed"
=============================================================================
