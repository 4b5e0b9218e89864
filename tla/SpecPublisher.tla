---------------------------- MODULE SpecPublisher ----------------------------
(***************************************************************************)
(* The C++ SpecPublisher of spec.hpp bound to a LifecycleManager.          *)
(*                                                                         *)
(* PublishWithLifecycle validates the specification, starts a detached     *)
(* thread, and then registers a hook that raises the thread's stop flag.   *)
(* The thread posts the specification, sleeps 30 times one second with a   *)
(* look at the flag before each, and posts again.  Its control points are  *)
(*   none      not started                                                 *)
(*   head      test of the while loop (426)                                *)
(*   resolve, socket, connect, send, recv   in SendHttpRequest             *)
(*   pause     in the 30 checks                                            *)
(*   ended     returned                                                    *)
(* The network is external: every call may succeed or fail.                *)
(***************************************************************************)
EXTENDS Lifecycle

CONSTANTS
  Publishers,   \* the hooks that are stop hooks; each names its thread
  Checks,       \* looks at the flag in one pause; 30 in the code
  MaxPosts      \* bound: the posts of one thread that are counted

ASSUME PublishersAssumption ==
  /\ Publishers \subseteq Hooks
  /\ Publishers \cap (Throwing \cup Nesting) = {}
ASSUME ChecksAssumption == Checks \in Nat \ {0} /\ MaxPosts \in Nat \ {0, 1}

VARIABLES
  caller,      \* per publisher: PublishWithLifecycle not called, "refused",
               \* "spawned" (hook not yet registered), "bound"
  stopFlag,    \* the flag shared by the thread and its hook
  pub,         \* control point of the thread
  checks,      \* i, the checks made in this pause
  resolved,    \* the addrinfo list is allocated
  fd,          \* the socket is open
  latePosts    \* history: posts begun after the flag was raised

publishing == <<caller, stopFlag, pub, checks, resolved, fd, latePosts>>
network    == <<resolved, fd>>
allVars    == <<lifecycle, publishing>>

Posting == {"resolve", "socket", "connect", "send", "recv"}

Alive == main # "killed"

-----------------------------------------------------------------------------
(* PublishWithLifecycle                                                    *)

\* The address of web_interface, or a required field, is missing: an exception,
\* before anything is started.
Refuse(p) ==
  /\ Alive
  /\ caller[p] = "none"
  /\ caller' = [caller EXCEPT ![p] = "refused"]
  /\ UNCHANGED <<lifecycle, stopFlag, pub, checks, network, latePosts>>

\* Publish starts its thread.
Spawn(p) ==
  /\ Alive
  /\ caller[p] = "none"
  /\ caller' = [caller EXCEPT ![p] = "spawned"]
  /\ pub' = [pub EXCEPT ![p] = "head"]
  /\ UNCHANGED <<lifecycle, stopFlag, checks, network, latePosts>>

\* The hook is registered afterwards, if necessary after the cleanups.
Bind(p) ==
  /\ caller[p] = "spawned"
  /\ Register(p)
  /\ caller' = [caller EXCEPT ![p] = "bound"]
  /\ UNCHANGED <<stopFlag, pub, checks, network, latePosts>>

\* The lambda of the hook.
StopHook(h) ==
  stopFlag' = IF h \in Publishers THEN [stopFlag EXCEPT ![h] = TRUE] ELSE stopFlag

-----------------------------------------------------------------------------
(* The thread                                                              *)

\* Mutant: the thread has a copy of the flag.
StoppedByValue(p) == FALSE

Stopped(p) == stopFlag[p]

Goto(p, label) == pub' = [pub EXCEPT ![p] = label]

\* From the test to the call of getaddrinfo.  A flag raised from here on does
\* not keep this post from being sent.
LoopHead(p) ==
  /\ Alive
  /\ pub[p] = "head"
  /\ Goto(p, IF Stopped(p) THEN "ended" ELSE "resolve")
  /\ UNCHANGED <<lifecycle, caller, stopFlag, checks, network, latePosts>>

\* SendHttpRequest is over, successfully or not.
PostEnds(p) ==
  /\ Goto(p, "pause")
  /\ checks' = [checks EXCEPT ![p] = 0]

\* The address has no port, or getaddrinfo fails.
ResolveFails(p) ==
  /\ Alive
  /\ pub[p] = "resolve"
  /\ PostEnds(p)
  /\ UNCHANGED <<lifecycle, caller, stopFlag, network, latePosts>>

Resolve(p) ==
  /\ Alive
  /\ pub[p] = "resolve"
  /\ resolved' = [resolved EXCEPT ![p] = TRUE]
  /\ Goto(p, "socket")
  /\ UNCHANGED <<lifecycle, caller, stopFlag, checks, fd, latePosts>>

SocketFails(p) ==
  /\ Alive
  /\ pub[p] = "socket"
  /\ resolved' = [resolved EXCEPT ![p] = FALSE]
  /\ PostEnds(p)
  /\ UNCHANGED <<lifecycle, caller, stopFlag, fd, latePosts>>

OpenSocket(p) ==
  /\ Alive
  /\ pub[p] = "socket"
  /\ fd' = [fd EXCEPT ![p] = TRUE]
  /\ Goto(p, "connect")
  /\ UNCHANGED <<lifecycle, caller, stopFlag, checks, resolved, latePosts>>

\* Mutant: returns without closing the socket.
ConnectFailsOpen(p) ==
  /\ Alive
  /\ pub[p] = "connect"
  /\ resolved' = [resolved EXCEPT ![p] = FALSE]
  /\ PostEnds(p)
  /\ UNCHANGED <<lifecycle, caller, stopFlag, fd, latePosts>>

ConnectFails(p) ==
  /\ Alive
  /\ pub[p] = "connect"
  /\ resolved' = [resolved EXCEPT ![p] = FALSE]
  /\ fd' = [fd EXCEPT ![p] = FALSE]
  /\ PostEnds(p)
  /\ UNCHANGED <<lifecycle, caller, stopFlag, latePosts>>

Connect(p) ==
  /\ Alive
  /\ pub[p] = "connect"
  /\ resolved' = [resolved EXCEPT ![p] = FALSE]
  /\ Goto(p, "send")
  /\ UNCHANGED <<lifecycle, caller, stopFlag, checks, fd, latePosts>>

\* All of the request, or what could be sent of it; both go on to the answer.
Send(p) ==
  /\ Alive
  /\ pub[p] = "send"
  /\ Goto(p, "recv")
  /\ latePosts' = [latePosts EXCEPT
       ![p] = IF stopFlag[p] /\ @ < MaxPosts THEN @ + 1 ELSE @]
  /\ UNCHANGED <<lifecycle, caller, stopFlag, checks, network>>

\* The server closes, or is silent for three seconds.
Receive(p) ==
  /\ Alive
  /\ pub[p] = "recv"
  /\ fd' = [fd EXCEPT ![p] = FALSE]
  /\ PostEnds(p)
  /\ UNCHANGED <<lifecycle, caller, stopFlag, resolved, latePosts>>

\* Mutant: one check too many.
CheckOnceMore(p) ==
  /\ Alive
  /\ pub[p] = "pause"
  /\ checks[p] <= Checks
  /\ checks' = [checks EXCEPT ![p] = @ + 1]
  /\ UNCHANGED <<lifecycle, caller, stopFlag, pub, network, latePosts>>

\* One check, and the second that follows it.
Check(p) ==
  /\ Alive
  /\ pub[p] = "pause"
  /\ checks[p] < Checks
  /\ IF Stopped(p)
       THEN Goto(p, "ended") /\ UNCHANGED checks
       ELSE checks' = [checks EXCEPT ![p] = @ + 1] /\ UNCHANGED pub
  /\ UNCHANGED <<lifecycle, caller, stopFlag, network, latePosts>>

PauseEnds(p) ==
  /\ Alive
  /\ pub[p] = "pause"
  /\ checks[p] = Checks
  /\ Goto(p, "head")
  /\ UNCHANGED <<lifecycle, caller, stopFlag, checks, network, latePosts>>

Heartbeat(p) ==
  \/ LoopHead(p)
  \/ ResolveFails(p)
  \/ Resolve(p)
  \/ SocketFails(p)
  \/ OpenSocket(p)
  \/ ConnectFails(p)
  \/ Connect(p)
  \/ Send(p)
  \/ Receive(p)
  \/ Check(p)
  \/ PauseEnds(p)

-----------------------------------------------------------------------------
(* The manager with its hooks                                              *)

RegisterPlain(h) == h \notin Publishers /\ Register(h) /\ UNCHANGED publishing

RunAnyHook ==
  /\ RunHook
  /\ StopHook(NextHook)
  /\ UNCHANGED <<caller, pub, checks, network, latePosts>>

\* What the thread in Wait does of its own accord.
Shutdown ==
  \/ StartCleanups /\ UNCHANGED publishing
  \/ RunAnyHook
  \/ RunNestingHook /\ UNCHANGED publishing
  \/ Finish /\ UNCHANGED publishing

Outside ==
  /\ \/ ConstructOther
     \/ DestroyOther
     \/ InstallHandlers
     \/ EarlySignal
     \/ RequestShutdown
  /\ UNCHANGED publishing

-----------------------------------------------------------------------------

Init ==
  /\ LifecycleInit
  /\ caller = [p \in Publishers |-> "none"]
  /\ stopFlag = [p \in Publishers |-> FALSE]
  /\ pub = [p \in Publishers |-> "none"]
  /\ checks = [p \in Publishers |-> 0]
  /\ resolved = [p \in Publishers |-> FALSE]
  /\ fd = [p \in Publishers |-> FALSE]
  /\ latePosts = [p \in Publishers |-> 0]

Next ==
  \/ \E p \in Publishers : Refuse(p) \/ Spawn(p) \/ Bind(p) \/ Heartbeat(p)
  \/ \E h \in Hooks : RegisterPlain(h)
  \/ Shutdown
  \/ Outside

Spec == Init /\ [][Next]_allVars

\* Threads are scheduled, and every network call comes back: send and recv have
\* a time-out of three seconds, and the server does not feed the response for
\* ever.  Nobody is obliged to request a shutdown.
Fairness ==
  /\ WF_allVars(Shutdown)
  /\ \A p \in Publishers : WF_allVars(Heartbeat(p))

FairSpec == Spec /\ Fairness

-----------------------------------------------------------------------------
(* Properties                                                              *)

\* Every variable has a value of its type.
TypeOK ==
  /\ LifecycleTypeOK
  /\ caller \in [Publishers -> {"none", "refused", "spawned", "bound"}]
  /\ stopFlag \in [Publishers -> BOOLEAN]
  /\ pub \in [Publishers -> Posting \cup {"none", "head", "pause", "ended"}]
  /\ checks \in [Publishers -> 0..Checks]
  /\ resolved \in [Publishers -> BOOLEAN]
  /\ fd \in [Publishers -> BOOLEAN]
  /\ latePosts \in [Publishers -> 0..MaxPosts]

\* A service that has been told to stop announces itself once more at most: the
\* post that was under way, or about to begin, when its hook ran.
OnePostAfterStop == \A p \in Publishers : latePosts[p] <= 1

\* Whatever call of a post fails, neither the socket nor the address list
\* outlives it; a service that posts for months would run out of them.
NothingLeftOver ==
  \A p \in Publishers :
    /\ fd[p] => pub[p] \in {"connect", "send", "recv"}
    /\ resolved[p] => pub[p] \in {"socket", "connect"}

\* A shutdown that begins with the stop hook in its list ends the heartbeat,
\* whatever the other hooks throw, and then comes to its own end; unless it is
\* stuck in a hook that registers another one.
ShutdownEndsHeartbeats ==
  /\ \A p \in Publishers :
       (main = "running" /\ Registered(p)) ~> (pub[p] = "ended" \/ main = "stuck")
  /\ (main = "polling" /\ shutdown_requested) ~> main \in {"done", "stuck"}

-----------------------------------------------------------------------------
(* A claim of the documentation that the code does not keep.               *)

\* "PublishWithLifecycle binds publishing to the service's lifecycle manager"
\* (spec.hpp:470): when the shutdown is over, no thread started by it goes on
\* for ever.
NoHeartbeatOutlivesShutdown ==
  \A p \in Publishers :
    (main = "done" /\ caller[p] = "bound") ~> pub[p] = "ended"
==============================================================================
