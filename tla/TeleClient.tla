----------------------------- MODULE TeleClient -----------------------------
(***************************************************************************)
(* The Go client of the tele-remote server, src/go/pkg/teleremote/         *)
(* client.go: a service's menu of actions is registered with the server    *)
(* over a gRPC stream, which brings commands back.  Its goroutines:        *)
(*                                                                         *)
(*   connectionManager  connects, registers the menu, receives (mpc)       *)
(*   commandDispatcher  takes commands from the channel cmdChan (dpc)      *)
(*   pushes             one sendRegistration per PushMenuUpdate            *)
(*   the service        UpdateActions and PushMenuUpdate at any time, Close*)
(*                                                                         *)
(* One action stands for one section that holds `mu` or `sendMu`, or one   *)
(* call made without them.  The control points of the manager are:         *)
(*                                                                         *)
(*   check    top of the loop (203)   dial     Dial and Connect (212)      *)
(*   publish  stream open (231)       generate GenerateMenuJSON (277)      *)
(*   send     the Send (289)          recv     in Recv (244)               *)
(*   peek     has a command (256)     put      the channel select (264)    *)
(*   cut      before disconnect (271) done     returned                    *)
(*   panicked sent on a closed channel: the process has died               *)
(*                                                                         *)
(* gRPC and the server are external: a stream and its connection are one   *)
(* identity with a status.  A menu is the number of updates made to it.    *)
(***************************************************************************)
EXTENDS Integers

CONSTANTS
  Conns,        \* connections with their streams
  NoConn,       \* nil
  Pushes,       \* goroutines of PushMenuUpdate; also bounds how many at a time
  ChanCap,      \* capacity of cmdChan (100 in the code)
  MaxMenu,      \* bound: versions of the menu
  MaxCommands,  \* bound: commands the server sends
  MaxOutages    \* bound: times the server goes away

ASSUME NoConnAssumption == NoConn \notin Conns
ASSUME BoundsAssumption ==
  /\ ChanCap \in Nat
  /\ MaxMenu \in Nat
  /\ MaxCommands \in Nat
  /\ MaxOutages \in Nat

VARIABLES
  menu,      \* version of tc.actions and tc.handlers
  live,      \* tc.conn, tc.stream and tc.cancelFunc
  closer,    \* progress of Close: open, marked, cut, shut
  mpc,       \* control point of connectionManager
  mine,      \* its local variable `stream`
  text,      \* the menu it is about to send
  dpc,       \* running or done
  queued,    \* commands in cmdChan
  push,      \* per push: the stream it was given
  pushText,  \* per push: the menu it is about to send; 0 before it has one
  asked,     \* the menu at the last PushMenuUpdate that had a stream
  status,    \* of every connection: open, broken (server lost), closed
  shown,     \* per connection: the menu the server has; 0 for none
  serverUp,
  commands,  \* commands sent so far
  outages

manager    == <<mpc, mine, text>>
dispatcher == <<dpc, queued>>
pushing    == <<push, pushText, asked>>
network    == <<status, shown>>
env        == <<serverUp, commands, outages>>
vars == <<menu, live, closer, manager, dispatcher, pushing, network, env>>

closed     == closer # "open"
ChanClosed == closer = "shut"
Panicked   == mpc = "panicked"
Running    == ~Panicked   \* a panic takes every goroutine down

-----------------------------------------------------------------------------
(* The service's calls                                                     *)

\* AddAction and UpdateActions: menu and handlers change together, under mu.
UpdateActions ==
  /\ Running
  /\ menu < MaxMenu
  /\ menu' = menu + 1
  /\ UNCHANGED <<live, closer, manager, dispatcher, pushing, network, env>>

PushMenuUpdate ==
  /\ Running
  /\ live # NoConn
  /\ asked' = menu
  /\ \E p \in Pushes :
       /\ push[p] = NoConn
       /\ push' = [push EXCEPT ![p] = live]
  /\ UNCHANGED <<menu, live, closer, manager, dispatcher, pushText, network, env>>

\* A Send on a stream that is not open any more has no effect on the server.
Send(c, m) ==
  shown' = IF status[c] = "open" THEN [shown EXCEPT ![c] = m] ELSE shown

GeneratePush(p) ==
  /\ Running
  /\ push[p] # NoConn
  /\ pushText[p] = 0
  /\ pushText' = [pushText EXCEPT ![p] = menu]
  /\ UNCHANGED <<menu, live, closer, manager, dispatcher, push, asked, network, env>>

SendPush(p) ==
  /\ Running
  /\ push[p] # NoConn
  /\ pushText[p] # 0
  /\ Send(push[p], pushText[p])
  /\ push' = [push EXCEPT ![p] = NoConn]
  /\ pushText' = [pushText EXCEPT ![p] = 0]
  /\ UNCHANGED <<menu, live, closer, manager, dispatcher, asked, status, env>>

\* Mutant: the connection is forgotten, not closed.
DisconnectLeavesOpen ==
  /\ live' = NoConn
  /\ UNCHANGED status

\* disconnect()
Disconnect ==
  /\ live' = NoConn
  /\ status' = IF live = NoConn THEN status
               ELSE [status EXCEPT ![live] = "closed"]

\* Close, in three steps; a second Close returns at once.
CloseMark ==
  /\ Running
  /\ closer = "open"
  /\ closer' = "marked"
  /\ UNCHANGED <<menu, live, manager, dispatcher, pushing, network, env>>

CloseCut ==
  /\ Running
  /\ closer = "marked"
  /\ Disconnect
  /\ closer' = "cut"
  /\ UNCHANGED <<menu, manager, dispatcher, pushing, shown, env>>

CloseShut ==
  /\ Running
  /\ closer = "cut"
  /\ closer' = "shut"
  /\ UNCHANGED <<menu, live, manager, dispatcher, pushing, network, env>>

-----------------------------------------------------------------------------
(* connectionManager                                                       *)

MGoto(label) == mpc' = label

\* Mutant: the loop does not look at `closed`.
CheckNothing ==
  /\ mpc = "check"
  /\ MGoto("dial")
  /\ UNCHANGED <<menu, live, closer, mine, text, dispatcher, pushing, network, env>>

CheckClosed ==
  /\ mpc = "check"
  /\ MGoto(IF closed THEN "done" ELSE "dial")
  /\ UNCHANGED <<menu, live, closer, mine, text, dispatcher, pushing, network, env>>

\* A connection nobody refers to.
Unused(c) ==
  /\ status[c] = "closed"
  /\ c # live /\ c # mine
  /\ \A p \in Pushes : push[p] # c

Connect ==
  /\ mpc = "dial"
  /\ serverUp
  /\ \E c \in Conns :
       /\ Unused(c)
       /\ mine' = c
       /\ status' = [status EXCEPT ![c] = "open"]
       /\ shown' = [shown EXCEPT ![c] = 0]
  /\ MGoto("publish")
  /\ UNCHANGED <<menu, live, closer, text, dispatcher, pushing, env>>

\* Mutant: the manager returns where it should sleep and continue.
ConnectFailsForGood ==
  /\ mpc = "dial"
  /\ ~serverUp
  /\ MGoto("done")
  /\ UNCHANGED <<menu, live, closer, mine, text, dispatcher, pushing, network, env>>

\* Dial or Connect fails: what was opened is closed again, then a pause.
ConnectFails ==
  /\ mpc = "dial"
  /\ ~serverUp
  /\ MGoto("check")
  /\ UNCHANGED <<menu, live, closer, mine, text, dispatcher, pushing, network, env>>

\* Mutant: the initial registration is forgotten.
PublishOnly ==
  /\ mpc = "publish"
  /\ live' = mine
  /\ MGoto("recv")
  /\ UNCHANGED <<menu, closer, mine, text, dispatcher, pushing, network, env>>

\* The stream is published without a look at `closed`.
Publish ==
  /\ mpc = "publish"
  /\ live' = mine
  /\ MGoto("generate")
  /\ UNCHANGED <<menu, closer, mine, text, dispatcher, pushing, network, env>>

Generate ==
  /\ mpc = "generate"
  /\ text' = menu
  /\ MGoto("send")
  /\ UNCHANGED <<menu, live, closer, mine, dispatcher, pushing, network, env>>

Register ==
  /\ mpc = "send"
  /\ Send(mine, text)
  /\ MGoto("recv")
  /\ UNCHANGED <<menu, live, closer, mine, text, dispatcher, pushing, status, env>>

RecvRefresh ==
  /\ mpc = "recv"
  /\ status[mine] = "open"
  /\ MGoto("generate")
  /\ UNCHANGED <<menu, live, closer, mine, text, dispatcher, pushing, network, env>>

RecvCommand ==
  /\ mpc = "recv"
  /\ status[mine] = "open"
  /\ commands < MaxCommands
  /\ commands' = commands + 1
  /\ MGoto("peek")
  /\ UNCHANGED <<menu, live, closer, mine, text, dispatcher, pushing, network,
                 serverUp, outages>>

RecvError ==
  /\ mpc = "recv"
  /\ status[mine] # "open"
  /\ MGoto("cut")
  /\ UNCHANGED <<menu, live, closer, mine, text, dispatcher, pushing, network, env>>

Peek ==
  /\ mpc = "peek"
  /\ MGoto(IF closed THEN "cut" ELSE "put")
  /\ UNCHANGED <<menu, live, closer, mine, text, dispatcher, pushing, network, env>>

\* Mutant: the channel has no limit.
PutBlindly ==
  /\ mpc = "put"
  /\ ~ChanClosed
  /\ queued' = queued + 1
  /\ MGoto("recv")
  /\ UNCHANGED <<menu, live, closer, mine, text, dpc, pushing, network, env>>

\* The select: a full channel drops the command, a closed one panics.
Put ==
  /\ mpc = "put"
  /\ \/ /\ ChanClosed
        /\ MGoto("panicked")
        /\ UNCHANGED queued
     \/ /\ ~ChanClosed
        /\ queued' = IF queued < ChanCap THEN queued + 1 ELSE queued
        /\ MGoto("recv")
  /\ UNCHANGED <<menu, live, closer, mine, text, dpc, pushing, network, env>>

Cut ==
  /\ mpc = "cut"
  /\ Disconnect
  /\ mine' = NoConn
  /\ MGoto("check")
  /\ UNCHANGED <<menu, closer, text, dispatcher, pushing, shown, env>>

-----------------------------------------------------------------------------
(* commandDispatcher                                                       *)

\* One command is taken and its handler started in a goroutine of its own.
Dispatch ==
  /\ Running
  /\ dpc = "running"
  /\ queued > 0
  /\ queued' = queued - 1
  /\ UNCHANGED <<menu, live, closer, manager, dpc, pushing, network, env>>

\* Mutant: the range loop ends with commands left.
DispatchEndsEarly ==
  /\ Running
  /\ dpc = "running"
  /\ closed
  /\ dpc' = "done"
  /\ UNCHANGED <<menu, live, closer, manager, queued, pushing, network, env>>

DispatchEnds ==
  /\ Running
  /\ dpc = "running"
  /\ queued = 0
  /\ ChanClosed
  /\ dpc' = "done"
  /\ UNCHANGED <<menu, live, closer, manager, queued, pushing, network, env>>

-----------------------------------------------------------------------------
(* The server                                                              *)

ServerDown ==
  /\ Running
  /\ serverUp
  /\ outages < MaxOutages
  /\ serverUp' = FALSE
  /\ outages' = outages + 1
  /\ status' = [c \in Conns |-> IF status[c] = "open" THEN "broken" ELSE status[c]]
  /\ UNCHANGED <<menu, live, closer, manager, dispatcher, pushing, shown, commands>>

ServerUp ==
  /\ Running
  /\ ~serverUp
  /\ serverUp' = TRUE
  /\ UNCHANGED <<menu, live, closer, manager, dispatcher, pushing, network,
                 commands, outages>>

-----------------------------------------------------------------------------

\* NewTeleClient, then Start.
Init ==
  /\ menu = 1
  /\ live = NoConn
  /\ closer = "open"
  /\ mpc = "check" /\ mine = NoConn /\ text = 0
  /\ dpc = "running" /\ queued = 0
  /\ push = [p \in Pushes |-> NoConn]
  /\ pushText = [p \in Pushes |-> 0]
  /\ asked = 0
  /\ status = [c \in Conns |-> "closed"]
  /\ shown = [c \in Conns |-> 0]
  /\ serverUp \in BOOLEAN
  /\ commands = 0 /\ outages = 0

Calls == UpdateActions \/ PushMenuUpdate \/ CloseMark

\* What the manager does without waiting for the server to say something.
ManagerStep ==
  \/ CheckClosed \/ Connect \/ ConnectFails \/ Publish \/ Generate \/ Register
  \/ RecvError \/ Peek \/ Put \/ Cut

DispatcherStep == Dispatch \/ DispatchEnds
CloserStep     == CloseCut \/ CloseShut
PushStep(p)    == GeneratePush(p) \/ SendPush(p)

Server == RecvRefresh \/ RecvCommand \/ ServerDown \/ ServerUp

Next ==
  \/ Calls \/ ManagerStep \/ DispatcherStep \/ CloserStep \/ Server
  \/ \E p \in Pushes : PushStep(p)

Spec == Init /\ [][Next]_vars

\* Goroutines are scheduled.  Nobody is obliged to call the client, and the
\* server neither to come back nor to send anything.
FairSpec ==
  /\ Spec
  /\ WF_vars(ManagerStep)
  /\ WF_vars(DispatcherStep)
  /\ WF_vars(CloserStep)
  /\ \A p \in Pushes : WF_vars(PushStep(p))

-----------------------------------------------------------------------------

\* Every variable has a value of its type.
TypeOK ==
  /\ menu \in Nat \ {0}
  /\ live \in Conns \cup {NoConn}
  /\ closer \in {"open", "marked", "cut", "shut"}
  /\ mpc \in {"check", "dial", "publish", "generate", "send", "recv", "peek",
              "put", "cut", "done", "panicked"}
  /\ mine \in Conns \cup {NoConn}
  /\ text \in Nat
  /\ dpc \in {"running", "done"}
  /\ queued \in 0 .. ChanCap
  /\ push \in [Pushes -> Conns \cup {NoConn}]
  /\ pushText \in [Pushes -> Nat]
  /\ asked \in Nat
  /\ status \in [Conns -> {"open", "broken", "closed"}]
  /\ shown \in [Conns -> Nat]
  /\ serverUp \in BOOLEAN
  /\ commands \in Nat
  /\ outages \in Nat

\* The client never has two connections: however Close and the reconnections
\* of the manager interleave, the only connection that is not closed is the
\* one the manager works with, and it has none between two rounds of its loop
\* or when it has returned.
OneConnection ==
  \A c \in Conns : status[c] # "closed" => c = mine

\* The server takes commands from a service only once it has seen its menu:
\* the manager does not receive on an open stream before it has registered.
RegisteredBeforeCommands ==
  mpc \in {"recv", "peek", "put"} /\ status[mine] = "open" => shown[mine] # 0

\* The client is resilient: if nobody closes it and the server stays up in the
\* end, it ends up registered for good.
StaysRegistered ==
  (<>[]serverUp /\ []~closed) =>
    <>[](live # NoConn /\ status[live] = "open" /\ shown[live] # 0)

\* Close stops both goroutines, with one exception the code makes: a manager
\* that was connecting while Close ran publishes its stream afterwards and
\* stays on it until the server sends a command or goes away.
CloseStopsClient ==
  closed ~> \/ Panicked
            \/ dpc = "done" /\ mpc = "done"
            \/ dpc = "done" /\ live # NoConn /\ status[live] = "open"

-----------------------------------------------------------------------------
(* What the client promises, see RemoteSession.                            *)

\* An open stream is a session, whichever goroutine sends the first menu on it.
SessionState ==
  IF mine = NoConn \/ status[mine] # "open" THEN "none"
  ELSE IF shown[mine] = 0 THEN "fresh"
  ELSE "registered"

LifeState ==
  IF ~closed THEN "running" ELSE IF mpc = "dial" THEN "closing" ELSE "final"

Session == INSTANCE RemoteSession WITH
             Capacity <- ChanCap,
             session  <- SessionState,
             inHand   <- mpc \in {"peek", "put"},
             pending  <- queued,
             handling <- dpc = "running",
             life     <- LifeState

\* The client implements the remote session: it takes commands only from a server
\* that has its menu, drops one only when the channel is full or the client closed,
\* accepts none that would not be handled, and opens at most one connection after
\* Close, the one it was dialing (client.go:203, 244, 264, 330).
ImplementsSession == Session!Spec

-----------------------------------------------------------------------------
(* Claims of the repository's documentation that the code does not keep.   *)

\* "Close gracefully stops the client" (client.go:330): it does not bring the
\* process down.
CloseIsGraceful == ~Panicked

\* PushMenuUpdate "manually triggers the background transmission of the current
\* UI state" (client.go:165): when every transmission has ended, the server
\* shows the menu that was current at the last push, or a later one.
SettledMenuIsCurrent ==
  /\ mpc = "recv" /\ live = mine /\ live # NoConn /\ status[live] = "open"
  /\ \A p \in Pushes : push[p] = NoConn
  => shown[live] >= asked
==============================================================================
