-------------------------- MODULE TeleClient_proofs --------------------------
(***************************************************************************)
(* What holds of the tele-remote client for any number of connections,     *)
(* pushes and commands.  ConnInv is inductive: it says whose connection is *)
(* open at each control point of the manager, and why the connection of a  *)
(* round is closed again at its end although Close may have interfered.    *)
(***************************************************************************)
EXTENDS TeleClient, TLAPS

Apart     == {"check", "dial", "done"}
Received  == {"recv", "peek", "put", "panicked"}
Published == Received \cup {"generate", "send", "cut"}

ConnInv ==
  /\ OneConnection
  /\ live = NoConn \/ live = mine
  /\ mpc \in Apart => mine = NoConn
  /\ mpc \in Published \cup {"publish"} => mine \in Conns
  /\ mpc = "publish" => live = NoConn
  \* Close took the connection away, and closed it
  /\ mpc \in Published /\ live = NoConn => status[mine] = "closed"

MenuInv ==
  /\ mpc = "send" => text # 0
  /\ mpc \in Received /\ status[mine] = "open" => shown[mine] # 0

-----------------------------------------------------------------------------

\* Every step keeps every variable in its type.
LEMMA TypeStep == TypeOK /\ [Next]_vars => TypeOK'
<1> SUFFICES ASSUME TypeOK, [Next]_vars PROVE TypeOK'
  OBVIOUS
<1> USE NoConnAssumption, BoundsAssumption
    DEF TypeOK, MGoto, manager, dispatcher, pushing, network, env
<1>1. CASE Calls
  BY <1>1 DEF Calls, UpdateActions, PushMenuUpdate, CloseMark
<1>2. CASE CloserStep
  BY <1>2 DEF CloserStep, CloseCut, CloseShut, Disconnect
<1>3. CASE CheckClosed \/ ConnectFails \/ Publish \/ Generate \/ RecvError \/ Peek
  BY <1>3 DEF CheckClosed, ConnectFails, Publish, Generate, RecvError, Peek
<1>4. CASE Connect
  BY <1>4 DEF Connect
<1>5. CASE Register
  BY <1>5 DEF Register, Send
<1>6. CASE Put
  BY <1>6 DEF Put
<1>7. CASE Cut
  BY <1>7 DEF Cut, Disconnect
<1>8. CASE DispatcherStep
  BY <1>8 DEF DispatcherStep, Dispatch, DispatchEnds
<1>9. CASE Server
  <2>1. CASE RecvRefresh \/ RecvCommand
    BY <2>1 DEF RecvRefresh, RecvCommand
  <2>2. CASE ServerDown
    <3>1. status' \in [Conns -> {"open", "broken", "closed"}]
      BY <2>2 DEF ServerDown
    <3>2. serverUp' \in BOOLEAN
      BY <2>2 DEF ServerDown
    <3>3. outages' \in Nat
      BY <2>2 DEF ServerDown
    <3> QED
      BY <2>2, <3>1, <3>2, <3>3, Zenon DEF ServerDown
  <2>3. CASE ServerUp
    BY <2>3 DEF ServerUp
  <2> QED
    BY <1>9, <2>1, <2>2, <2>3 DEF Server
<1>10. ASSUME NEW p \in Pushes, PushStep(p) PROVE TypeOK'
  BY <1>10 DEF PushStep, GeneratePush, SendPush, Send
<1>11. CASE UNCHANGED vars
  BY <1>11 DEF vars
<1> QED
  BY <1>1, <1>2, <1>3, <1>4, <1>5, <1>6, <1>7, <1>8, <1>9, <1>10, <1>11
  DEF Next, ManagerStep

\* Only Connect opens a connection, when there is none; Cut and CloseCut close
\* the published one, and Cut finds it published or closed already.
LEMMA ConnStep == TypeOK /\ ConnInv /\ [Next]_vars => ConnInv'
<1> SUFFICES ASSUME TypeOK, ConnInv, [Next]_vars PROVE ConnInv'
  OBVIOUS
<1> USE NoConnAssumption
    DEF TypeOK, ConnInv, OneConnection, Apart, Received, Published, MGoto, manager,
        dispatcher, pushing, network, env
<1>1. CASE Calls
  BY <1>1 DEF Calls, UpdateActions, PushMenuUpdate, CloseMark
<1>2. CASE CloserStep
  BY <1>2 DEF CloserStep, CloseCut, CloseShut, Disconnect
<1>3. CASE CheckClosed \/ ConnectFails \/ Generate \/ RecvError \/ Peek
  BY <1>3 DEF CheckClosed, ConnectFails, Generate, RecvError, Peek
<1>4. CASE Connect
  BY <1>4 DEF Connect, Unused
<1>5. CASE Publish
  BY <1>5 DEF Publish
<1>6. CASE Register
  BY <1>6 DEF Register
<1>7. CASE Put
  BY <1>7 DEF Put
<1>8. CASE Cut
  BY <1>8 DEF Cut, Disconnect
<1>9. CASE DispatcherStep
  BY <1>9 DEF DispatcherStep, Dispatch, DispatchEnds
<1>10. CASE Server
  BY <1>10 DEF Server, RecvRefresh, RecvCommand, ServerDown, ServerUp
<1>11. ASSUME NEW p \in Pushes, PushStep(p) PROVE ConnInv'
  BY <1>11 DEF PushStep, GeneratePush, SendPush
<1>12. CASE UNCHANGED vars
  BY <1>12 DEF vars
<1> QED
  BY <1>1, <1>2, <1>3, <1>4, <1>5, <1>6, <1>7, <1>8, <1>9, <1>10, <1>11, <1>12
  DEF Next, ManagerStep

\* The manager registers on its connection before it receives, and nobody
\* takes the menu away from the server again.
LEMMA MenuStep == TypeOK /\ ConnInv /\ MenuInv /\ [Next]_vars => MenuInv'
<1> SUFFICES ASSUME TypeOK, ConnInv, MenuInv, [Next]_vars PROVE MenuInv'
  OBVIOUS
<1> USE NoConnAssumption
    DEF TypeOK, MenuInv, Received, MGoto, manager, dispatcher, pushing, network, env
<1>1. CASE Calls
  BY <1>1 DEF Calls, UpdateActions, PushMenuUpdate, CloseMark
<1>2. CASE CloserStep
  BY <1>2 DEF CloserStep, CloseCut, CloseShut, Disconnect, ConnInv, Published
<1>3. CASE CheckClosed \/ ConnectFails \/ Publish \/ RecvError \/ Peek \/ Cut
  BY <1>3 DEF CheckClosed, ConnectFails, Publish, RecvError, Peek, Cut
<1>4. CASE Connect
  BY <1>4 DEF Connect
<1>5. CASE Generate
  BY <1>5 DEF Generate
<1>6. CASE Register
  BY <1>6 DEF Register, Send, ConnInv, Published
<1>7. CASE Put
  BY <1>7 DEF Put
<1>8. CASE DispatcherStep
  BY <1>8 DEF DispatcherStep, Dispatch, DispatchEnds
<1>9. CASE Server
  BY <1>9 DEF Server, RecvRefresh, RecvCommand, ServerDown, ServerUp, ConnInv, Published
<1>10. ASSUME NEW p \in Pushes, PushStep(p) PROVE MenuInv'
  BY <1>10 DEF PushStep, GeneratePush, SendPush, Send, ConnInv, Published
<1>11. CASE UNCHANGED vars
  BY <1>11 DEF vars
<1> QED
  BY <1>1, <1>2, <1>3, <1>4, <1>5, <1>6, <1>7, <1>8, <1>9, <1>10, <1>11
  DEF Next, ManagerStep

\* The invariant holds always.
LEMMA Inductive == Spec => [](TypeOK /\ ConnInv /\ MenuInv)
<1>1. Init => TypeOK
  BY NoConnAssumption, BoundsAssumption DEF Init, TypeOK
<1>2. Init => ConnInv /\ MenuInv
  BY DEF Init, ConnInv, OneConnection, MenuInv, Apart, Received, Published
<1> QED
  BY <1>1, <1>2, TypeStep, ConnStep, MenuStep, PTL DEF Spec

\* Every reachable state is well typed; in particular the channel never holds
\* more than its capacity.
THEOREM ClientTypeCorrect == Spec => []TypeOK
BY Inductive, PTL

\* The client never has a second connection, and none between two rounds.
THEOREM ConnectionIsOne == Spec => []OneConnection
<1>1. ConnInv => OneConnection
  BY DEF ConnInv
<1> QED
  BY <1>1, Inductive, PTL

\* The manager receives only from a server that has its menu.
THEOREM RegistrationFirst == Spec => []RegisteredBeforeCommands
<1>1. MenuInv => RegisteredBeforeCommands
  BY DEF MenuInv, RegisteredBeforeCommands, Received
<1> QED
  BY <1>1, Inductive, PTL

-----------------------------------------------------------------------------
(* The client implements the remote session.                               *)

InHand   == mpc \in {"peek", "put"}
Handling == dpc = "running"

\* The dispatcher ends only after the channel was closed.
DoneInv == dpc = "done" => ChanClosed

\* Every step keeps it so.
LEMMA DoneStep == TypeOK /\ DoneInv /\ [Next]_vars => DoneInv'
<1> SUFFICES ASSUME TypeOK, DoneInv, [Next]_vars PROVE DoneInv'
  OBVIOUS
<1> USE DEF DoneInv, ChanClosed, dispatcher
<1>1. CASE Calls
  BY <1>1 DEF Calls, UpdateActions, PushMenuUpdate, CloseMark
<1>2. CASE CloserStep
  BY <1>2 DEF CloserStep, CloseCut, CloseShut
<1>3. CASE ManagerStep
  BY <1>3 DEF ManagerStep, CheckClosed, Connect, ConnectFails, Publish, Generate, Register,
              RecvError, Peek, Put, Cut
<1>4. CASE DispatcherStep
  BY <1>4 DEF DispatcherStep, Dispatch, DispatchEnds
<1>5. CASE Server
  BY <1>5 DEF Server, RecvRefresh, RecvCommand, ServerDown, ServerUp
<1>6. ASSUME NEW p \in Pushes, PushStep(p) PROVE DoneInv'
  BY <1>6 DEF PushStep, GeneratePush, SendPush
<1>7. CASE UNCHANGED vars
  BY <1>7 DEF vars
<1> QED
  BY <1>1, <1>2, <1>3, <1>4, <1>5, <1>6, <1>7 DEF Next

\* What the abstract state is made of, and when it is unchanged.
LEMMA Unseen ==
  ASSUME SessionState' = SessionState, InHand' <=> InHand, queued' = queued,
         Handling' <=> Handling, LifeState' = LifeState
  PROVE  UNCHANGED Session!vars
BY DEF Session!vars, InHand, Handling

\* The session follows the stream of the manager.
LEMMA SameSession ==
  ASSUME mine' = mine, status' = status, shown' = shown
  PROVE  SessionState' = SessionState
BY DEF SessionState

\* A menu sent on any stream shows it in the session, or is lost with its stream.
LEMMA SendShows ==
  ASSUME TypeOK, ConnInv, NEW c \in Conns, NEW m \in Nat \ {0}, Send(c, m),
         mine' = mine, status' = status, closer' = closer, dpc' = dpc,
         queued' = queued, InHand' <=> InHand, mpc = "dial" <=> mpc' = "dial"
  PROVE  [Session!Next]_(Session!vars)
<1>1. LifeState' = LifeState /\ (Handling' <=> Handling)
  BY DEF LifeState, closed, Handling
<1>2. CASE status[c] # "open"
  <2>1. SessionState' = SessionState
    BY <1>2, SameSession DEF Send
  <2>2. QED  BY <1>1, <2>1, Unseen
<1>3. CASE status[c] = "open"
  <2>1. c = mine /\ mine # NoConn
    BY <1>3, NoConnAssumption DEF ConnInv, OneConnection
  <2>2. SessionState' = "registered" /\ SessionState \in {"fresh", "registered"}
    BY <1>3, <2>1 DEF Send, SessionState, TypeOK
  <2>3. CASE SessionState = "registered"
    BY <1>1, <2>2, <2>3, Unseen
  <2>4. CASE SessionState = "fresh"
    <3>1. Session!Show
      BY <1>1, <2>2, <2>4 DEF Session!Show, InHand, Handling
    <3>2. QED  BY <3>1 DEF Session!Next
  <2>5. QED  BY <2>2, <2>3, <2>4
<1>4. QED  BY <1>2, <1>3

\* A step that closes the stream, or breaks it, loses the session if there is one.
LEMMA LosingRefines ==
  ASSUME InHand' <=> InHand, queued' = queued, Handling' <=> Handling,
         LifeState' = LifeState,
         SessionState' = SessionState \/ SessionState' = "none"
  PROVE  [Session!Next]_(Session!vars)
<1>1. CASE SessionState' = SessionState
  BY <1>1, Unseen
<1>2. CASE SessionState' = "none"
  BY <1>2 DEF Session!Next, Session!Lose, InHand, Handling
<1>3. QED  BY <1>1, <1>2

\* The service's calls and Close.
LEMMA CallsRefine ==
  ASSUME TypeOK, ConnInv, Calls \/ CloserStep
  PROVE  [Session!Next]_(Session!vars)
<1>1. mpc' = mpc /\ mine' = mine /\ shown' = shown /\ dpc' = dpc /\ queued' = queued
  BY DEF Calls, UpdateActions, PushMenuUpdate, CloseMark, CloserStep, CloseCut, CloseShut,
         Disconnect, manager, dispatcher, network
<1>2. (InHand' <=> InHand) /\ (Handling' <=> Handling)
  BY <1>1 DEF InHand, Handling
<1>3. CASE UpdateActions \/ PushMenuUpdate \/ CloseShut
  <2>1. status' = status /\ LifeState' = LifeState
    BY <1>1, <1>3 DEF UpdateActions, PushMenuUpdate, CloseShut, network, LifeState, closed
  <2>2. QED  BY <1>1, <1>2, <2>1, SameSession, Unseen
<1>4. CASE CloseMark
  <2>1. SessionState' = SessionState
    BY <1>1, <1>4, SameSession DEF CloseMark, network
  <2>2. LifeState = "running" /\ LifeState' \in {"closing", "final"}
    BY <1>1, <1>4 DEF CloseMark, LifeState, closed
  <2>3. Session!Close
    BY <1>1, <1>2, <2>1, <2>2 DEF Session!Close, InHand, Handling
  <2>4. QED  BY <2>3 DEF Session!Next
<1>5. CASE CloseCut
  <2>1. LifeState' = LifeState
    BY <1>1, <1>5 DEF CloseCut, LifeState, closed
  <2>2. SessionState' = SessionState \/ SessionState' = "none"
    BY <1>1, <1>5 DEF CloseCut, Disconnect, SessionState, TypeOK
  <2>3. QED  BY <1>1, <1>2, <2>1, <2>2, LosingRefines
<1>6. QED  BY <1>3, <1>4, <1>5 DEF Calls, CloserStep

\* The manager between two rounds.
LEMMA RoundRefines ==
  ASSUME TypeOK, ConnInv, CheckClosed \/ Connect \/ ConnectFails \/ Cut
  PROVE  [Session!Next]_(Session!vars)
<1>1. /\ closer' = closer /\ dpc' = dpc /\ queued' = queued
      /\ ~InHand /\ ~InHand' /\ (Handling' <=> Handling)
  BY DEF CheckClosed, Connect, ConnectFails, Cut, MGoto, dispatcher, InHand, Handling
<1>2. CASE CheckClosed
  <2>1. SessionState' = SessionState
    BY <1>2, SameSession DEF CheckClosed, network
  <2>2. LifeState' = LifeState
    BY <1>1, <1>2 DEF CheckClosed, MGoto, LifeState, closed
  <2>3. QED  BY <1>1, <2>1, <2>2, Unseen
<1>3. CASE Connect
  <2>1. SessionState = "none" /\ SessionState' = "fresh"
    BY <1>3, NoConnAssumption DEF Connect, SessionState, TypeOK, ConnInv, Apart
  <2>2. LifeState # "final" /\
        LifeState' = IF LifeState = "closing" THEN "final" ELSE LifeState
    BY <1>1, <1>3 DEF Connect, MGoto, LifeState, closed
  <2>3. Session!Open
    BY <1>1, <2>1, <2>2 DEF Session!Open, InHand, Handling
  <2>4. QED  BY <2>3 DEF Session!Next
<1>4. CASE ConnectFails
  <2>1. SessionState' = SessionState
    BY <1>4, SameSession DEF ConnectFails, network
  <2>2. CASE ~closed
    <3>1. LifeState' = LifeState
      BY <1>1, <2>2 DEF LifeState, closed
    <3>2. QED  BY <1>1, <2>1, <3>1, Unseen
  <2>3. CASE closed
    <3>1. LifeState = "closing" /\ LifeState' = "final"
      BY <1>1, <1>4, <2>3 DEF ConnectFails, MGoto, LifeState, closed
    <3>2. Session!GiveUp
      BY <1>1, <2>1, <3>1 DEF Session!GiveUp, InHand, Handling
    <3>3. QED  BY <3>2 DEF Session!Next
  <2>4. QED  BY <2>2, <2>3
<1>5. CASE Cut
  <2>1. LifeState' = LifeState
    BY <1>1, <1>5 DEF Cut, MGoto, LifeState, closed
  <2>2. SessionState' = "none"
    BY <1>5 DEF Cut, SessionState
  <2>3. QED  BY <1>1, <2>1, <2>2, LosingRefines
<1>6. QED  BY <1>2, <1>3, <1>4, <1>5

\* The manager on its stream, and with a command in hand.
LEMMA StreamRefines ==
  ASSUME TypeOK, ConnInv, MenuInv, DoneInv,
         \/ Publish \/ Generate \/ Register \/ RecvError \/ Peek \/ Put
         \/ RecvRefresh \/ RecvCommand
  PROVE  [Session!Next]_(Session!vars)
<1>1. /\ closer' = closer /\ dpc' = dpc /\ mine' = mine /\ status' = status
      /\ mpc # "dial" /\ mpc' # "dial"
      /\ (Handling' <=> Handling)
  BY DEF Publish, Generate, Register, RecvError, Peek, Put, RecvRefresh, RecvCommand,
         MGoto, closed, manager, dispatcher, network, Handling
<1>2. LifeState' = LifeState
  BY <1>1 DEF LifeState, closed
<1>3. CASE Publish \/ Generate \/ RecvError \/ RecvRefresh
  <2>1. shown' = shown /\ queued' = queued /\ ~InHand /\ ~InHand'
    BY <1>3 DEF Publish, Generate, RecvError, RecvRefresh, MGoto, network, dispatcher, InHand
  <2>2. QED  BY <1>1, <1>2, <2>1, SameSession, Unseen
<1>4. CASE Register
  <2>1. /\ mine \in Conns /\ text \in Nat \ {0} /\ Send(mine, text)
        /\ queued' = queued /\ ~InHand /\ ~InHand'
    BY <1>4 DEF Register, MGoto, dispatcher, InHand, MenuInv, ConnInv, Published, TypeOK
  <2>2. QED  BY <1>1, <2>1, SendShows
<1>5. CASE RecvCommand
  <2>1. SessionState = "registered"
    BY <1>5, NoConnAssumption
       DEF RecvCommand, SessionState, MenuInv, Received, ConnInv, Published, TypeOK
  <2>2. SessionState' = SessionState /\ queued' = queued /\ ~InHand /\ InHand'
    BY <1>1, <1>5, SameSession DEF RecvCommand, MGoto, network, dispatcher, InHand
  <2>3. Session!Take
    BY <1>1, <1>2, <2>1, <2>2 DEF Session!Take, InHand, Handling
  <2>4. QED  BY <2>3 DEF Session!Next
<1>6. CASE Peek \/ Put
  <2>1. SessionState' = SessionState /\ InHand
    BY <1>1, <1>6, SameSession DEF Peek, Put, network, InHand
  <2>2. CASE queued' = queued /\ InHand'
    BY <1>1, <1>2, <2>1, <2>2, Unseen
  <2>3. CASE queued' = queued /\ ~InHand' /\ (queued = ChanCap \/ closed)
    <3>1. closed => LifeState # "running"
      BY DEF LifeState
    <3>2. Session!Discard
      BY <1>1, <1>2, <2>1, <2>3, <3>1 DEF Session!Discard, InHand, Handling
    <3>3. QED  BY <3>2 DEF Session!Next
  <2>4. CASE queued < ChanCap /\ queued' = queued + 1 /\ ~InHand' /\ Handling
    <3>1. Session!Accept
      BY <1>1, <1>2, <2>1, <2>4 DEF Session!Accept, InHand, Handling
    <3>2. QED  BY <3>1 DEF Session!Next
  <2>5. Peek => queued' = queued /\ (InHand' \/ closed)
    BY DEF Peek, MGoto, dispatcher, InHand
  <2>6. Put => \/ queued' = queued /\ ~InHand' /\ (queued = ChanCap \/ closed)
               \/ queued < ChanCap /\ queued' = queued + 1 /\ ~InHand' /\ Handling
    BY BoundsAssumption
       DEF Put, MGoto, InHand, Handling, DoneInv, ChanClosed, closed, TypeOK
  <2>7. QED  BY <1>6, <2>2, <2>3, <2>4, <2>5, <2>6
<1>7. QED  BY <1>3, <1>4, <1>5, <1>6

\* The dispatcher, the server going and coming, and the pushes.
LEMMA RestRefines ==
  ASSUME TypeOK, ConnInv,
         \/ DispatcherStep \/ ServerDown \/ ServerUp
         \/ \E p \in Pushes : PushStep(p)
  PROVE  [Session!Next]_(Session!vars)
<1>1. /\ closer' = closer /\ mpc' = mpc /\ mine' = mine
  BY DEF DispatcherStep, Dispatch, DispatchEnds, ServerDown, ServerUp, PushStep,
         GeneratePush, SendPush, manager
<1>2. LifeState' = LifeState /\ (InHand' <=> InHand)
  BY <1>1 DEF LifeState, closed, InHand
<1>3. CASE DispatcherStep
  <2>1. SessionState' = SessionState
    BY <1>1, <1>3, SameSession DEF DispatcherStep, Dispatch, DispatchEnds, network
  <2>2. CASE Dispatch
    <3>1. Handling /\ Handling' /\ queued > 0 /\ queued' = queued - 1
      BY <2>2 DEF Dispatch, Handling
    <3>2. Session!Handle
      BY <1>2, <2>1, <3>1 DEF Session!Handle, InHand, Handling
    <3>3. QED  BY <3>2 DEF Session!Next
  <2>3. CASE DispatchEnds
    <3>1. /\ Handling /\ ~Handling' /\ queued = 0 /\ queued' = queued
          /\ LifeState # "running"
      BY <2>3 DEF DispatchEnds, Handling, ChanClosed, closed, LifeState
    <3>2. Session!EndHandling
      BY <1>2, <2>1, <3>1 DEF Session!EndHandling, InHand, Handling
    <3>3. QED  BY <3>2 DEF Session!Next
  <2>4. QED  BY <1>3, <2>2, <2>3 DEF DispatcherStep
<1>4. CASE ServerDown \/ ServerUp
  <2>1. queued' = queued /\ (Handling' <=> Handling)
    BY <1>4 DEF ServerDown, ServerUp, dispatcher, Handling
  <2>2. SessionState' = SessionState \/ SessionState' = "none"
    BY <1>1, <1>4 DEF ServerDown, ServerUp, network, SessionState, TypeOK
  <2>3. QED  BY <1>2, <2>1, <2>2, LosingRefines
<1>5. ASSUME NEW p \in Pushes, PushStep(p)
      PROVE  [Session!Next]_(Session!vars)
  <2>1. queued' = queued /\ dpc' = dpc /\ (Handling' <=> Handling) /\ status' = status
    BY <1>5 DEF PushStep, GeneratePush, SendPush, dispatcher, network, Handling
  <2>2. CASE GeneratePush(p)
    BY <1>1, <1>2, <2>1, <2>2, SameSession, Unseen DEF GeneratePush, network
  <2>3. CASE SendPush(p)
    <3>1. push[p] \in Conns /\ pushText[p] \in Nat \ {0}
      BY <2>3 DEF SendPush, TypeOK
    <3>2. Send(push[p], pushText[p])
      BY <2>3 DEF SendPush
    <3>3. QED  BY <1>1, <1>2, <2>1, <3>1, <3>2, SendShows
  <2>4. QED  BY <1>5, <2>2, <2>3 DEF PushStep
<1>6. QED  BY <1>3, <1>4, <1>5

\* Every step is an abstract step or a stutter.
LEMMA SessionStep ==
  TypeOK /\ ConnInv /\ MenuInv /\ DoneInv /\ [Next]_vars
    => [Session!Next]_(Session!vars)
<1> SUFFICES ASSUME TypeOK, ConnInv, MenuInv, DoneInv, [Next]_vars
             PROVE  [Session!Next]_(Session!vars)
  OBVIOUS
<1>1. CASE UNCHANGED vars
  BY <1>1, SameSession, Unseen
     DEF vars, manager, dispatcher, network, InHand, Handling, LifeState, closed
<1> QED
  BY <1>1, CallsRefine, RoundRefines, StreamRefines, RestRefines
     DEF Next, ManagerStep, Server

\* Whatever Close, the pushes, the server and the reconnections do to one another,
\* the service sees a RemoteSession: each step of the client is one of its steps or
\* is not seen (client.go:203-330).
THEOREM SessionRefinement == Spec => ImplementsSession
<1>1. Init => Session!Init
  BY DEF Init, Session!Init, SessionState, LifeState, closed
<1>2. Init => DoneInv
  BY DEF Init, DoneInv
<1> QED
  BY <1>1, <1>2, DoneStep, SessionStep, Inductive, PTL
     DEF Spec, ImplementsSession, Session!Spec

==============================================================================
