------------------------ MODULE SpecPublisher_proofs ------------------------
(***************************************************************************)
(* Proofs about Lifecycle and SpecPublisher, for any hooks, of which any   *)
(* throw or register others, any publishers and any number of checks.      *)
(***************************************************************************)
EXTENDS SpecPublisher, TLAPS

-----------------------------------------------------------------------------
(* The lifecycle manager                                                   *)

\* What the iterator has left and what has run add up to the list, which
\* nobody extends meanwhile; afterwards it may only have grown.
Progress ==
  /\ main \in {"setup", "polling", "killed"} => ran = <<>>
  /\ main \in {"running", "stuck"} =>
       it \in 0..Len(cleanups) /\ Len(ran) = Len(cleanups) - it
  /\ main = "done" => Len(ran) <= Len(cleanups)

LInv == LifecycleTypeOK /\ Progress

\* The invariant of the manager holds initially.
LEMMA LifecycleInitInv == LifecycleInit => LInv
<1> SUFFICES ASSUME LifecycleInit PROVE LInv
  OBVIOUS
<1>1. shutdown_requested \in BOOLEAN
  BY Zenon DEF LifecycleInit
<1>2. cleanups \in Seq(Hooks) /\ ran \in Seq(Hooks) /\ it \in Nat
  BY DEF LifecycleInit
<1>3. main = "setup" /\ instance = "this" /\ ran = <<>>
  BY Zenon DEF LifecycleInit
<1>4. QED
  BY <1>1, <1>2, <1>3 DEF LInv, LifecycleTypeOK, Progress

\* Every step of the manager keeps it.
LEMMA LifecycleStepInv ==
  ASSUME LInv, [LifecycleNext]_lifecycle
  PROVE  LInv'
<1> USE DEF LInv, LifecycleTypeOK, Progress
<1>1. ASSUME NEW h \in Hooks, Register(h) PROVE LInv'
  <2>1. /\ cleanups' \in Seq(Hooks)
        /\ Len(cleanups') = Len(cleanups) + 1
    BY <1>1 DEF Register
  <2>2. shutdown_requested' \in BOOLEAN
    BY <1>1, Zenon DEF Register
  <2>3. QED
    BY <1>1, <2>1, <2>2 DEF Register, Free
<1>2. CASE ConstructOther \/ DestroyOther
  <2>1. shutdown_requested' \in BOOLEAN
    BY <1>2, Zenon DEF ConstructOther, DestroyOther
  <2>2. QED
    BY <1>2, <2>1 DEF ConstructOther, DestroyOther
<1>3. CASE InstallHandlers \/ EarlySignal \/ Finish
  <2>1. shutdown_requested' \in BOOLEAN
    BY <1>3, Zenon DEF InstallHandlers, EarlySignal, Finish
  <2>2. QED
    BY <1>3, <2>1 DEF InstallHandlers, EarlySignal, Finish
<1>4. CASE RequestShutdown
  BY <1>4 DEF RequestShutdown
<1>5. CASE StartCleanups
  <2>1. shutdown_requested' \in BOOLEAN
    BY <1>5, Zenon DEF StartCleanups
  <2>2. QED
    BY <1>5, <2>1 DEF StartCleanups
<1>6. CASE RunHook
  <2>1. shutdown_requested' \in BOOLEAN
    BY <1>6, Zenon DEF RunHook
  <2>2. it \in 1..Len(cleanups) /\ NextHook \in Hooks
    BY <1>6 DEF RunHook, NextHook
  <2>3. ran' \in Seq(Hooks) /\ Len(ran') = Len(ran) + 1
    BY <1>6, <2>2 DEF RunHook
  <2>4. UNCHANGED <<cleanups, instance, main>> /\ main = "running" /\ it' = it - 1
    BY <1>6 DEF RunHook
  <2>5. Len(cleanups) \in Nat /\ Len(ran) = Len(cleanups) - it
    BY <2>4
  <2>6. /\ it' \in 0..Len(cleanups)
        /\ it' \in Nat
        /\ Len(ran') = Len(cleanups) - it'
    <3> HIDE DEF LInv, LifecycleTypeOK, Progress
    <3>1. QED
      BY <2>2, <2>3, <2>4, <2>5
  <2>7. QED
    BY <2>1, <2>3, <2>4, <2>6
<1>7. CASE RunNestingHook
  <2>1. shutdown_requested' \in BOOLEAN
    BY <1>7, Zenon DEF RunNestingHook
  <2>2. QED
    BY <1>7, <2>1 DEF RunNestingHook
<1>8. CASE UNCHANGED lifecycle
  BY <1>8 DEF lifecycle
<1>9. QED
  BY <1>1, <1>2, <1>3, <1>4, <1>5, <1>6, <1>7, <1>8 DEF LifecycleNext

\* Up to the end of the shutdown the abstract list is the list.
LEMMA ToRunIsAll ==
  ASSUME LInv, main \in {"running", "stuck"}, it = 0
  PROVE  SubSeq(cleanups, 1, Len(ran)) = cleanups
BY DEF LInv, LifecycleTypeOK, Progress

\* A late registration is not seen by it.
LEMMA ToRunIgnoresLate ==
  ASSUME LInv, main = "done", NEW h \in Hooks
  PROVE  SubSeq(Append(cleanups, h), 1, Len(ran)) = SubSeq(cleanups, 1, Len(ran))
BY DEF LInv, LifecycleTypeOK, Progress

\* Every step of the manager is a step of the abstract shutdown, or none.
LEMMA LifecycleStepSimulation ==
  ASSUME LInv, [LifecycleNext]_lifecycle
  PROVE  [Orderly!Next]_(Orderly!vars)
<1> USE DEF LInv, LifecycleTypeOK, Orderly!Next, Orderly!vars
<1>1. ASSUME NEW h \in Hooks, Register(h) PROVE [Orderly!Next]_(Orderly!vars)
  <2>1. CASE main = "done"
    BY <1>1, <2>1, ToRunIgnoresLate DEF Register, ToRun, Phase
  <2>2. CASE main \in {"setup", "polling"}
    <3>1. Orderly!Register(h)
      BY <1>1, <2>2 DEF Register, Orderly!Register, ToRun, Phase
    <3>2. QED
      BY <3>1
  <2>3. QED
    BY <1>1, <2>1, <2>2 DEF Register, Free
<1>2. CASE \/ ConstructOther \/ DestroyOther \/ InstallHandlers \/ EarlySignal
           \/ RequestShutdown \/ RunNestingHook
  <2>1. UNCHANGED <<ToRun, ran, Phase>>
    BY <1>2 DEF ConstructOther, DestroyOther, InstallHandlers, EarlySignal,
                RequestShutdown, RunNestingHook, ToRun, Phase
  <2>2. QED
    BY <2>1
<1>3. CASE StartCleanups
  <2>1. Orderly!Begin
    BY <1>3 DEF StartCleanups, Orderly!Begin, ToRun, Phase
  <2>2. QED
    BY <2>1
<1>4. CASE RunHook
  <2>1. /\ it \in 1..Len(cleanups)
        /\ it = Len(cleanups) - Len(ran)
    BY <1>4 DEF RunHook, Progress
  <2>2. Orderly!Run
    BY <1>4, <2>1 DEF RunHook, NextHook, Orderly!Run, ToRun, Phase
  <2>3. QED
    BY <2>2
<1>5. CASE Finish
  <2>1. Len(ran) = Len(cleanups)
    BY <1>5 DEF Finish, Progress
  <2>2. UNCHANGED <<ToRun, ran>>
    BY <1>5, ToRunIsAll DEF Finish, ToRun
  <2>3. Orderly!Finish
    BY <1>5, <2>1, <2>2 DEF Finish, Orderly!Finish, ToRun, Phase
  <2>4. QED
    BY <2>3
<1>6. CASE UNCHANGED lifecycle
  BY <1>6 DEF lifecycle, ToRun, Phase
<1>7. QED
  BY <1>1, <1>2, <1>3, <1>4, <1>5, <1>6 DEF LifecycleNext

\* The manager alone, with hooks that do anything to the rest of the world, is
\* an orderly shutdown.
THEOREM LifecycleRefinement == LifecycleSpec => ImplementsOrderlyShutdown
<1>1. LifecycleInit => Orderly!Init
  BY DEF LifecycleInit, Orderly!Init, ToRun, Phase
<1>2. QED
  BY <1>1, LifecycleInitInv, LifecycleStepInv, LifecycleStepSimulation, PTL
     DEF LifecycleSpec, ImplementsOrderlyShutdown, Orderly!Spec

-----------------------------------------------------------------------------
(* The manager in the composition                                          *)

\* A step of the composed system is a step of the manager, or none.
LEMMA ComposedStep == [Next]_allVars => [LifecycleNext]_lifecycle
<1> SUFFICES ASSUME [Next]_allVars PROVE [LifecycleNext]_lifecycle
  OBVIOUS
<1>1. ASSUME NEW p \in Publishers, Refuse(p) \/ Spawn(p)
      PROVE  UNCHANGED lifecycle
  BY <1>1 DEF Refuse, Spawn
<1>2. ASSUME NEW p \in Publishers, Bind(p) PROVE LifecycleNext
  BY <1>2, PublishersAssumption DEF Bind, LifecycleNext
<1>3. ASSUME NEW p \in Publishers, Heartbeat(p) PROVE UNCHANGED lifecycle
  BY <1>3 DEF Heartbeat, LoopHead, ResolveFails, Resolve, SocketFails, OpenSocket,
              ConnectFails, Connect, Send, Receive, Check, PauseEnds
<1>4. ASSUME NEW h \in Hooks, RegisterPlain(h) PROVE LifecycleNext
  BY <1>4 DEF RegisterPlain, LifecycleNext
<1>5. CASE Shutdown \/ Outside
  BY <1>5 DEF Shutdown, Outside, RunAnyHook, LifecycleNext
<1>6. CASE UNCHANGED allVars
  BY <1>6 DEF allVars
<1>7. QED
  BY <1>1, <1>2, <1>3, <1>4, <1>5, <1>6 DEF Next

\* Publishers, their hooks included, leave the manager an orderly shutdown.
THEOREM PublisherRefinement == Spec => ImplementsOrderlyShutdown
<1>1. Init => LifecycleInit
  BY DEF Init
<1>2. QED
  BY <1>1, ComposedStep, LifecycleRefinement, PTL DEF Spec, LifecycleSpec
-----------------------------------------------------------------------------

(* The heartbeat                                                           *)

\* A thread exists once its caller has started it.
StartedFirst ==
  \A p \in Publishers : caller[p] = "none" => pub[p] = "none"

\* After its late post a thread is on its way out.
LastPost ==
  \A p \in Publishers :
    latePosts[p] # 0 => /\ stopFlag[p]
                        /\ latePosts[p] = 1
                        /\ pub[p] \in {"recv", "pause", "head", "ended"}

\* The types of the counters and control points, without the flags.
PublisherTypes ==
  /\ caller \in [Publishers -> {"none", "refused", "spawned", "bound"}]
  /\ pub \in [Publishers -> Posting \cup {"none", "head", "pause", "ended"}]
  /\ checks \in [Publishers -> 0..Checks]
  /\ latePosts \in [Publishers -> 0..MaxPosts]

FlagTypes ==
  /\ stopFlag \in [Publishers -> BOOLEAN]
  /\ resolved \in [Publishers -> BOOLEAN]
  /\ fd \in [Publishers -> BOOLEAN]

PInv ==
  /\ PublisherTypes
  /\ FlagTypes
  /\ StartedFirst
  /\ NothingLeftOver
  /\ LastPost

\* The invariant of the publishers holds initially.
LEMMA InitPInv == Init => PInv
<1> SUFFICES ASSUME Init PROVE PInv
  OBVIOUS
<1>1. PublisherTypes /\ StartedFirst /\ LastPost
  BY ChecksAssumption
     DEF Init, PublisherTypes, StartedFirst, LastPost, Posting
<1>2. FlagTypes /\ NothingLeftOver
  BY DEF Init, FlagTypes, NothingLeftOver
<1>3. QED
  BY <1>1, <1>2 DEF PInv

\* A step of a heartbeat thread keeps the types.
LEMMA HeartbeatTypes ==
  ASSUME PInv, NEW p \in Publishers, Heartbeat(p)
  PROVE  PublisherTypes' /\ FlagTypes'
<1>1. PublisherTypes'
  BY ChecksAssumption
     DEF Heartbeat, LoopHead, ResolveFails, Resolve, SocketFails, OpenSocket,
         ConnectFails, Connect, Send, Receive, Check, PauseEnds, PostEnds, Goto,
         network, PInv, PublisherTypes, Posting
<1>2. FlagTypes'
  BY DEF Heartbeat, LoopHead, ResolveFails, Resolve, SocketFails, OpenSocket,
         ConnectFails, Connect, Send, Receive, Check, PauseEnds, PostEnds, Goto,
         network, PInv, FlagTypes
<1>3. QED
  BY <1>1, <1>2

\* A step of a heartbeat thread keeps the invariant.
LEMMA HeartbeatKeepsPInv ==
  ASSUME PInv, NEW p \in Publishers, Heartbeat(p)
  PROVE  PInv'
<1>1. PublisherTypes' /\ FlagTypes'
  BY HeartbeatTypes
<1>2. StartedFirst'
  BY DEF Heartbeat, LoopHead, ResolveFails, Resolve, SocketFails, OpenSocket,
         ConnectFails, Connect, Send, Receive, Check, PauseEnds, PostEnds, Goto,
         PInv, PublisherTypes, StartedFirst
<1>3. NothingLeftOver'
  BY DEF Heartbeat, LoopHead, ResolveFails, Resolve, SocketFails, OpenSocket,
         ConnectFails, Connect, Send, Receive, Check, PauseEnds, PostEnds, Goto,
         network, PInv, PublisherTypes, FlagTypes, NothingLeftOver
<1>4. LastPost'
  <2>1. CASE Send(p)
    BY <2>1, ChecksAssumption
       DEF Send, Goto, PInv, PublisherTypes, FlagTypes, LastPost
  <2>2. CASE LoopHead(p)
    BY <2>2 DEF LoopHead, Stopped, Goto, PInv, PublisherTypes, FlagTypes, LastPost
  <2>3. CASE Check(p) \/ PauseEnds(p) \/ Receive(p)
    BY <2>3 DEF Check, PauseEnds, Receive, PostEnds, Goto, PInv, PublisherTypes,
                FlagTypes, LastPost
  <2>4. CASE \/ ResolveFails(p) \/ Resolve(p) \/ SocketFails(p) \/ OpenSocket(p)
             \/ ConnectFails(p) \/ Connect(p)
    BY <2>4 DEF ResolveFails, Resolve, SocketFails, OpenSocket, ConnectFails,
                Connect, PostEnds, Goto, PInv, PublisherTypes, FlagTypes, LastPost
  <2>5. QED
    BY <2>1, <2>2, <2>3, <2>4 DEF Heartbeat
<1>5. QED
  BY <1>1, <1>2, <1>3, <1>4 DEF PInv

\* So does a step of PublishWithLifecycle.
LEMMA CallerKeepsPInv ==
  ASSUME PInv, NEW p \in Publishers, Refuse(p) \/ Spawn(p) \/ Bind(p)
  PROVE  PInv'
<1>1. PublisherTypes'
  BY DEF Refuse, Spawn, Bind, PInv, PublisherTypes, Posting
<1>2. UNCHANGED <<stopFlag, fd, resolved, latePosts>>
  BY DEF Refuse, Spawn, Bind, network
<1>3. FlagTypes'
  BY <1>2 DEF PInv, FlagTypes
<1>4. StartedFirst'
  BY DEF Refuse, Spawn, Bind, PInv, PublisherTypes, StartedFirst
<1>5. \A q \in Publishers : pub'[q] = pub[q] \/ (pub[q] = "none" /\ pub'[q] = "head")
  BY DEF Refuse, Spawn, Bind, PInv, PublisherTypes, StartedFirst
<1>6. NothingLeftOver'
  BY <1>2, <1>5 DEF PInv, NothingLeftOver
<1>7. LastPost'
  BY <1>2, <1>5 DEF PInv, LastPost
<1>8. QED
  BY <1>1, <1>3, <1>4, <1>6, <1>7 DEF PInv

\* A hook raises a flag and does nothing else.
LEMMA HooksKeepPInv ==
  ASSUME PInv, Shutdown \/ Outside \/ (\E h \in Hooks : RegisterPlain(h))
               \/ UNCHANGED allVars
  PROVE  PInv'
<1>1. UNCHANGED <<caller, pub, checks, fd, resolved, latePosts>>
  BY DEF Shutdown, RunAnyHook, Outside, RegisterPlain, publishing, network, allVars
<1>2. \/ UNCHANGED stopFlag
      \/ \E h \in Publishers : stopFlag' = [stopFlag EXCEPT ![h] = TRUE]
  BY DEF Shutdown, RunAnyHook, StopHook, Outside, RegisterPlain, publishing, allVars
<1>3. FlagTypes'
  BY <1>1, <1>2 DEF PInv, FlagTypes
<1>4. PublisherTypes' /\ StartedFirst' /\ NothingLeftOver'
  BY <1>1 DEF PInv, PublisherTypes, StartedFirst, NothingLeftOver
<1>5. LastPost'
  BY <1>1, <1>2 DEF PInv, FlagTypes, LastPost
<1>6. QED
  BY <1>3, <1>4, <1>5 DEF PInv

\* The invariant holds always.
LEMMA PublisherInvariance == Spec => []PInv
<1>1. PInv /\ [Next]_allVars => PInv'
  BY HeartbeatKeepsPInv, CallerKeepsPInv, HooksKeepPInv DEF Next
<1>2. QED
  BY <1>1, InitPInv, PTL DEF Spec

\* Every variable keeps its type, for any hooks and publishers.
THEOREM PublisherTypeCorrect == Spec => []TypeOK
<1>1. Init => LifecycleInit
  BY DEF Init
<1>2. LInv /\ PInv => TypeOK
  BY DEF LInv, PInv, PublisherTypes, FlagTypes, TypeOK
<1>3. QED
  BY <1>1, <1>2, LifecycleInitInv, LifecycleStepInv, ComposedStep, PublisherInvariance,
     PTL DEF Spec

\* One post at most after the stop, for any number of checks in a pause.
THEOREM OneMorePost == Spec => []OnePostAfterStop
<1>1. PInv => OnePostAfterStop
  BY DEF PInv, PublisherTypes, LastPost, OnePostAfterStop
<1>2. QED
  BY <1>1, PublisherInvariance, PTL

\* No socket and no address list outlives a post.
THEOREM PostsLeaveNothing == Spec => []NothingLeftOver
<1>1. PInv => NothingLeftOver
  BY DEF PInv
<1>2. QED
  BY <1>1, PublisherInvariance, PTL
=============================================================================
