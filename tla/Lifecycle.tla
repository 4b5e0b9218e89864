------------------------------ MODULE Lifecycle ------------------------------
(***************************************************************************)
(* The C++ LifecycleManager of LifecycleManager.hpp: hooks registered by   *)
(* any thread, one thread in Wait, signals.                                *)
(*                                                                         *)
(* The mutex is held for the push_back of a Register and for the whole of  *)
(* ExecuteCleanups, so a Register is one action that has to wait while the *)
(* hooks run.  The thread in Wait (main) is                                *)
(*   setup     before Wait; signals have their default action             *)
(*   polling   handlers installed, looking at the flag every 100 ms        *)
(*   running   in ExecuteCleanups, `it` hooks left                         *)
(*   stuck     a hook called Register: the thread waits for its own mutex  *)
(*   done      back from Wait                                              *)
(*   killed    a signal came before the handlers                           *)
(* What a hook does is left to the modules that register it.               *)
(***************************************************************************)
EXTENDS Integers, Sequences

CONSTANTS
  Hooks,      \* cleanup functions, each registered at most once
  Throwing,   \* those that throw: caught, logged, the next one runs
  Nesting     \* those that call Register

ASSUME HooksAssumption ==
  /\ Throwing \subseteq Hooks
  /\ Nesting \subseteq Hooks

VARIABLES
  cleanups,            \* cleanups_
  it,                  \* the reverse iterator: how many hooks are left
  ran,                 \* history: the hooks that have run, in their order
  shutdown_requested,
  instance,            \* instance_: "this", "other" (a manager constructed
                       \* later), or "none" once that one is destroyed
  main

lifecycle == <<cleanups, it, ran, shutdown_requested, instance, main>>

Registered(h) == \E i \in 1..Len(cleanups) : cleanups[i] = h

\* mutex_ is free.
Free == main \notin {"running", "stuck", "killed"}

-----------------------------------------------------------------------------

\* Mutant: registered without the mutex, while the hooks run.
RegisterUnlocked(h) ==
  /\ main # "killed"
  /\ ~Registered(h)
  /\ cleanups' = Append(cleanups, h)
  /\ UNCHANGED <<it, ran, shutdown_requested, instance, main>>

Register(h) ==
  /\ Free
  /\ ~Registered(h)
  /\ cleanups' = Append(cleanups, h)
  /\ UNCHANGED <<it, ran, shutdown_requested, instance, main>>

\* A second manager takes the signals over, for good: its destructor leaves
\* nobody to receive them.
ConstructOther ==
  /\ main # "killed"
  /\ instance = "this"
  /\ instance' = "other"
  /\ UNCHANGED <<cleanups, it, ran, shutdown_requested, main>>

DestroyOther ==
  /\ main # "killed"
  /\ instance = "other"
  /\ instance' = "none"
  /\ UNCHANGED <<cleanups, it, ran, shutdown_requested, main>>

\* Wait is called.
InstallHandlers ==
  /\ main = "setup"
  /\ main' = "polling"
  /\ UNCHANGED <<cleanups, it, ran, shutdown_requested, instance>>

\* A signal before that kills the process.
EarlySignal ==
  /\ main = "setup"
  /\ main' = "killed"
  /\ UNCHANGED <<cleanups, it, ran, shutdown_requested, instance>>

\* RequestShutdown, at any time, or SignalHandler.
RequestShutdown ==
  /\ main # "killed"
  /\ instance = "this"
  /\ shutdown_requested' = TRUE
  /\ UNCHANGED <<cleanups, it, ran, instance, main>>

\* The flag is seen; ExecuteCleanups takes the mutex, and the end of the list.
StartCleanups ==
  /\ main = "polling"
  /\ shutdown_requested
  /\ main' = "running"
  /\ it' = Len(cleanups)
  /\ UNCHANGED <<cleanups, ran, shutdown_requested, instance>>

\* Mutant: from the front.
NextHookForward == cleanups[Len(cleanups) - it + 1]

NextHook == cleanups[it]

\* Mutant: a throwing hook ends the loop.
RunHookUncaught ==
  /\ main = "running"
  /\ it > 0
  /\ NextHook \notin Nesting
  /\ it' = IF NextHook \in Throwing THEN 0 ELSE it - 1
  /\ ran' = Append(ran, NextHook)
  /\ UNCHANGED <<cleanups, shutdown_requested, instance, main>>

\* Whether it returns or throws.
RunHook ==
  /\ main = "running"
  /\ it > 0
  /\ NextHook \notin Nesting
  /\ it' = it - 1
  /\ ran' = Append(ran, NextHook)
  /\ UNCHANGED <<cleanups, shutdown_requested, instance, main>>

\* The lock_guard of Register, in the thread that holds the mutex.
RunNestingHook ==
  /\ main = "running"
  /\ it > 0
  /\ NextHook \in Nesting
  /\ main' = "stuck"
  /\ UNCHANGED <<cleanups, it, ran, shutdown_requested, instance>>

Finish ==
  /\ main = "running"
  /\ it = 0
  /\ main' = "done"
  /\ UNCHANGED <<cleanups, it, ran, shutdown_requested, instance>>

-----------------------------------------------------------------------------

LifecycleInit ==
  /\ cleanups = <<>>
  /\ it = 0
  /\ ran = <<>>
  /\ shutdown_requested = FALSE
  /\ instance = "this"
  /\ main = "setup"

LifecycleNext ==
  \/ \E h \in Hooks : Register(h)
  \/ ConstructOther
  \/ DestroyOther
  \/ InstallHandlers
  \/ EarlySignal
  \/ RequestShutdown
  \/ StartCleanups
  \/ RunHook
  \/ RunNestingHook
  \/ Finish

LifecycleSpec == LifecycleInit /\ [][LifecycleNext]_lifecycle

-----------------------------------------------------------------------------
(* Properties                                                              *)

\* Every variable has a value of its type.
LifecycleTypeOK ==
  /\ cleanups \in Seq(Hooks)
  /\ it \in Nat
  /\ ran \in Seq(Hooks)
  /\ shutdown_requested \in BOOLEAN
  /\ instance \in {"this", "other", "none"}
  /\ main \in {"setup", "polling", "running", "stuck", "done", "killed"}

\* The state of the abstract manager.  After the shutdown its list is what the
\* shutdown has run: hooks that came later are only in cleanups.
Phase ==
  CASE main \in {"setup", "polling", "killed"} -> "open"
    [] main \in {"running", "stuck"}           -> "shutting"
    [] main = "done"                           -> "over"

ToRun == IF main = "done" THEN SubSeq(cleanups, 1, Len(ran)) ELSE cleanups

Orderly == INSTANCE OrderlyShutdown WITH registered <- ToRun, phase <- Phase

\* The manager is an orderly shutdown: every hook registered before it begins
\* runs exactly once, in reverse order, also when hooks throw or other threads
\* try to register while it runs.
ImplementsOrderlyShutdown == Orderly!Spec
==============================================================================
