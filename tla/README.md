# Verification of microservice-toolbox

TLA+ models of the parts of `microservice-toolbox` that keep state and share it, the
TLC runs that check them on small instances, and TLAPS proofs of what matters most for
instances of any size.

## 1. The system

The repository is a library, not a service: the Go packages under `src/go/pkg`
are the reference, and C++, Rust, Python and VBA ports repeat them ("Behavioral
Identity: Logic and error handling must be identical across all languages", in the
parity rules of `src/README.md`).  A microservice uses its parts side by side;
they meet in the service's threads, the operating system and the peers.

| part | state it keeps | operations | what is hard |
|---|---|---|---|
| `conn_manager`: `ManagedConnection` (Go `connection.go`) | the installed connection, the flag `reconnecting`, the channel `closing`, a mutex | `Write`, `Close`, `reconnect` | the mutex is released around every reconnection; several goroutines, dials in flight at Close, a limit on the retries |
| `conn_manager`: `NetworkManager` (Go `manager.go`) | retry policy, `OnError` hook | `Connect` in three modes, `GetNextDelay` | two retry loops with their own counting, a background goroutine |
| `conn_manager` in C++ (`ManagedConnection.hpp`) | the socket, an atomic `closed_`, a mutex | `Send`, `Receive`, `Reconnect`, `Close`, `Connect` | the mutex is held across dials, sends and receives and given up only to sleep; nothing keeps two retry loops apart |
| `conn_manager` in Rust, Python | the same without a flag, without `closing` | the same | every port has other interleavings |
| `teleremote` client (Go, Rust, Python) | connection, stream, action tree, handler table, command queue, `closed` | `AddAction`, `UpdateActions`, `PushMenuUpdate`, `SendTelemetry`, `Start`, `Close`, connection manager, dispatcher | five kinds of goroutine, two mutexes, a queue that is closed while others send to it |
| `notification` client (four languages) | a lazily created channel, `closed` | `Send...`, `Close` | double-checked creation against Close |
| `lifecycle` manager (four languages) | list of cleanups, shutdown flag | `Register`, `Wait` | registration during shutdown, cleanups that call back, order |
| `spec` publisher (four languages) | a publishing loop | `Publish`, `PublishWithLifecycle`, `PublishSync` | retries for ever, stopping them |
| process lock (Python `utils/process_lock.py`) | a file and its `flock` | `acquire`, `release`, `is_process_running`, `prevent_double_start` | several processes, crashes, `unlink` by name |
| `config` (four languages) | a tree of settings in layers; in C++ a mirror of the engine's | load, overrides, live updates | order of the layers, two places to keep them, callbacks on the engine's threads |
| resolver, serializers, loggers, bootstrap, version, business models, VBA | next to none | | data conversion and file input/output |

What makes each part correct:

* `ManagedConnection`: one goroutine reconnects at a time and all others wait for
  it and get out again; a closed wrapper stays closed; no socket is lost; a write
  is acknowledged only if it was handed to a connection.
* `NetworkManager`: the retry budget; Connect gives up neither early nor never;
  the hook sees the failures numbered from 1.
* process lock: one instance; the PID in the file is the running instance's; no
  process takes the lock away from another or leaves it behind.
* `teleremote`: one live stream; after Close everything stops; every accepted
  command is dispatched once and in order; the peer ends up with the current menu.
* `lifecycle`: every cleanup registered before the shutdown runs once, last first.
* `spec`: a service that shuts down stops announcing itself, and a heartbeat that runs
  for months leaks nothing.
* `config`: every setting comes from the highest layer that gives it; a service that
  starts has no two equal endpoints; the mirror follows the engine.

PROJECT.json lists every component, modelled or not, and every hazard with its line.

## 2. The modules and the code they model

| module | models | states what it promises in |
|---|---|---|
| `ResilientLink` | nothing: the abstract specification of a connection that comes back by itself | |
| `ManagedConnection` | `conn_manager/connection.go` | invariants, liveness, `ImplementsLink` |
| `NetworkManager` (extends `ManagedConnection`) | `conn_manager/manager.go`, composed with the wrapper it creates | invariants, action properties, liveness |
| `ProcessLock` | `utils/process_lock.py` on Unix | invariants, action properties |
| `RemoteSession` | nothing: the abstract specification of a client of a remote control | |
| `TeleClient` | `teleremote/client.go` | invariants, liveness, `ImplementsSession` |
| `CppConnection` | `ManagedConnection.hpp`, `NetworkManager.hpp` | invariants, action property, liveness |
| `OrderlyShutdown` | nothing: the abstract specification of a shutdown with cleanups | |
| `Lifecycle` | `LifecycleManager.hpp` | `ImplementsOrderlyShutdown` |
| `SpecPublisher` (extends `Lifecycle`) | `spec.hpp`: the heartbeat thread, composed with the manager that stops it | invariants, liveness, the refinement through the composition |
| `CommandLine` | `CommandLine.hpp` as a fold over the arguments | |
| `AppConfig` (extends `CommandLine`) | `AppConfig.hpp` on `DistConf.hpp` | invariants, action property, liveness |
| `MC...` | symmetry sets, the value -1, contents and command lines for the runs | |
| `..._proofs` | theorems about the module they are named after | |

PROJECT.json ("map") gives the lines of every definition.

**ManagedConnection.**  Any number of goroutines share one wrapper: writers, closers,
and connectors, which run `reconnect()` alone as the goroutine of
`ConnectNonBlocking` does.  The wrapper's mutex is released around every
`reconnect()`, so an action is one section of code that holds the mutex (`Write`,
`Close`, `EnterReconnect`, `Poll`, `Install`, `Abandon`...) or one call made without
it (`DialOk`, `DialFails`, `Sleep`).  `pc` is the place in the code; `ret` is the call
site `reconnect()` returns to, because its two callers in `Write` go on differently:
the first uses the connection without looking at it (`SendAfterReconnect`, which
panics on nil), the second tests it (`Resend`).  safe-socket and the peer are
external: a socket is an identity that is open, broken or closed, a dial succeeds
when the peer is up, a send on a broken socket may succeed (it is buffered) or fail,
a send on a closed one fails.

**NetworkManager.**  The one goroutine of `Connectors` runs `Connect` in a mode chosen
at the start.  `ConnectWithRetry` has a loop of its own, with other bounds and a sleep
nobody can interrupt; `ConnectBlocking` and `ConnectNonBlocking` use the wrapper's
`reconnect()`.  The actions of the wrapper are reused: `FailedDial`, `StartLoop`,
`EndReconnect` add to them what the `OnError` hook is told, and writers and closers
wait until `Connect` has handed the wrapper over.

**ProcessLock.**  Operating-system processes, one system call per action.  The file
system has a name that leads to an inode or to nothing, `flock` is held on inodes,
`unlink` removes names: that difference is what the module is about.  Every call may
fail where the code survives it: a failing `open` or `flock` refuses the start like a
held lock (`OpenFails`, `Refuse`), a failing `truncate` or `write` is swallowed and the
start succeeds (`TruncateFails`, `WritePid`), a failing `unlink` leaves the name.  The
history variable `emptied` remembers whose `truncate` succeeded.  A process ends normally
when refused or when its work is done (`End`; `prevent_double_start` keeps the lock and
nobody releases it), or crashes anywhere: both free its flocks and leave name and content.
`Releasing` and `Inspecting` say which of the two other entry points the service uses.

**TeleClient.**  The manager, the dispatcher, one goroutine per `PushMenuUpdate` and
the service's own calls; `Close` takes three steps, because it releases the mutex
between them.  A menu is the number of updates made to it, so the question of who
shows an old menu is a comparison of numbers.  A stream and its connection are one
identity.  After a panic nothing moves.

**CppConnection.**  The same wrapper as `ManagedConnection` with another discipline: a call
holds the mutex from entry to return, so the module has a variable for it, and an action
is what a thread does between two points where the mutex may change hands or the
environment may act (before a dial, before a use, before and after a sleep).  The
constructor's `Connect` runs in `Connectors`; `Indefinite` is `Blocking` in this port.

**Lifecycle, SpecPublisher.**  A `Register` is one action that has to wait while the hooks
run, because `ExecuteCleanups` keeps the mutex for all of them; a hook that registers
another one is stuck for good (`RunNestingHook`).  Signals before `Wait` and a second
manager that takes the signals over are actions of the environment.  `SpecPublisher` adds
the thread `PublishWithLifecycle` detaches: one action per network call of a post, so that
every exit of `SendHttpRequest` is there with what it frees, and one per look at the stop
flag.  The hook is registered after the thread has started, as in the code.

**AppConfig.**  The constructor is one action per phase, one per call of `config_->Set`
(`SetOverride`), and one per turn of the loop of `ValidateUniquePorts`; the engine
(libdistconf) is external, holds content with a version, and may be updated between any two
steps.  It may merge the file it is given or nothing, and take or refuse each setting; the
constructor ignores both, and the history variables `file` and `taken` remember what was
merged and taken.  Afterwards each kind of update has a thread that enters its bridge, waits
for the registry mutex, runs the user's callback, which returns or throws, reads the engine
and assigns the mirror.  Content is a service name and endpoints: what the phases
tell apart.  `CommandLine` is evaluated by TLC on the argument vectors of the run, with
bare flags, `=`, a flag that swallows the next flag, a number that does not parse, and a
flag at the end of the line.

## 3. What the runs check

| run | instance | shows |
|---|---|---|
| `mc_shared` | 2 writers with 2 calls, 1 closer, 3 sockets, unlimited retries, 1 outage | the flag `reconnecting` is a lock although the mutex is free (`OneReconnector`), nothing usable is installed in a closed wrapper (`ClosedHoldsNothing`), a dialed socket is private until installed (`DialedIsPrivate`), the wrapper implements `ResilientLink`, Close releases everybody (`CloseReleasesEveryone`) and a stable peer ends every wait (`StablePeerReturns`) |
| `connect` | all modes, 2 retries, 1 connector, 1 writer with 2 calls, 1 closer | in mode Blocking never more attempts than `MaxRetries` (`DialBudget`) and no unconnected wrapper before exactly that many have failed (`NoEarlySurrender`), whoever sleeps has told the hook (`HookKeepsCount`), no descriptor is lost (`OneUserLosesNothing`), `Connect` returns in mode Blocking, and in every mode when the peer stays up (`ConnectReturns`), everybody gets out of the wrapper (`LimitedRetriesReturn`) |
| `lock_any_use` | 3 processes, 3 inodes, 2 crashes, normal ends, failing calls, releases and inspections | the PID in a file that could be emptied is the holder's or none (`PidFileNamesHolder`), nobody overwrites it (`PidFileKept`), and a flock belongs to exactly the process that took it (`LocksAreOwned`) |
| `tele` | 2 connections, 1 push at a time, 2 menus, 2 commands, channel of 1, 2 outages | `OneConnection`, `RegisteredBeforeCommands`, the client implements `RemoteSession` (`ImplementsSession`), `StaysRegistered`, `CloseStopsClient` |
| `cpp_conn` | 1 sender, 1 receiver, 1 connector, 1 closer, limits -1 and 1, 2 outages | retry loops side by side lose no socket (`OnlyInstalledIsOpen`), Close is final although `closed_` is set before the mutex is taken (`CloseIsFinal`), only in a closed wrapper is data dropped silently or a null socket used (`OnlyCloseIsQuiet`), who may close a healthy connection (`HealthyConnectionKept`), everybody returns (`EverybodyReturns`) |
| `publisher` | 1 publisher, a hook that throws, one that does not, one that registers another; 2 looks per pause | the manager is an orderly shutdown (`ImplementsOrderlyShutdown`), the heartbeat stops with it (`ShutdownEndsHeartbeats`) after one more post at most (`OnePostAfterStop`), and no exit of a post leaks (`NothingLeftOver`) |
| `config` | 1 configuration, 2 contents of the engine, 3 files, 7 sets of arguments, 2 updates, failing merges, settings and callbacks | the layers of a configuration nobody has updated (`HierarchyOfTruth`), no clash of endpoints as far as the constructor looked at them (`StartsUnique`), no update is forgotten while bridges overtake each other (`NoUpdateForgotten`), `MirrorCatchesUp`, and the mutual exclusion of the bridges in `TypeOK` |
| `panic` | 2 writers | violated: `Write` panics on a nil connection |
| `leak` | 2 writers | violated: an open socket outlives `Close` |
| `lock_released` | 3 processes, no crash | violated: two instances after a release |
| `tele_panic` | 1 command | violated: `Close` makes the manager panic |
| `cpp_crash` | 1 sender, 1 closer | violated: `Send` dereferences an empty socket |

The five violated properties quote the comment of the code they contradict, and are
listed in PROJECT.json as findings:

1. `connection.go:65`.  A writer returns from a successful `reconnect()`; before it
   has the mutex again another writer's send fails and sets `currentConn` to nil; the
   first dereferences it.  The retry path has the nil check (line 79), the first does
   not.
2. `connection.go:185`.  A writer sees no connection, releases the mutex, and enters
   `reconnect()` only after another one has finished it.  The flag is clear, so it dials
   again and overwrites a live connection that nobody can close any more.
3. `process_lock.py:125`.  `release()` unlocks, then unlinks by name.  A process that
   opened the file before the unlink locks the nameless inode; the next one creates a
   new file and locks that.
4. `client.go:265`.  `closed` is tested, the mutex released, and the command sent on a
   channel `Close` may have closed meanwhile.
5. `ManagedConnection.hpp:53`.  Close runs while the first connection sleeps between two
   attempts; `Reconnect` then returns without a socket and without an exception, and
   `Send` (like `Receive`, line 70) uses the empty pointer.  The retry has the test.

More claims are stated in the modules and contradicted by the code.  No run repeats them,
and no property that passes asserts the contrary.

* `IndefiniteMeansConnected` (`NetworkManager`): "ModeIndefinite blocks indefinitely until
  connection is successful" (manager.go:42, also :144), but `ConnectBlocking` gives up after
  `MaxRetries`.  Without a limit the claim holds (`UnlimitedIsConnected`, section 4).
* `AttemptsWithinMaximum` (`NetworkManager`): `MaxRetries` is the maximum number of connection
  attempts (manager.go:49); `ConnectWithRetry` keeps to it (`DialBudget`), `reconnect()`
  tests its counter after the dial and makes one more.
* `RefusedByInstance` (`ProcessLock`): "Another instance is running" (process_lock.py:131) is
  also what a start is told when its `open` or `flock` failed, or met the probe of an
  inspection.
* `SingleInstance` (`ProcessLock`), with inspections alone: `prevent_double_start` "Ensures
  that only a single instance of the service is running" (process_lock.py:235), but the
  `is_process_running()` it calls after a refusal may judge the file of an instance that has
  ended stale, and unlink it when the next instance has locked it.  TLC needs 15 states with
  `Releasing = FALSE`, `Inspecting = TRUE` and no crash.  The run `lock_released` reaches the
  same violation through `release()`.
* `SettledMenuIsCurrent` (`TeleClient`): the menu is generated outside `sendMu`
  (client.go:277), so registrations overtake each other and the server keeps an old one.
* `NoHeartbeatOutlivesShutdown` (`SpecPublisher`): a publisher whose hook is registered
  after the shutdown has taken the list goes on announcing a service that is gone, though
  `PublishWithLifecycle` "binds publishing to the service's lifecycle manager"
  (spec.hpp:470).

Met on the way: the last failure of `reconnect()` is not passed to the hook (`FailedDial`;
`HookKeepsCount` speaks only of goroutines that go on); a failed `truncate` leaves the PID of
an earlier instance in the file of the running one (`TruncateFails`); a TeleClient that
connects while `Close` runs stays connected (`CloseStopsClient` states the exception); in C++
a loop that has slept closes the healthy connection another thread has made meanwhile
(`HealthyConnectionKept` states the exception), and `ConnectBlocking` reports a wrapper
that was closed as attempt 1; a service name from the command line goes to the mirror only
and is lost at the next live update (`ApplyCommandLine`), and so is a setting the engine
refused (`SetOverride`); a mirror emptied by a failed synchronisation has no capabilities, so
`ValidateUniquePorts` finds nothing to validate; `GetListenAddr` asks the engine
(AppConfig.hpp:101) although src/cpp/ARCHITECTURE.md:9 says it reads the mirror; the C++
configuration applies `--host` and `--port` inside a container too, although
quick-overview/Features-Behavior.md:35 says they are ignored there (`HierarchyOfTruth` speaks
of a service outside one, and of the three layers of README.md:32 this constructor handles).

**Bounds.**  Every bound is a constant in the module, or a guard on one.  Two writers
and a closer are the fewest with which one goroutine can be in the retry loop, one wait
for it, and one close; a third writer only adds another waiter.  One outage in
`mc_shared` breaks an installed connection under a writer; `connect` adds a limit on the
retries and a goroutine that connects.
Descriptors suffice for every goroutine to hold one and one to be installed.
`AttemptCap` is above `MaxRetries + 1` (`BoundsAssumption`), so capping the counter
never hides the end of a retry loop.  Three processes are the one that leaves, the one
that takes its file and the one that inspects or starts anew; the processes hold at
most two inodes while a third is created, and two crashes leave a
stale file twice.  Two connections let a push hold a lost one while the client has another; a channel of one is full after one command, and the
second is dropped.  In C++ two users and the connecting thread are three retry loops side
by side; two sockets are the installed one and the one that replaces it; the second outage
comes after the first has been repaired.  `Checks` is 2 for 30 looks at the flag: one
before and one after it is raised.  In `config` two updates, one for each bridge, are the
fewest with which one may overwrite the other; the contents, files and arguments move two
capabilities onto one another, onto 0.0.0.0 and onto localhost; one configuration is
enough, since configurations share only the registry mutex.

**Fairness.**  A goroutine inside the wrapper or the client keeps running (weak fairness
on its steps): Go's scheduler is preemptive, the timers of the back-off fire, and the
sections under the mutex are short.  Nothing obliges a service to call, close or
update anything, or the server to send anything or come back; where a property needs a
peer that stays up it says so (`StablePeerReturns`, `StaysRegistered`).
In C++ the mutex is not fair, so a thread that wants it gets it under strong fairness: it
is free again and again because a loop that gives it up sleeps before it wants it back.
`EverybodyReturns` excepts the one who holds it for ever, a receiver whose peer is silent.
The shutdown and the heartbeats of `SpecPublisher` are weakly fair: a send and a recv have
a time-out of three seconds (a server that feeds the response a byte at a time defeats it,
and is listed as an uncovered hazard).  The bridges of `AppConfig` are strongly fair, as they
wait for the registry mutex, and the user's callback is assumed to return or to throw.
The models of the Go code give a send or a dial that is under way an answer; a transport that
blocks for ever while `Write` holds the mutex is listed as an uncovered hazard.
Deadlock checking is off only where the system may really stop: a closed client or
wrapper, processes that have all ended, a shutdown that is over, a configuration that was
refused or destroyed.

## 4. What is proved

The theorems hold for every set of goroutines, sockets, processes, inodes, connections
and every bound, from the named assumptions of the modules (nil is not a socket,
connectors are not writers, the limit is a natural number or -1, the bounds are natural
numbers).  A theorem that holds only for some instances has their condition as an ASSUME
in its statement.

* `ManagedConnection_proofs`: `TypeCorrect`, `ReconnectorExclusive`, `DialedPrivate`,
  `ClosedStaysClosed`.  `OneReconnector` is inductive with the types: a goroutine enters
  the loop only when the flag is clear, and leaves it only by clearing it.
  `DialedIsPrivate` needs it, because an install by a second loop could otherwise
  install the socket of the first.  `ClosedHoldsNothing` needs both: the only step that
  installs looks at `closing` under the mutex, and the only step that opens a socket
  opens one nobody refers to.  `Roles` says which goroutines may be where: a connector never
  sends, a writer inside the wrapper is busy.  With it come the conditions under which the
  two findings about the wrapper cannot happen: with one writer `Write` does not panic,
  whoever else connects or closes (`OneWriterNeverPanics`; the connection is there between
  the return of `reconnect()` and the send, as only a writer takes it away), and with one
  goroutine that dials nothing stays open after Close (`OneUserLeavesNothing`; it is in the
  loop only without a connection to overwrite).  The runs `panic` and `leak` have two writers.
* `ManagedConnectionLink_proofs`: `Refinement`, the wrapper implements `ResilientLink`.
  Each action maps to one abstract action or to a stutter; `Roles` and the three facts above
  say that an install of a closed wrapper is no `Reconnect` and a send on it no `Deliver`.
* `ProcessLock_proofs`: `LockInv` ties every flock to the one process that took it and
  every process in the locked section to its inode; it is inductive under failing calls,
  releases, inspections, crashes and ends, and gives `PidFileStays`, `LocksOwned` and
  `FilePerInstance`.  `PidFileCorrect` adds what `emptied` means (`EmptiedBelongs`) and is about
  instances whose `truncate` succeeded.  `KeptLockIsSingle` says that there is one instance
  when nobody releases and nobody inspects, whatever fails, ends or crashes: nothing is then
  unlinked, so every process opens the same file (`SameFile`).  Both conditions are needed:
  the run `lock_released` violates the claim with a release, and an inspection alone violates
  it without a crash (section 3).  `prevent_double_start` inspects after a refusal, so the
  theorem is about `acquire()` and not about it.
* `TeleClient_proofs`: `ConnInv` says whose connection is open at each control point of
  the manager; its last part, that a connection `Close` has taken away is closed, is what
  makes the end of a round leave nothing open.  It gives `ConnectionIsOne`; with
  `MenuInv` it gives `RegistrationFirst`.  `SessionRefinement` maps the client to
  `RemoteSession`: the session is the state of the stream the manager holds, a command is
  in hand between Recv and the select, and a closed client is still opening a session while
  the manager dials.  The two invariants give the steps on the stream; that the dispatcher
  ends only on a closed channel (`DoneInv`) is what keeps `Put` from accepting a command
  nobody will handle.
* `NetworkManager_proofs`: `NMTypeCorrect`, `HookCounts`, `DialsBounded` (the last for mode
  Blocking).  The invariant
  counts per goroutine: the hook's last number, the loop counter and the failures agree at
  every control point, and a loop that goes on is below its limit; each of the two loops
  has its own form of that.  `OneUserKeepsSockets` assumes a single writer and proves that
  no descriptor is lost once Connect has waited; its invariant says that only one goroutine
  is inside the wrapper at a time.  The run `leak` shows that the assumption is needed.
  `SurrenderIsLate` is about one goroutine that runs `Connect` in mode Blocking: it hands over
  an unconnected wrapper only when exactly `MaxRetries` attempts have failed.
  `SurrenderInv` says that a goroutine about to
  abandon an open wrapper has made its attempts, one about to install has a socket, and
  nobody closes the wrapper before it is handed over.  The same invariant gives
  `UnlimitedIsConnected`.
  `ConnectUsesTheWrapper` composes: in the two modes that use `reconnect()` every step of the
  composition is a step of the wrapper alone, or a stutter, so the theorems about
  `ManagedConnection`, `Refinement` included, carry over.  In mode Blocking the loop of
  `ConnectWithRetry` installs the first connection in a way `reconnect()` never does, and
  there they do not follow.
* `CppConnection_proofs`: the invariant ties the mutex to the control points that hold it,
  says that nothing but the installed socket is open, that a closer that is done has closed
  it, and that nobody dials once `closed_` was seen.  It gives `NoSocketLost`,
  `ClosedForGood` and, for the data dropped silently, half of `QuietWhenClosed`.  The other half
  bounds the finding of the run `cpp_crash`: a loop that returns normally to an open wrapper
  has installed a socket, and nothing ever empties the pointer again (`UseSupplied`).
  `HealthyKept` adds that a loop that has not slept yet was entered without a usable socket.
* `SpecPublisher_proofs`: `LifecycleRefinement` maps the state of the manager to
  `OrderlyShutdown`; the list of the abstract shutdown is the code's list until the hooks
  have run, and the part that was run afterwards, since a late `Register` still appends.
  The invariant it needs relates the iterator to the number of hooks run.
  `PublisherRefinement` lifts it to the composition, whose every step is a step of the
  manager or a stutter.  `OneMorePost` and `PostsLeaveNothing` follow from what may be
  allocated, and what may still be sent, at each control point of the thread.
* `AppConfig_proofs`: `TypeCorrect` contains the mutual exclusion of the bridges.
  `UniqueWhenUp` is about a constructor that returns with a mirror as new as the engine: its
  last synchronisation succeeded and no update came after it.  It rests on what the loop of
  `ValidateUniquePorts` has established: the capabilities it has passed do not clash, and
  their endpoints are all in `seen`, as long as the engine was not updated behind the mirror
  the names come from; then, when nothing is left to check, nothing clashes.
  `TruthHasLayers` is about a configuration that is up and whose engine was not updated since
  it was opened.  It has an invariant per phase of the constructor: after each one mirror and
  engine are what the layers so far make of them, and every later phase leaves that in place.
  The command line is a layer that grows by one setting with every `Set` the engine takes
  (`taken`; `OneMoreSetting`), while the mirror has all of it at once; `OnTopObeys` leads from
  the layers put on top of one another to the order of precedence.  Which candidate file
  counts is the least one that exists; `LeastElement` proves that there is one without
  induction over data, from the library's fact that strict inclusion of finite sets is
  well-founded; `FilesAssumption` says that it has a name.  `Parse` stays unexpanded: the
  theorem is about what the layers do with whatever the command line means.
  `UpdatesAreKept` is about updates that were announced, that is, to a registered listener of
  a configuration that is up, and a mirror that is not emptied: if the mirror does not have
  such an update yet, a bridge is still to deliver it; the mutual exclusion of the bridges and
  the version order of what they read keep one from putting back an older content.

Only model-checked: liveness (fairness and ENABLED are beyond the prover).  What
`CommandLine` computes for every argument vector would need induction over data and is only
evaluated on the vectors of the run.

## 5. Not modelled, and why

* Pure data and thin wrappers: the resolver, messaging and gRPC helpers, loggers,
  serializers, business models, bootstrap, version, the VBA port, `BuildSpecFromConfig`,
  `GetNextDelay` (a delay has any length in the models), getters and decryption.
* The Windows branches of the process lock and of `SendHttpRequest`.
* Vendored and generated code.  `config/json.hpp` is a third-party header of 25 526 lines;
  it is most of the C++ tree, so the lines the models cover are a small share of that tree
  however much of the project's own C++ (some 2 300 lines, half of them data conversion and
  getters) is modelled.
* The notification clients, the Rust and Python wrappers, the Rust and Python tele-remote
  clients, and lifecycle, publisher and configuration in Go, Rust and Python.  They repeat
  components modelled here with other locks, so each would be a module of its own; the
  hazards seen in reading them are listed in PROJECT.json.  `ResilientLink`, `RemoteSession` and `OrderlyShutdown` are
  what such modules should be shown to implement.

Assumptions of the models worth knowing: a cleanup hook and a kind of listener are
registered at most once; `--help`, which ends the program, and `--profile`, which only
names the candidate files, are left out of the command line; SIGPIPE is ignored by the
process that publishes (`send` with flags 0, spec.hpp:128; a listed hazard); what a failed
`flush` leaves in Python's buffer is lost and not written by a later `close`; a callback that
throws through the engine ends the program, like the use of a destroyed configuration; getters
read the mirror without a lock, which is a data race with the bridges and listed as a hazard, not modelled.
