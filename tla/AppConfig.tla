------------------------------ MODULE AppConfig ------------------------------
(***************************************************************************)
(* The C++ configuration objects: AppConfig.hpp on top of DistConf.hpp.    *)
(*                                                                         *)
(* An AppConfig holds a session with the configuration engine (libdistconf,*)
(* external) and data_, a mirror of the engine's settings.  Its            *)
(* constructor runs in four phases: mirror the engine, apply the first     *)
(* configuration file found, apply the command line, look for endpoints    *)
(* used twice.  Afterwards the engine announces updates on threads of its  *)
(* own through two static bridges, which take the one registry mutex of    *)
(* the process, run the user's callback and mirror the engine again.       *)
(*                                                                         *)
(* Control points of a configuration:                                      *)
(*   none, sync, files, resync, cli, host, port, grpc_host, grpc_port,     *)
(*   key, ports   in the constructor                                       *)
(*   up        constructed                                                 *)
(*   failed    the constructor threw                                       *)
(*   gone      destroyed                                                   *)
(* of a bridge (one thread of the engine per kind of update):              *)
(*   idle, lock, then holding the mutex: callback, read, assign            *)
(* of a listener being registered: no, lock (callback stored, mutex        *)
(* wanted), yes.                                                           *)
(*                                                                         *)
(* Content is data abstracted to what the phases tell apart: the service   *)
(* name and, per capability and kind of server, an address and a port.     *)
(***************************************************************************)
EXTENDS CommandLine, FiniteSets

CONSTANTS
  Apps,         \* AppConfig objects
  Bridges,      \* kinds of update: "live" (OnLiveConfUpdate), "registry"
  Kinds,        \* "TCP", "gRPC", "REST"
  Contents,     \* what the engine may hold after talking to the server
  Candidates,   \* sequence of file names looked for: --conf, then two others
  FileContents, \* what each of them overrides
  CommandLines, \* argument vectors LoadConfig may be given
  DirectArgs,   \* arguments the constructor may be given without parsing
  Nobody,       \* owner of a free mutex
  MaxUpdates    \* bound: updates of one engine session

ASSUME AppsAssumption    == Nobody \notin Apps \X Bridges
ASSUME BoundAssumption   == MaxUpdates \in Nat
ASSUME KindsAssumption   == {"TCP", "gRPC"} \subseteq Kinds
ASSUME FilesAssumption   ==   \* profile_ + ".yaml" and a --conf that is given have names
  /\ DOMAIN Candidates \subseteq Nat
  /\ \A i \in DOMAIN Candidates : Candidates[i] # Unset

VARIABLES
  pc,          \* control point of every configuration
  args,        \* args_
  engine,      \* external: the engine's content and its version
  mirror,      \* data_, with the version it was read at
  file,        \* history: the file LoadLocalOverrides applied
  local,       \* local_data_: the file whose local section it holds
  taken,       \* history: the command line settings the engine took
  unchecked,   \* capabilities ValidateUniquePorts has still to look at
  seen,        \* its map `seen`: normalised endpoints
  keyPath,     \* environment variable BASTIEN_PRIVATE_KEY_PATH
  mutex,       \* the registry mutex of the process
  listener,    \* per kind: progress of OnLiveConfUpdate, OnRegistryUpdate
  announced,   \* history: version last announced to a listener
  queue,       \* external: announcements not yet begun, per kind
  bridge,      \* control point of the bridges
  read,        \* what a bridge read from the engine
  crashed      \* a bridge used a destroyed object, or a callback threw

starting == <<args, file, local, taken, unchecked, seen, keyPath>>
updating == <<mutex, listener, announced, queue, bridge, read>>
vars     == <<pc, engine, mirror, starting, updating, crashed>>

-----------------------------------------------------------------------------
(* Content                                                                 *)

NoEnd == [ip |-> Unset, port |-> 0]

\* The value of a setting when one layer is put on top of another.
Pick(over, base)       == IF over = Unset THEN base ELSE over
PickNumber(over, base) == IF over = 0 THEN base ELSE over

At(content, cap, kind) ==
  IF cap \in DOMAIN content.ends THEN content.ends[cap][kind] ELSE NoEnd

\* The settings of `over` on top of those of `base`.
Overlay(base, over) ==
  [name |-> Pick(over.name, base.name),
   ends |-> [cap \in DOMAIN base.ends \cup DOMAIN over.ends |-> [kind \in Kinds |->
               [ip   |-> Pick(At(over, cap, kind).ip, At(base, cap, kind).ip),
                port |-> PickNumber(At(over, cap, kind).port,
                                    At(base, cap, kind).port)]]]]

Nothing == [name |-> Unset, ends |-> [cap \in {} |-> NoEnd]]

\* What GetAddress, GetGRPCAddress and GetRESTAddress resolve (external).
Bound(end) == end.ip # Unset /\ end.port # 0

\* The lower-case conversion and the one name normalize_ip knows.
Normalised(end) ==
  [end EXCEPT !.ip = IF @ \in {"localhost", "LocalHost"} THEN "127.0.0.1" ELSE @]

AnyHost == "0.0.0.0"

Clash(end, other) ==
  /\ end.port = other.port
  /\ \/ end.ip = other.ip
     \/ AnyHost \in {end.ip, other.ip}

-----------------------------------------------------------------------------
(* SyncFromBridge                                                          *)

NoVersion == -1

\* A reply that cannot be parsed, or none, empties the mirror.
Emptied == [ver |-> NoVersion, content |-> Nothing]

Synced(app, data) ==
  \/ mirror' = [mirror EXCEPT ![app] = data]
  \/ mirror' = [mirror EXCEPT ![app] = Emptied]

-----------------------------------------------------------------------------
(* The constructor                                                         *)

\* DistConf_New, with the arguments LoadConfig parsed, or others.
Open(app) ==
  /\ ~crashed
  /\ pc[app] = "none"
  /\ \E given \in DirectArgs \cup {Parse(argv) : argv \in CommandLines} :
       args' = [args EXCEPT ![app] = given]
  /\ \/ /\ pc' = [pc EXCEPT ![app] = "sync"]
        /\ \E content \in Contents :
             engine' = [engine EXCEPT ![app] = [ver |-> 0, content |-> content]]
     \/ /\ pc' = [pc EXCEPT ![app] = "failed"]
        /\ UNCHANGED engine
  /\ UNCHANGED <<mirror, file, local, taken, unchecked, seen, keyPath, updating, crashed>>

\* The first mirror, and the one after a file was applied.
Sync(app) ==
  /\ ~crashed
  /\ pc[app] \in {"sync", "resync"}
  /\ Synced(app, engine[app])
  /\ pc' = [pc EXCEPT ![app] = IF @ = "sync" THEN "files" ELSE "cli"]
  /\ UNCHANGED <<engine, starting, updating, crashed>>

\* The places LoadLocalOverrides looks at: the --conf file only when given.
Places(app) ==
  {i \in DOMAIN Candidates : i = 1 => args[app].conf # Unset}

\* Mutant: a file only fills in what the engine does not know.
LoadFileBelow(app) ==
  /\ ~crashed
  /\ pc[app] = "files"
  /\ \E present \in SUBSET Places(app) :
       \/ /\ present = {}
          /\ pc' = [pc EXCEPT ![app] = "cli"]
          /\ UNCHANGED <<engine, file, local>>
       \/ /\ present # {}
          /\ LET first == CHOOSE i \in present : \A j \in present : i <= j
             IN /\ engine' = [engine EXCEPT ![app].content =
                                Overlay(FileContents[Candidates[first]], @)]
                /\ file' = [file EXCEPT ![app] = Candidates[first]]
                /\ \E section \in {Unset, Candidates[first]} :
                     local' = [local EXCEPT ![app] = section]
          /\ pc' = [pc EXCEPT ![app] = "resync"]
  /\ UNCHANGED <<mirror, args, taken, unchecked, seen, keyPath, updating, crashed>>

\* LoadLocalOverrides: the engine merges the first file that can be opened, and
\* returns its local section, which may be empty or not parse; or it merges
\* nothing, which the constructor cannot tell from an empty section.
LoadFile(app) ==
  /\ ~crashed
  /\ pc[app] = "files"
  /\ \E present \in SUBSET Places(app) :
       \/ /\ present = {}
          /\ pc' = [pc EXCEPT ![app] = "cli"]
          /\ UNCHANGED <<engine, file, local>>
       \/ /\ present # {}
          /\ LET first == CHOOSE i \in present : \A j \in present : i <= j
             IN /\ engine' = [engine EXCEPT ![app].content =
                                Overlay(@, FileContents[Candidates[first]])]
                /\ file' = [file EXCEPT ![app] = Candidates[first]]
                /\ \E section \in {Unset, Candidates[first]} :
                     local' = [local EXCEPT ![app] = section]
          /\ pc' = [pc EXCEPT ![app] = "resync"]
       \/ /\ present # {}
          /\ pc' = [pc EXCEPT ![app] = "resync"]
          /\ UNCHANGED <<engine, file, local>>
  /\ UNCHANGED <<mirror, args, taken, unchecked, seen, keyPath, updating, crashed>>

\* The capability the command line speaks about.
Target(app) ==
  IF args[app].name # Unset THEN args[app].name
  ELSE IF mirror[app].content.name # Unset THEN mirror[app].content.name
  ELSE "config_server"

\* The endpoint settings of the command line, in the order they are applied.
Settings == {"host", "port", "grpc_host", "grpc_port"}
AfterSet == [host |-> "port", port |-> "grpc_host",
             grpc_host |-> "grpc_port", grpc_port |-> "key"]

IsGiven(app, setting) == args[app][setting] # NoArgs[setting]

\* Some of them as a layer of content.
GivenEnd(app, settings, kind) ==
  LET value(s) == IF s \in settings THEN args[app][s] ELSE NoArgs[s]
  IN  CASE kind = "TCP"  -> [ip |-> value("host"), port |-> value("port")]
        [] kind = "gRPC" -> [ip |-> value("grpc_host"), port |-> value("grpc_port")]
        [] OTHER         -> NoEnd

Layer(app, settings) ==
  [name |-> Unset,
   ends |-> [cap \in {c \in {Target(app)} : \E s \in settings : IsGiven(app, s)} |->
               [kind \in Kinds |-> GivenEnd(app, settings, kind)]]]

Given(app) == Layer(app, Settings)

\* ApplyCLIOverrides on data_: the name and the endpoints.
ApplyCommandLine(app) ==
  /\ ~crashed
  /\ pc[app] = "cli"
  /\ mirror' = [mirror EXCEPT ![app].content =
                  Overlay(@, [Given(app) EXCEPT !.name = args[app].name])]
  /\ pc' = [pc EXCEPT ![app] = "host"]
  /\ UNCHANGED <<engine, starting, updating, crashed>>

\* Its calls of config_->Set, for the endpoints only.  What they return is
\* ignored: the engine may refuse a setting the mirror has.
SetOverride(app) ==
  /\ ~crashed
  /\ pc[app] \in Settings
  /\ \/ /\ IsGiven(app, pc[app])
        /\ engine' = [engine EXCEPT ![app].content = Overlay(@, Layer(app, {pc[app]}))]
        /\ taken' = [taken EXCEPT ![app] = @ \cup {pc[app]}]
     \/ UNCHANGED <<engine, taken>>
  /\ pc' = [pc EXCEPT ![app] = AfterSet[@]]
  /\ UNCHANGED <<mirror, args, file, local, unchecked, seen, keyPath, updating, crashed>>

\* setenv for the decryption engine; then ValidateUniquePorts begins.
ExportKey(app) ==
  /\ ~crashed
  /\ pc[app] = "key"
  /\ keyPath' = Pick(args[app].key, keyPath)
  /\ unchecked' = [unchecked EXCEPT ![app] = DOMAIN mirror[app].content.ends]
  /\ pc' = [pc EXCEPT ![app] = "ports"]
  /\ UNCHANGED <<engine, mirror, args, file, local, taken, seen, updating, crashed>>

\* The endpoints of a capability that take part: resolved, with a real port.
Endpoints(app, cap) ==
  LET at(kind) == At(engine[app].content, cap, kind)
  IN  {[kind |-> kind, end |-> Normalised(at(kind))] :
         kind \in {k \in Kinds : Bound(at(k)) /\ at(k).port > 0}}

\* Mutant: the wildcard address is compared like any other.
DuplicateAddress(app, cap) ==
  \E e \in Endpoints(app, cap) :
    \/ e.end \in seen[app]
    \/ \E f \in Endpoints(app, cap) : f # e /\ e.end = f.end

\* check_and_add throws for one of the endpoints of this capability.
Duplicate(app, cap) ==
  \E e \in Endpoints(app, cap) :
    \/ \E other \in seen[app] : Clash(e.end, other)
    \/ \E f \in Endpoints(app, cap) : f # e /\ Clash(e.end, f.end)

\* One turn of the loop of ValidateUniquePorts.  Names come from the mirror and
\* addresses from the engine, which may have been updated in between.
CheckCapability(app) ==
  /\ ~crashed
  /\ pc[app] = "ports"
  /\ \E cap \in unchecked[app] :
       \/ /\ ~Duplicate(app, cap)
          /\ seen' = [seen EXCEPT ![app] =
                        @ \cup {e.end : e \in Endpoints(app, cap)}]
          /\ unchecked' = [unchecked EXCEPT ![app] = @ \ {cap}]
          /\ UNCHANGED pc
       \/ /\ Duplicate(app, cap)
          /\ pc' = [pc EXCEPT ![app] = "failed"]
          /\ UNCHANGED <<seen, unchecked>>
  /\ UNCHANGED <<engine, mirror, args, file, local, taken, keyPath, updating, crashed>>

Constructed(app) ==
  /\ ~crashed
  /\ pc[app] = "ports"
  /\ unchecked[app] = {}
  /\ pc' = [pc EXCEPT ![app] = "up"]
  /\ UNCHANGED <<engine, mirror, starting, updating, crashed>>

-----------------------------------------------------------------------------
(* Listeners and updates                                                   *)

\* OnLiveConfUpdate or OnRegistryUpdate is called, once per kind: the callback is
\* stored before the mutex is taken.
Listen(app, kind) ==
  /\ ~crashed
  /\ pc[app] = "up"
  /\ listener[app][kind] = "no"
  /\ listener' = [listener EXCEPT ![app][kind] = "lock"]
  /\ UNCHANGED <<pc, engine, mirror, starting, crashed,
                 mutex, announced, queue, bridge, read>>

\* With the mutex: the registry entry, and the engine told to announce.
Listening(app, kind) ==
  /\ ~crashed
  /\ pc[app] = "up"
  /\ listener[app][kind] = "lock"
  /\ mutex = Nobody
  /\ listener' = [listener EXCEPT ![app][kind] = "yes"]
  /\ UNCHANGED <<pc, engine, mirror, starting, crashed,
                 mutex, announced, queue, bridge, read>>

\* External: the engine takes over an update and announces it.  What becomes of
\* the overrides it held is the engine's business: any content may follow.
Update(app, kind) ==
  /\ ~crashed
  /\ pc[app] \notin {"none", "failed", "gone"}
  /\ engine[app].ver < MaxUpdates
  /\ \E content \in Contents :
       engine' = [engine EXCEPT ![app] = [ver |-> @.ver + 1, content |-> content]]
  /\ IF listener[app][kind] = "yes"
     THEN /\ queue' = [queue EXCEPT ![app][kind] = @ + 1]
          /\ announced' = [announced EXCEPT ![app] = engine[app].ver + 1]
     ELSE UNCHANGED <<queue, announced>>
  /\ UNCHANGED <<pc, mirror, starting, crashed, mutex, listener, bridge, read>>

\* External: a thread of the engine enters the bridge.
Deliver(app, kind) ==
  /\ ~crashed
  /\ bridge[app][kind] = "idle"
  /\ queue[app][kind] > 0
  /\ queue' = [queue EXCEPT ![app][kind] = @ - 1]
  /\ bridge' = [bridge EXCEPT ![app][kind] = "lock"]
  /\ UNCHANGED <<pc, engine, mirror, starting, crashed,
                 mutex, listener, announced, read>>

\* Mutant: the bridge does not wait for the mutex.
EnterUnlocked(app, kind) ==
  /\ ~crashed
  /\ bridge[app][kind] = "lock"
  /\ pc[app] = "up"
  /\ mutex' = <<app, kind>>
  /\ bridge' = [bridge EXCEPT ![app][kind] = "callback"]
  /\ UNCHANGED <<pc, engine, mirror, starting, crashed,
                 listener, announced, queue, read>>

\* The bridge has the mutex and finds the registry entry, which nothing removes;
\* it starts the user's callback.
EnterCallback(app, kind) ==
  /\ ~crashed
  /\ bridge[app][kind] = "lock"
  /\ mutex = Nobody
  /\ pc[app] = "up"
  /\ mutex' = <<app, kind>>
  /\ bridge' = [bridge EXCEPT ![app][kind] = "callback"]
  /\ UNCHANGED <<pc, engine, mirror, starting, crashed,
                 listener, announced, queue, read>>

\* Mutant: the mutex protects the registry and the callback only.
CallbackUnlocks(app, kind) ==
  /\ ~crashed
  /\ bridge[app][kind] = "callback"
  /\ pc[app] = "up"
  /\ mutex' = Nobody
  /\ bridge' = [bridge EXCEPT ![app][kind] = "read"]
  /\ UNCHANGED <<pc, engine, mirror, starting, crashed,
                 listener, announced, queue, read>>

\* The callback returns and SyncFromBridge begins.
CallbackReturns(app, kind) ==
  /\ ~crashed
  /\ bridge[app][kind] = "callback"
  /\ pc[app] = "up"
  /\ bridge' = [bridge EXCEPT ![app][kind] = "read"]
  /\ UNCHANGED <<pc, engine, mirror, starting, crashed,
                 mutex, listener, announced, queue, read>>

\* The callback throws: the exception leaves the bridge, whose caller is the
\* engine's C code.
CallbackThrows(app, kind) ==
  /\ ~crashed
  /\ bridge[app][kind] = "callback"
  /\ pc[app] = "up"
  /\ crashed' = TRUE
  /\ UNCHANGED <<pc, engine, mirror, starting, updating>>

\* GetFullConfig.
ReadEngine(app, kind) ==
  /\ ~crashed
  /\ bridge[app][kind] = "read"
  /\ pc[app] = "up"
  /\ read' = [read EXCEPT ![app][kind] = engine[app]]
  /\ bridge' = [bridge EXCEPT ![app][kind] = "assign"]
  /\ UNCHANGED <<pc, engine, mirror, starting, crashed,
                 mutex, listener, announced, queue>>

\* data_ is assigned, the mutex released, and the bridge left.
AssignMirror(app, kind) ==
  /\ ~crashed
  /\ bridge[app][kind] = "assign"
  /\ pc[app] = "up"
  /\ Synced(app, read[app][kind])
  /\ mutex' = Nobody
  /\ bridge' = [bridge EXCEPT ![app][kind] = "idle"]
  /\ UNCHANGED <<pc, engine, starting, crashed, listener, announced, queue, read>>

\* ~AppConfig: the session is closed and nothing more is announced.  The registry
\* entry stays, and nobody waits for a bridge that is running.
Destroy(app) ==
  /\ ~crashed
  /\ pc[app] = "up"
  /\ \A kind \in Bridges : listener[app][kind] # "lock"
  /\ pc' = [pc EXCEPT ![app] = "gone"]
  /\ queue' = [queue EXCEPT ![app] = [kind \in Bridges |-> 0]]
  /\ UNCHANGED <<engine, mirror, starting, crashed,
                 mutex, listener, announced, bridge, read>>

\* A bridge that is past Deliver touches the destroyed object: undefined, and
\* taken for the end of the program.
UseDestroyed(app, kind) ==
  /\ ~crashed
  /\ pc[app] = "gone"
  /\ bridge[app][kind] # "idle"
  /\ bridge[app][kind] = "lock" => mutex = Nobody
  /\ crashed' = TRUE
  /\ UNCHANGED <<pc, engine, mirror, starting, updating>>

-----------------------------------------------------------------------------

Init ==
  /\ pc        = [app \in Apps |-> "none"]
  /\ args      = [app \in Apps |-> NoArgs]
  /\ engine    = [app \in Apps |-> Emptied]
  /\ mirror    = [app \in Apps |-> Emptied]
  /\ file      = [app \in Apps |-> Unset]
  /\ local     = [app \in Apps |-> Unset]
  /\ taken     = [app \in Apps |-> {}]
  /\ unchecked = [app \in Apps |-> {}]
  /\ seen      = [app \in Apps |-> {}]
  /\ keyPath   = Unset
  /\ mutex     = Nobody
  /\ listener  = [app \in Apps |-> [kind \in Bridges |-> "no"]]
  /\ announced = [app \in Apps |-> NoVersion]
  /\ queue     = [app \in Apps |-> [kind \in Bridges |-> 0]]
  /\ bridge    = [app \in Apps |-> [kind \in Bridges |-> "idle"]]
  /\ read      = [app \in Apps |-> [kind \in Bridges |-> Emptied]]
  /\ crashed   = FALSE

Construct(app) ==
  \/ Open(app)
  \/ Sync(app)
  \/ LoadFile(app)
  \/ ApplyCommandLine(app)
  \/ SetOverride(app)
  \/ ExportKey(app)
  \/ CheckCapability(app)
  \/ Constructed(app)

Bridging(app, kind) ==
  \/ Deliver(app, kind)
  \/ EnterCallback(app, kind)
  \/ CallbackReturns(app, kind)
  \/ CallbackThrows(app, kind)
  \/ ReadEngine(app, kind)
  \/ AssignMirror(app, kind)
  \/ UseDestroyed(app, kind)

Next ==
  \E app \in Apps :
    \/ Construct(app)
    \/ Destroy(app)
    \/ \E kind \in Bridges :
         \/ Listen(app, kind)
         \/ Listening(app, kind)
         \/ Update(app, kind)
         \/ Bridging(app, kind)

Spec == Init /\ [][Next]_vars

\* The engine's threads are not starved, not even of the mutex, and a user's
\* callback returns or throws.
Fairness ==
  \A app \in Apps, kind \in Bridges : SF_vars(Bridging(app, kind))

FairSpec == Spec /\ Fairness

-----------------------------------------------------------------------------
(* Properties                                                              *)

States ==
  {"none", "sync", "files", "resync", "cli", "key", "ports", "up", "failed", "gone"}
    \cup Settings
Inside == {"callback", "read", "assign"}

\* A piece of content with its version.
Versioned(data) ==
  /\ data = [ver |-> data.ver, content |-> data.content]
  /\ data.ver \in Int

\* Ranges; the mirror never runs ahead of the engine; and the registry mutex of
\* the process is held by exactly the bridge that is inside one (DistConf.hpp:186).
TypeOK ==
  /\ pc \in [Apps -> States]
  /\ DOMAIN engine = Apps /\ DOMAIN mirror = Apps
  /\ \A app \in Apps :
       /\ Versioned(engine[app]) /\ Versioned(mirror[app])
       /\ mirror[app].ver <= engine[app].ver
  /\ listener \in [Apps -> [Bridges -> {"no", "lock", "yes"}]]
  /\ bridge \in [Apps -> [Bridges -> Inside \cup {"idle", "lock"}]]
  /\ \A app \in Apps, kind \in Bridges :
       bridge[app][kind] \in Inside <=> mutex = <<app, kind>>

\* The value of the highest of three layers that gives one.
Highest(values, none) ==
  LET given == {i \in 1 .. 3 : values[i] # none}
  IN  IF given = {} THEN none
      ELSE values[CHOOSE i \in given : \A j \in given : i <= j]

\* The endpoints `content` holds are those of the highest layer that gives them.
Obeys(content, layers) ==
  \A c \in UNION {DOMAIN layers[i].ends : i \in 1 .. 3}, kind \in Kinds :
    LET values(f) == [i \in 1 .. 3 |-> At(layers[i], c, kind)[f]]
        held      == At(content, c, kind)
    IN  /\ held.ip = Highest(values("ip"), Unset)
        /\ held.port = Highest(values("port"), 0)

FileLayer(app) == IF file[app] = Unset THEN Nothing ELSE FileContents[file[app]]

\* The hierarchy of truth (README.md:32), for the layers this constructor puts on
\* top of what the engine resolved by itself (`base`): in a configuration that is
\* up and whose engine was not updated since it was opened, every endpoint of the
\* engine is the one of the highest layer that gives it, the command line settings
\* the engine took before the one file it merged before base; and so is every
\* endpoint of the mirror, and its name, for the settings that were given, taken
\* or not.  A service outside a container: the code applies the network flags
\* inside one as well (quick-overview/Features-Behavior.md:35 says it does not).
HierarchyOfTruth ==
  \A app \in Apps :
    pc[app] = "up" /\ engine[app].ver = 0 =>
      \E base \in Contents :
        /\ Obeys(engine[app].content, <<Layer(app, taken[app]), FileLayer(app), base>>)
        /\ mirror[app].ver = 0 =>
             /\ Obeys(mirror[app].content, <<Given(app), FileLayer(app), base>>)
             /\ mirror[app].content.name =
                  Highest(<<args[app].name, FileLayer(app).name, base.name>>, Unset)

\* What the constructor promises when it returns (AppConfig.hpp:64, "Validate
\* Unique Endpoints"): no two endpoints of the configuration clash, whatever the
\* file and the command line did to them, if the engine was not updated after the
\* last mirror was taken.
StartsUnique ==
  [][\A app \in Apps :
       pc[app] = "ports" /\ pc'[app] = "up" /\ mirror[app].ver = engine[app].ver =>
         \A c, d \in DOMAIN engine[app].content.ends :
           \A e \in Endpoints(app, c), f \in Endpoints(app, d) :
             <<c, e>> # <<d, f>> => ~Clash(e.end, f.end)]_vars

Behind(app) ==
  /\ pc[app] = "up"
  /\ mirror[app].ver # NoVersion
  /\ mirror[app].ver < announced[app]

\* A bridge on its way that will leave the mirror with every announced update.
Coming(app, kind) ==
  \/ queue[app][kind] > 0
  \/ bridge[app][kind] \in {"lock", "callback", "read"}
  \/ bridge[app][kind] = "assign" /\ read[app][kind].ver >= announced[app]

\* No announced update is forgotten: when the mirror is behind one, some bridge is
\* still on its way and has read the engine late enough, or has yet to read it.  A
\* bridge that read too early cannot be the last (AppConfig.hpp:179-189).
NoUpdateForgotten ==
  \A app \in Apps : Behind(app) => \E kind \in Bridges : Coming(app, kind)

\* The comment of AppConfig.hpp:182, "Keep local mirror updated": however the two
\* bridges interleave, the mirror does not stay behind an announced update.
MirrorCatchesUp == \A app \in Apps : []<>(crashed \/ ~Behind(app))

=============================================================================
