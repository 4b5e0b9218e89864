--------------------------- MODULE AppConfig_proofs ---------------------------
(***************************************************************************)
(* Theorems about AppConfig: its type invariant, which holds the mutual    *)
(* exclusion of the bridges; the promise of the constructor that no        *)
(* endpoint is used twice; the hierarchy of truth; and the safety half of  *)
(* MirrorCatchesUp, that no announced update is forgotten.                 *)
(*                                                                         *)
(* The second rests on what the loop of ValidateUniquePorts has done so    *)
(* far: the capabilities it has passed do not clash with one another, and  *)
(* their endpoints are all in `seen` - as long as the engine has not been  *)
(* updated behind the mirror, from which the loop takes the names.         *)
(***************************************************************************)
EXTENDS AppConfig, FiniteSetTheorems, WellFoundedInduction, TLAPS

\* What a bridge has read is no newer than the engine, and every function that
\* is updated is defined on all configurations.
Reads ==
  /\ DOMAIN seen = Apps /\ DOMAIN unchecked = Apps
  /\ DOMAIN read = Apps /\ DOMAIN args = Apps
  /\ \A app \in Apps :
       /\ DOMAIN read[app] = Bridges
       /\ \A kind \in Bridges :
            /\ Versioned(read[app][kind])
            /\ read[app][kind].ver <= engine[app].ver

\* The mirror was read from what the engine holds now.
Fresh(app) == mirror[app].ver = engine[app].ver

\* The mirror names the capabilities the engine knows.
NamesKnown(app) ==
  DOMAIN engine[app].content.ends \subseteq DOMAIN mirror[app].content.ends

\* It names the one the command line speaks about, whose settings the engine may
\* still take.
TargetKnown(app) ==
  \A s \in Settings :
    IsGiven(app, s) => Target(app) \in DOMAIN mirror[app].content.ends

Apart(app, c, d) ==
  \A e \in Endpoints(app, c), f \in Endpoints(app, d) :
    <<c, e>> # <<d, f>> => ~Clash(e.end, f.end)

\* The capabilities the loop has passed.
Passed(app) == DOMAIN engine[app].content.ends \ unchecked[app]

PassedAreApart(app) ==
  /\ \A c \in Passed(app) : \A e \in Endpoints(app, c) : e.end \in seen[app]
  /\ \A c, d \in Passed(app) : Apart(app, c, d)

Checking(app) ==
  /\ pc[app] = "none" => engine[app].ver = NoVersion
  /\ pc[app] \notin {"none", "failed"} => engine[app].ver >= 0
  /\ pc[app] \in {"files", "cli", "key"} \cup Settings /\ Fresh(app) => NamesKnown(app)
  /\ pc[app] \in Settings => TargetKnown(app)
  /\ pc[app] = "ports" /\ Fresh(app) => PassedAreApart(app)

IInv == TypeOK /\ Reads /\ \A app \in Apps : Checking(app)

-----------------------------------------------------------------------------
(* Operators                                                               *)

\* A clash does not depend on which endpoint is asked about the other.
LEMMA ClashSymmetric ==
  ASSUME NEW e, NEW f
  PROVE  Clash(e, f) <=> Clash(f, e)
BY DEF Clash

\* A layer on top of another has the capabilities of both.
LEMMA OverlayDomain ==
  ASSUME NEW base, NEW over
  PROVE  DOMAIN Overlay(base, over).ends = DOMAIN base.ends \cup DOMAIN over.ends
BY DEF Overlay

\* The endpoints of a configuration change only with its engine.
LEMMA EndpointsKept ==
  ASSUME NEW app, engine'[app] = engine[app]
  PROVE  /\ \A c : Endpoints(app, c)' = Endpoints(app, c)
         /\ \A c, d : Apart(app, c, d)' <=> Apart(app, c, d)
<1>1. \A c : Endpoints(app, c)' = Endpoints(app, c)
  BY DEF Endpoints
<1>2. QED BY <1>1 DEF Apart

\* What follows for a configuration that a step leaves alone.
LEMMA Untouched ==
  ASSUME NEW app, Checking(app),
         pc'[app] = pc[app], engine'[app] = engine[app], mirror'[app] = mirror[app],
         args'[app] = args[app], seen'[app] = seen[app], unchecked'[app] = unchecked[app]
  PROVE  Checking(app)'
<1>1. /\ \A c : Endpoints(app, c)' = Endpoints(app, c)
      /\ \A c, d : Apart(app, c, d)' <=> Apart(app, c, d)
  BY EndpointsKept
<1>2. Passed(app)' = Passed(app)  BY DEF Passed
<1>3. PassedAreApart(app)' <=> PassedAreApart(app)
  BY <1>1, <1>2 DEF PassedAreApart
<1>4. TargetKnown(app)' <=> TargetKnown(app)
  BY DEF TargetKnown, Target, IsGiven
<1>5. QED  BY <1>3, <1>4 DEF Checking, Fresh, NamesKnown

\* The same for one that leaves `up`, or is refused by its constructor.
LEMMA Finished ==
  ASSUME NEW app, Checking(app), pc[app] # "none",
         \/ pc'[app] = "failed"
         \/ pc[app] # "failed" /\ pc'[app] \in {"up", "gone"},
         engine'[app] = engine[app], mirror'[app] = mirror[app]
  PROVE  Checking(app)'
BY DEF Checking, Fresh, Settings

-----------------------------------------------------------------------------
(* TypeOK and Reads                                                        *)

\* Content put together with a version.
LEMMA VersionedRecord ==
  ASSUME NEW version \in Int, NEW content
  PROVE  /\ Versioned([ver |-> version, content |-> content])
         /\ [ver |-> version, content |-> content].ver = version
BY DEF Versioned

\* New content, the version kept.
LEMMA ContentReplaced ==
  ASSUME NEW f, \A other \in Apps : Versioned(f[other]),
         NEW app \in Apps, NEW x, NEW g,
         g[app] = [ver |-> f[app].ver, content |-> x],
         \A other \in Apps \ {app} : g[other] = f[other]
  PROVE  \A other \in Apps : Versioned(g[other]) /\ g[other].ver = f[other].ver
<1>1. f[app].ver \in Int
  BY DEF Versioned
<1>2. Versioned(g[app]) /\ g[app].ver = f[app].ver
  BY <1>1, VersionedRecord
<1>3. QED  BY <1>2

\* What was no newer than the engine is still no newer.
LEMMA StillBehind ==
  ASSUME TypeOK, Reads, NEW other \in Apps,
         engine'[other].ver \in Int, engine[other].ver <= engine'[other].ver
  PROVE  /\ mirror[other].ver <= engine'[other].ver
         /\ \A k \in Bridges : read[other][k].ver <= engine'[other].ver
<1>1. /\ engine[other].ver \in Int
      /\ mirror[other].ver \in Int /\ mirror[other].ver <= engine[other].ver
  BY DEF TypeOK, Versioned
<1>2. \A k \in Bridges : /\ read[other][k].ver \in Int
                         /\ read[other][k].ver <= engine[other].ver
  BY DEF Reads, Versioned
<1>3. QED  BY <1>1, <1>2

\* A mirror that SyncFromBridge assigns.
LEMMA SyncedMirror ==
  ASSUME NEW app \in Apps, NEW data, Synced(app, data),
         Versioned(data), DOMAIN mirror = Apps
  PROVE  /\ DOMAIN mirror' = Apps
         /\ \A other \in Apps \ {app} : mirror'[other] = mirror[other]
         /\ Versioned(mirror'[app])
         /\ mirror'[app] = data \/ mirror'[app] = Emptied
<1>1. Versioned(Emptied)  BY DEF Versioned, Emptied, NoVersion
<1>2. QED BY <1>1 DEF Synced

\* What comes after each call of Set.
LEMMA NextSetting ==
  ASSUME NEW setting \in Settings
  PROVE  AfterSet[setting] \in Settings \cup {"key"}
BY DEF Settings, AfterSet

\* A step of a constructor keeps the first part of the invariant.
LEMMA ConstructTyped ==
  ASSUME IInv, NEW app \in Apps, Construct(app)
  PROVE  TypeOK' /\ Reads'
<1> USE DEF IInv, Construct
<1>1. CASE Open(app)
  <2>1. engine[app].ver = NoVersion
    BY <1>1 DEF Open, Checking
  <2>2. /\ DOMAIN engine' = Apps
        /\ \A other \in Apps : /\ Versioned(engine'[other])
                               /\ engine[other].ver <= engine'[other].ver
    <3>1. \/ UNCHANGED engine
          \/ \E content \in Contents :
               engine' = [engine EXCEPT ![app] = [ver |-> 0, content |-> content]]
      BY <1>1 DEF Open
    <3>2. \A content : /\ Versioned([ver |-> 0, content |-> content])
                        /\ [ver |-> 0, content |-> content].ver = 0
      BY VersionedRecord
    <3>3. \A other \in Apps : engine[other].ver \in Int
      BY DEF TypeOK, Versioned
    <3>4. CASE UNCHANGED engine
      BY <3>3, <3>4 DEF TypeOK
    <3>5. ASSUME NEW content,
                 engine' = [engine EXCEPT ![app] = [ver |-> 0, content |-> content]]
          PROVE  /\ DOMAIN engine' = Apps
                 /\ \A other \in Apps : /\ Versioned(engine'[other])
                                        /\ engine[other].ver <= engine'[other].ver
      <4>1. \A other \in Apps : engine'[other] =
              IF other = app THEN [ver |-> 0, content |-> content] ELSE engine[other]
        BY <3>5 DEF TypeOK
      <4>2. NoVersion <= 0  BY DEF NoVersion
      <4>3. QED  BY <3>2, <3>3, <3>5, <4>1, <4>2, <2>1 DEF TypeOK
    <3>6. QED  BY <3>1, <3>4, <3>5
  <2>3. pc' \in [Apps -> States]
    BY <1>1 DEF Open, TypeOK, States
  <2>4. \A other \in Apps : mirror[other].ver <= engine'[other].ver
    BY <2>2, StillBehind DEF Versioned
  <2>5. \A other \in Apps, kind \in Bridges :
          read[other][kind].ver <= engine'[other].ver
    BY <2>2, StillBehind DEF Versioned
  <2>6. TypeOK'
    BY <1>1, <2>2, <2>3, <2>4 DEF Open, TypeOK, updating
  <2>7. Reads'
    BY <1>1, <2>5 DEF Open, Reads, updating
  <2>8. QED  BY <2>6, <2>7
<1>2. CASE Sync(app)
  <2>1. /\ DOMAIN mirror' = Apps
        /\ \A other \in Apps : Versioned(mirror'[other])
        /\ \A other \in Apps : mirror'[other].ver <= engine[other].ver
    <3>1. engine[app].ver >= 0
      BY <1>2 DEF Sync, Checking
    <3>2. Emptied.ver = -1
      BY DEF Emptied, NoVersion
    <3>3. Synced(app, engine[app]) /\ Versioned(engine[app])
      BY <1>2 DEF Sync, TypeOK
    <3>4. /\ DOMAIN mirror' = Apps
          /\ \A other \in Apps \ {app} : mirror'[other] = mirror[other]
          /\ Versioned(mirror'[app])
          /\ mirror'[app] = engine[app] \/ mirror'[app] = Emptied
      BY <3>3, SyncedMirror DEF TypeOK
    <3>5. mirror'[app].ver <= engine[app].ver
      BY <3>1, <3>2, <3>3, <3>4 DEF Versioned
    <3>6. QED
      BY <3>4, <3>5 DEF TypeOK
  <2>2. pc' \in [Apps -> States]
    BY <1>2 DEF Sync, TypeOK, States
  <2>3. TypeOK'
    BY <1>2, <2>1, <2>2 DEF Sync, TypeOK, updating
  <2>4. Reads'
    BY <1>2 DEF Sync, Reads, starting, updating
  <2>5. QED  BY <2>3, <2>4
<1>3. CASE LoadFile(app)
  <2>1. /\ DOMAIN engine' = Apps
        /\ \A other \in Apps : /\ Versioned(engine'[other])
                               /\ engine'[other].ver = engine[other].ver
    <3>1. \/ UNCHANGED engine
          \/ \E x : engine' = [engine EXCEPT ![app].content = x]
      BY <1>3 DEF LoadFile
    <3>2. CASE UNCHANGED engine  BY <3>2 DEF TypeOK
    <3>3. ASSUME NEW x, engine' = [engine EXCEPT ![app].content = x]
          PROVE  /\ DOMAIN engine' = Apps
                 /\ \A other \in Apps : /\ Versioned(engine'[other])
                                        /\ engine'[other].ver = engine[other].ver
      <4>1. DOMAIN engine = Apps /\ \A other \in Apps : Versioned(engine[other])
        BY DEF TypeOK
      <4>2. engine'[app] = [ver |-> engine[app].ver, content |-> x]
        BY <3>3, <4>1 DEF Versioned
      <4>3. DOMAIN engine' = Apps /\ \A other \in Apps \ {app} : engine'[other] = engine[other]
        BY <3>3, <4>1
      <4>4. QED  BY <4>1, <4>2, <4>3, ContentReplaced
    <3>4. QED  BY <3>1, <3>2, <3>3
  <2>2. pc' \in [Apps -> States]
    BY <1>3 DEF LoadFile, TypeOK, States
  <2>3. TypeOK'
    BY <1>3, <2>1, <2>2 DEF LoadFile, TypeOK, updating
  <2>4. Reads'
    BY <1>3, <2>1 DEF LoadFile, Reads, updating
  <2>5. QED  BY <2>3, <2>4
<1>4. CASE ApplyCommandLine(app)
  <2>1. PICK y : mirror' = [mirror EXCEPT ![app].content = y]
    BY <1>4 DEF ApplyCommandLine
  <2>2. /\ DOMAIN mirror' = Apps
        /\ \A other \in Apps : /\ Versioned(mirror'[other])
                               /\ mirror'[other].ver = mirror[other].ver
    <3>1. DOMAIN mirror = Apps /\ \A other \in Apps : Versioned(mirror[other])
      BY DEF TypeOK
    <3>2. mirror'[app] = [ver |-> mirror[app].ver, content |-> y]
      BY <2>1, <3>1 DEF Versioned
    <3>3. DOMAIN mirror' = Apps /\ \A other \in Apps \ {app} : mirror'[other] = mirror[other]
      BY <2>1, <3>1
    <3>4. QED  BY <3>1, <3>2, <3>3, ContentReplaced
  <2>3. pc' \in [Apps -> States]
    BY <1>4 DEF ApplyCommandLine, TypeOK, States, Settings
  <2>4. QED
    BY <1>4, <2>2, <2>3 DEF ApplyCommandLine, TypeOK, Reads, starting, updating
<1>5. CASE SetOverride(app)
  <2>1. /\ DOMAIN engine' = Apps
        /\ \A other \in Apps : /\ Versioned(engine'[other])
                               /\ engine'[other].ver = engine[other].ver
    <3>1. \/ UNCHANGED engine
          \/ \E x : engine' = [engine EXCEPT ![app].content = x]
      BY <1>5 DEF SetOverride
    <3>2. CASE UNCHANGED engine  BY <3>2 DEF TypeOK
    <3>3. ASSUME NEW x, engine' = [engine EXCEPT ![app].content = x]
          PROVE  /\ DOMAIN engine' = Apps
                 /\ \A other \in Apps : /\ Versioned(engine'[other])
                                        /\ engine'[other].ver = engine[other].ver
      <4>1. DOMAIN engine = Apps /\ \A other \in Apps : Versioned(engine[other])
        BY DEF TypeOK
      <4>2. engine'[app] = [ver |-> engine[app].ver, content |-> x]
        BY <3>3, <4>1 DEF Versioned
      <4>3. DOMAIN engine' = Apps /\ \A other \in Apps \ {app} : engine'[other] = engine[other]
        BY <3>3, <4>1
      <4>4. QED  BY <4>1, <4>2, <4>3, ContentReplaced
    <3>4. QED  BY <3>1, <3>2, <3>3
  <2>2. pc' \in [Apps -> States]
    <3>1. AfterSet[pc[app]] \in States
      BY <1>5, NextSetting DEF SetOverride, States
    <3>2. QED  BY <1>5, <3>1 DEF SetOverride, TypeOK
  <2>3. TypeOK'
    BY <1>5, <2>1, <2>2 DEF SetOverride, TypeOK, updating
  <2>4. Reads'
    BY <1>5, <2>1 DEF SetOverride, Reads, updating
  <2>5. QED  BY <2>3, <2>4
<1>6. CASE ExportKey(app)
  <2>1. pc' \in [Apps -> States]
    BY <1>6 DEF ExportKey, TypeOK, States
  <2>2. DOMAIN unchecked' = Apps
    BY <1>6 DEF ExportKey, Reads
  <2>3. QED
    BY <1>6, <2>1, <2>2 DEF ExportKey, TypeOK, Reads, updating
<1>7. CASE CheckCapability(app)
  <2>1. pc' \in [Apps -> States]
    BY <1>7 DEF CheckCapability, TypeOK, States
  <2>2. DOMAIN seen' = Apps /\ DOMAIN unchecked' = Apps
    BY <1>7 DEF CheckCapability, Reads
  <2>3. QED
    BY <1>7, <2>1, <2>2 DEF CheckCapability, TypeOK, Reads, updating
<1>8. CASE Constructed(app)
  <2>1. pc' \in [Apps -> States]
    BY <1>8 DEF Constructed, TypeOK, States
  <2>2. QED
    BY <1>8, <2>1 DEF Constructed, TypeOK, Reads, starting, updating
<1>9. QED BY <1>1, <1>2, <1>3, <1>4, <1>5, <1>6, <1>7, <1>8

\* What the bridges and the listeners do to their control points.
LEMMA UpdateTyped ==
  ASSUME IInv, NEW app \in Apps, NEW kind \in Bridges,
         \/ Listen(app, kind) \/ Listening(app, kind)
         \/ Update(app, kind) \/ Bridging(app, kind)
  PROVE  TypeOK' /\ Reads'
<1> USE DEF IInv, Bridging
<1>1. CASE Listen(app, kind)
  BY <1>1 DEF Listen, TypeOK, Reads, starting
<1>2. CASE Listening(app, kind)
  BY <1>2 DEF Listening, TypeOK, Reads, starting
<1>3. CASE Update(app, kind)
  <2>1. /\ DOMAIN engine' = Apps
        /\ \A other \in Apps : /\ Versioned(engine'[other])
                               /\ engine[other].ver <= engine'[other].ver
    <3>1. PICK content \in Contents :
            engine' = [engine EXCEPT ![app] = [ver     |-> engine[app].ver + 1,
                                               content |-> content]]
      BY <1>3 DEF Update, TypeOK
    <3>2. \A other \in Apps : engine[other].ver \in Int
      BY DEF TypeOK, Versioned
    <3>3. /\ Versioned([ver |-> engine[app].ver + 1, content |-> content])
          /\ [ver |-> engine[app].ver + 1, content |-> content].ver = engine[app].ver + 1
      BY <3>2, VersionedRecord
    <3>4. \A other \in Apps : engine'[other] =
            IF other = app THEN [ver |-> engine[app].ver + 1, content |-> content]
            ELSE engine[other]
      BY <3>1 DEF TypeOK
    <3>5. QED  BY <3>1, <3>2, <3>3, <3>4 DEF TypeOK
  <2>2. \A other \in Apps : mirror[other].ver <= engine'[other].ver
    BY <2>1, StillBehind DEF Versioned
  <2>3. \A other \in Apps, k \in Bridges : read[other][k].ver <= engine'[other].ver
    BY <2>1, StillBehind DEF Versioned
  <2>4. QED
    BY <1>3, <2>1, <2>2, <2>3 DEF Update, TypeOK, Reads, starting
<1>4. CASE Deliver(app, kind)
  <2>1. /\ bridge' \in [Apps -> [Bridges -> Inside \cup {"idle", "lock"}]]
        /\ \A other \in Apps, k \in Bridges :
             bridge'[other][k] \in Inside <=> bridge[other][k] \in Inside
    BY <1>4 DEF Deliver, TypeOK, Inside
  <2>2. QED  BY <1>4, <2>1 DEF Deliver, TypeOK, Reads, starting
<1>5. CASE EnterCallback(app, kind)
  <2>1. /\ bridge' \in [Apps -> [Bridges -> Inside \cup {"idle", "lock"}]]
        /\ \A other \in Apps, k \in Bridges :
             bridge'[other][k] = IF other = app /\ k = kind THEN "callback"
                                 ELSE bridge[other][k]
    BY <1>5 DEF EnterCallback, TypeOK, Inside
  <2>2. \A other \in Apps, k \in Bridges : bridge[other][k] \notin Inside
    BY <1>5, AppsAssumption DEF EnterCallback, TypeOK
  <2>3. \A other \in Apps, k \in Bridges :
          bridge'[other][k] \in Inside <=> mutex' = <<other, k>>
    BY <1>5, <2>1, <2>2 DEF EnterCallback, Inside
  <2>4. QED  BY <1>5, <2>1, <2>3 DEF EnterCallback, TypeOK, Reads, starting
<1>6. CASE CallbackReturns(app, kind)
  <2>1. /\ bridge' \in [Apps -> [Bridges -> Inside \cup {"idle", "lock"}]]
        /\ \A other \in Apps, k \in Bridges :
             bridge'[other][k] \in Inside <=> bridge[other][k] \in Inside
    BY <1>6 DEF CallbackReturns, TypeOK, Inside
  <2>2. QED  BY <1>6, <2>1 DEF CallbackReturns, TypeOK, Reads, starting
<1>7. CASE ReadEngine(app, kind)
  <2>1. /\ bridge' \in [Apps -> [Bridges -> Inside \cup {"idle", "lock"}]]
        /\ \A other \in Apps, k \in Bridges :
             bridge'[other][k] \in Inside <=> bridge[other][k] \in Inside
    BY <1>7 DEF ReadEngine, TypeOK, Inside
  <2>2. Reads'
    BY <1>7 DEF ReadEngine, TypeOK, Reads, Versioned, starting
  <2>3. QED  BY <1>7, <2>1, <2>2 DEF ReadEngine, TypeOK
<1>8. CASE AssignMirror(app, kind)
  <2>1. /\ bridge' \in [Apps -> [Bridges -> Inside \cup {"idle", "lock"}]]
        /\ \A other \in Apps, k \in Bridges :
             bridge'[other][k] = IF other = app /\ k = kind THEN "idle"
                                 ELSE bridge[other][k]
    BY <1>8 DEF AssignMirror, TypeOK, Inside
  <2>2. mutex = <<app, kind>> /\ mutex' = Nobody
    BY <1>8 DEF AssignMirror, TypeOK, Inside
  <2>3. \A other \in Apps, k \in Bridges :
          bridge'[other][k] \in Inside <=> mutex' = <<other, k>>
    BY <2>1, <2>2, AppsAssumption DEF TypeOK, Inside
  <2>4. /\ DOMAIN mirror' = Apps
        /\ \A other \in Apps : Versioned(mirror'[other])
        /\ \A other \in Apps : mirror'[other].ver <= engine[other].ver
    <3>1. Versioned(read[app][kind]) /\ read[app][kind].ver <= engine[app].ver
      BY DEF Reads
    <3>2. engine[app].ver >= 0
      BY <1>8 DEF AssignMirror, Checking
    <3>3. Emptied.ver = -1
      BY DEF Emptied, NoVersion
    <3>4. /\ DOMAIN mirror' = Apps
          /\ \A other \in Apps \ {app} : mirror'[other] = mirror[other]
          /\ Versioned(mirror'[app])
          /\ mirror'[app] = read[app][kind] \/ mirror'[app] = Emptied
      BY <1>8, <3>1, SyncedMirror DEF AssignMirror, TypeOK
    <3>5. mirror'[app].ver <= engine[app].ver
      <4>1. engine[app].ver \in Int  BY DEF TypeOK, Versioned
      <4>2. CASE mirror'[app] = read[app][kind]  BY <3>1, <4>2
      <4>3. CASE mirror'[app] = Emptied  BY <3>2, <3>3, <4>1, <4>3
      <4>4. QED  BY <3>4, <4>2, <4>3
    <3>6. QED
      BY <3>4, <3>5 DEF TypeOK
  <2>5. QED
    BY <1>8, <2>1, <2>3, <2>4 DEF AssignMirror, TypeOK, Reads, starting
<1>9. CASE CallbackThrows(app, kind) \/ UseDestroyed(app, kind)
  BY <1>9 DEF CallbackThrows, UseDestroyed, TypeOK, Reads, starting, updating
<1>10. QED
  BY <1>1, <1>2, <1>3, <1>4, <1>5, <1>6, <1>7, <1>8, <1>9

-----------------------------------------------------------------------------
(* The loop of ValidateUniquePorts                                         *)

\* One more capability passed: it clashes neither with `seen`, where the
\* endpoints of the others are, nor within itself.
LEMMA OneMorePassed ==
  ASSUME NEW app \in Apps, NEW cap, PassedAreApart(app), ~Duplicate(app, cap),
         engine' = engine, DOMAIN seen = Apps, DOMAIN unchecked = Apps,
         seen' = [seen EXCEPT ![app] = @ \cup {e.end : e \in Endpoints(app, cap)}],
         unchecked' = [unchecked EXCEPT ![app] = @ \ {cap}]
  PROVE  PassedAreApart(app)'
<1>1. /\ seen'[app] = seen[app] \cup {e.end : e \in Endpoints(app, cap)}
      /\ unchecked'[app] = unchecked[app] \ {cap}
  OBVIOUS
<1>2. /\ \A c : Endpoints(app, c)' = Endpoints(app, c)
      /\ \A c, d : Apart(app, c, d)' <=> Apart(app, c, d)
  BY EndpointsKept
<1>3. \A c \in Passed(app)' : c \in Passed(app) \/ c = cap
  BY <1>1 DEF Passed
<1>4. Apart(app, cap, cap)
  BY DEF Duplicate, Apart
<1>5. ASSUME NEW c \in Passed(app)
      PROVE  Apart(app, cap, c) /\ Apart(app, c, cap)
  <2>1. \A e \in Endpoints(app, cap), f \in Endpoints(app, c) : ~Clash(e.end, f.end)
    BY <1>5 DEF PassedAreApart, Duplicate
  <2>2. QED  BY <2>1, ClashSymmetric DEF Apart
<1>6. \A c, d \in Passed(app)' : Apart(app, c, d)'
  BY <1>2, <1>3, <1>4, <1>5 DEF PassedAreApart
<1>7. \A c \in Passed(app)' : \A e \in Endpoints(app, c)' : e.end \in seen'[app]
  BY <1>1, <1>2, <1>3 DEF PassedAreApart
<1>8. QED  BY <1>6, <1>7 DEF PassedAreApart

\* A step of a constructor keeps what is said about its phases.
LEMMA ConstructChecked ==
  ASSUME IInv, NEW app \in Apps, Construct(app)
  PROVE  Checking(app)'
<1> USE DEF IInv, Construct
<1>1. CASE Open(app)
  <2>1. CASE pc' = [pc EXCEPT ![app] = "failed"] /\ UNCHANGED engine
    BY <1>1, <2>1 DEF Open, Checking, Fresh, Settings, TypeOK
  <2>2. CASE /\ pc' = [pc EXCEPT ![app] = "sync"]
             /\ \E content \in Contents :
                  engine' = [engine EXCEPT ![app] = [ver |-> 0, content |-> content]]
    <3>1. pc'[app] = "sync" /\ engine'[app].ver = 0
      BY <2>2 DEF TypeOK
    <3>2. QED  BY <3>1 DEF Checking, Settings
  <2>3. QED  BY <1>1, <2>1, <2>2 DEF Open
<1>2. CASE Sync(app)
  <2>1. engine[app].ver >= 0 /\ engine'[app] = engine[app]
    BY <1>2 DEF Sync, Checking
  <2>2. mirror'[app] = engine[app] \/ mirror'[app] = Emptied
    BY <1>2, SyncedMirror DEF Sync, TypeOK
  <2>3. Fresh(app)' => NamesKnown(app)'
    BY <2>1, <2>2 DEF Fresh, NamesKnown, Emptied, NoVersion
  <2>4. pc'[app] \in {"files", "cli"}
    BY <1>2 DEF Sync, TypeOK
  <2>5. QED  BY <2>1, <2>3, <2>4 DEF Checking, Settings
<1>3. CASE LoadFile(app)
  <2>1. engine[app].ver >= 0
    BY <1>3 DEF LoadFile, Checking
  <2>2. CASE pc' = [pc EXCEPT ![app] = "cli"] /\ UNCHANGED engine
    <3>1. pc'[app] = "cli" /\ mirror' = mirror
      BY <1>3, <2>2 DEF LoadFile, TypeOK
    <3>2. Fresh(app) => NamesKnown(app)
      BY <1>3 DEF LoadFile, Checking
    <3>3. QED  BY <2>1, <2>2, <3>1, <3>2 DEF Checking, Fresh, NamesKnown, Settings
  <2>3. CASE /\ pc' = [pc EXCEPT ![app] = "resync"]
             /\ \E x : engine' = [engine EXCEPT ![app].content = x]
    <3>1. PICK x : engine' = [engine EXCEPT ![app].content = x]
      BY <2>3
    <3>2. engine'[app].ver = engine[app].ver
      BY <3>1 DEF TypeOK, Versioned
    <3>3. pc'[app] = "resync"
      BY <2>3 DEF TypeOK
    <3>4. QED  BY <2>1, <3>2, <3>3 DEF Checking, Settings
  <2>4. CASE pc' = [pc EXCEPT ![app] = "resync"] /\ UNCHANGED engine
    <3>1. pc'[app] = "resync"
      BY <2>4 DEF TypeOK
    <3>2. QED  BY <2>1, <2>4, <3>1 DEF Checking, Settings
  <2>5. QED  BY <1>3, <2>2, <2>3, <2>4 DEF LoadFile
<1>4. CASE ApplyCommandLine(app)
  <2> DEFINE over == [Given(app) EXCEPT !.name = args[app].name]
  <2>1. /\ mirror'[app].ver = mirror[app].ver
        /\ mirror'[app].content = Overlay(mirror[app].content, over)
    BY <1>4 DEF ApplyCommandLine, TypeOK, Versioned
  <2>2. over.ends = Given(app).ends /\ over.name = args[app].name
    BY DEF Given, Layer
  <2> HIDE DEF over
  <2>3. mirror'[app].content.name = Pick(args[app].name, mirror[app].content.name)
    BY <2>1, <2>2 DEF Overlay
  <2>4. DOMAIN mirror'[app].content.ends
          = DOMAIN mirror[app].content.ends \cup DOMAIN Given(app).ends
    BY <2>1, <2>2, OverlayDomain
  <2>5. args' = args /\ engine' = engine
    BY <1>4 DEF ApplyCommandLine, starting
  <2>6. Target(app)' = Target(app)
    BY <2>3, <2>5 DEF Target, Pick
  <2>7. TargetKnown(app)'
    <3>1. ASSUME NEW s \in Settings, IsGiven(app, s)'
          PROVE  Target(app)' \in DOMAIN mirror'[app].content.ends
      <4>1. IsGiven(app, s)
        BY <2>5, <3>1 DEF IsGiven
      <4>2. Target(app) \in DOMAIN Given(app).ends
        BY <4>1 DEF Given, Layer
      <4>3. QED  BY <2>4, <2>6, <4>2
    <3>2. QED  BY <3>1 DEF TargetKnown
  <2>8. Fresh(app)' => NamesKnown(app)'
    <3>1. Fresh(app) => NamesKnown(app)
      BY <1>4 DEF ApplyCommandLine, Checking
    <3>2. QED  BY <2>1, <2>4, <2>5, <3>1 DEF Fresh, NamesKnown
  <2>9. pc'[app] = "host" /\ engine[app].ver >= 0
    BY <1>4 DEF ApplyCommandLine, TypeOK, Checking
  <2>10. QED  BY <2>5, <2>7, <2>8, <2>9 DEF Checking, Settings
<1>5. CASE SetOverride(app)
  <2>1. /\ pc[app] \in Settings /\ mirror' = mirror /\ args' = args
        /\ pc'[app] = AfterSet[pc[app]] /\ engine[app].ver >= 0
    BY <1>5 DEF SetOverride, TypeOK, Checking, Settings
  <2>2. pc'[app] \in Settings \cup {"key"}
    BY <2>1, NextSetting
  <2>3. TargetKnown(app) /\ TargetKnown(app)'
    BY <2>1 DEF Checking, TargetKnown, Target, IsGiven
  <2>4. /\ engine'[app].ver = engine[app].ver
        /\ DOMAIN engine'[app].content.ends
             \subseteq DOMAIN engine[app].content.ends \cup DOMAIN mirror[app].content.ends
    <3>1. CASE engine' = engine  BY <3>1
    <3>2. CASE /\ IsGiven(app, pc[app])
               /\ engine' = [engine EXCEPT ![app].content =
                               Overlay(engine[app].content, Layer(app, {pc[app]}))]
      <4>1. /\ engine'[app].ver = engine[app].ver
            /\ engine'[app].content = Overlay(engine[app].content, Layer(app, {pc[app]}))
        BY <3>2 DEF TypeOK, Versioned
      <4>2. DOMAIN Layer(app, {pc[app]}).ends \subseteq {Target(app)}
        BY DEF Layer
      <4>3. Target(app) \in DOMAIN mirror[app].content.ends
        BY <2>1, <2>3, <3>2 DEF TargetKnown
      <4>4. DOMAIN Overlay(engine[app].content, Layer(app, {pc[app]})).ends
              = DOMAIN engine[app].content.ends \cup DOMAIN Layer(app, {pc[app]}).ends
        BY OverlayDomain
      <4>5. QED  BY <4>1, <4>2, <4>3, <4>4
    <3>3. QED  BY <1>5, <3>1, <3>2 DEF SetOverride
  <2>5. Fresh(app)' => NamesKnown(app)'
    <3>1. Fresh(app) => NamesKnown(app)
      BY <2>1 DEF Checking
    <3>2. QED  BY <2>1, <2>4, <3>1 DEF Fresh, NamesKnown
  <2>6. QED  BY <2>1, <2>2, <2>3, <2>4, <2>5 DEF Checking, Settings
<1>6. CASE ExportKey(app)
  <2>1. /\ pc[app] = "key" /\ pc'[app] = "ports" /\ engine[app].ver >= 0
        /\ engine' = engine /\ mirror' = mirror
    BY <1>6 DEF ExportKey, TypeOK, Checking
  <2>2. unchecked'[app] = DOMAIN mirror[app].content.ends
    BY <1>6 DEF ExportKey, Reads
  <2>3. Fresh(app) => NamesKnown(app)
    BY <2>1 DEF Checking
  <2>4. Fresh(app)' => Passed(app)' = {}
    BY <2>1, <2>2, <2>3 DEF Fresh, NamesKnown, Passed
  <2>5. Fresh(app)' => PassedAreApart(app)'
    BY <2>4 DEF PassedAreApart
  <2>6. QED  BY <2>1, <2>5 DEF Checking, Settings
<1>7. CASE CheckCapability(app)
  <2>1. pc[app] = "ports" /\ engine' = engine /\ mirror' = mirror
    BY <1>7 DEF CheckCapability
  <2>2. CASE pc' = [pc EXCEPT ![app] = "failed"]
    <3>1. pc'[app] = "failed"  BY <2>2 DEF TypeOK
    <3>2. QED  BY <2>1, <3>1, Finished
  <2>3. ASSUME NEW cap, ~Duplicate(app, cap),
               seen' = [seen EXCEPT ![app] =
                          @ \cup {e.end : e \in Endpoints(app, cap)}],
               unchecked' = [unchecked EXCEPT ![app] = @ \ {cap}],
               UNCHANGED pc
        PROVE  Checking(app)'
    <3>1. PassedAreApart(app) => PassedAreApart(app)'
      BY <2>1, <2>3, OneMorePassed DEF Reads
    <3>2. QED  BY <2>1, <2>3, <3>1 DEF Checking, Fresh, Settings
  <2>4. QED  BY <1>7, <2>2, <2>3 DEF CheckCapability
<1>8. CASE Constructed(app)
  <2>1. pc'[app] = "up"  BY <1>8 DEF Constructed, TypeOK
  <2>2. QED  BY <1>8, <2>1, Finished DEF Constructed
<1>9. QED BY <1>1, <1>2, <1>3, <1>4, <1>5, <1>6, <1>7, <1>8

\* A step of one configuration leaves the others alone.
LEMMA OthersUntouched ==
  ASSUME IInv, NEW app \in Apps,
         \/ Construct(app)
         \/ Destroy(app)
         \/ \E kind \in Bridges : \/ Listen(app, kind)
                                  \/ Listening(app, kind)
                                  \/ Update(app, kind)
                                  \/ Bridging(app, kind),
         NEW other \in Apps \ {app}
  PROVE  /\ pc'[other] = pc[other] /\ engine'[other] = engine[other]
         /\ mirror'[other] = mirror[other] /\ args'[other] = args[other]
         /\ seen'[other] = seen[other] /\ unchecked'[other] = unchecked[other]
<1> USE DEF IInv, TypeOK, Reads
<1>1. CASE Construct(app)
  <2>1. CASE Open(app)  BY <2>1 DEF Open
  <2>2. CASE Sync(app)  BY <2>2, SyncedMirror DEF Sync, starting
  <2>3. CASE LoadFile(app)  BY <2>3 DEF LoadFile
  <2>4. CASE ApplyCommandLine(app) \/ SetOverride(app) \/ ExportKey(app)
    BY <2>4 DEF ApplyCommandLine, SetOverride, ExportKey, starting
  <2>5. CASE CheckCapability(app)  BY <2>5 DEF CheckCapability
  <2>6. CASE Constructed(app)  BY <2>6 DEF Constructed, starting
  <2>7. QED  BY <1>1, <2>1, <2>2, <2>3, <2>4, <2>5, <2>6 DEF Construct
<1>2. CASE Destroy(app)  BY <1>2 DEF Destroy, starting
<1>3. ASSUME NEW kind \in Bridges,
             \/ Listen(app, kind) \/ Listening(app, kind)
             \/ Update(app, kind) \/ Bridging(app, kind)
      PROVE  /\ pc'[other] = pc[other] /\ engine'[other] = engine[other]
             /\ mirror'[other] = mirror[other] /\ args'[other] = args[other]
             /\ seen'[other] = seen[other] /\ unchecked'[other] = unchecked[other]
  <2>1. CASE Listen(app, kind)  BY <2>1 DEF Listen, starting
  <2>2. CASE Listening(app, kind)  BY <2>2 DEF Listening, starting
  <2>3. CASE Update(app, kind)  BY <2>3 DEF Update, starting
  <2>4. CASE Deliver(app, kind)  BY <2>4 DEF Deliver, starting
  <2>5. CASE EnterCallback(app, kind)  BY <2>5 DEF EnterCallback, starting
  <2>6. CASE CallbackReturns(app, kind)  BY <2>6 DEF CallbackReturns, starting
  <2>7. CASE ReadEngine(app, kind)  BY <2>7 DEF ReadEngine, starting
  <2>8. CASE AssignMirror(app, kind)
    BY <2>8, SyncedMirror DEF AssignMirror, starting
  <2>9. CASE CallbackThrows(app, kind) \/ UseDestroyed(app, kind)
    BY <2>9 DEF CallbackThrows, UseDestroyed, starting
  <2>10. QED
    BY <1>3, <2>1, <2>2, <2>3, <2>4, <2>5, <2>6, <2>7, <2>8, <2>9 DEF Bridging
<1>4. QED  BY <1>1, <1>2, <1>3

\* An update makes the mirror old; the other steps of an engine's threads do not
\* reach the phases of the constructor.
LEMMA UpdateChecked ==
  ASSUME IInv, NEW app \in Apps, NEW kind \in Bridges,
         \/ Listen(app, kind) \/ Listening(app, kind)
         \/ Update(app, kind) \/ Bridging(app, kind)
  PROVE  Checking(app)'
<1> USE DEF IInv
<1>1. CASE Listen(app, kind)  BY <1>1, Untouched DEF Listen, starting
<1>2. CASE Listening(app, kind)  BY <1>2, Untouched DEF Listening, starting
<1>3. CASE Update(app, kind)
  <2>1. engine'[app].ver = engine[app].ver + 1
    BY <1>3 DEF Update, TypeOK
  <2>2. engine[app].ver >= 0 /\ engine[app].ver \in Int
    BY <1>3 DEF Update, Checking, TypeOK, Versioned
  <2>3. mirror[app].ver \in Int /\ mirror[app].ver <= engine[app].ver
    BY DEF TypeOK, Versioned
  <2>4. ~Fresh(app)'
    BY <1>3, <2>1, <2>2, <2>3 DEF Update, Fresh
  <2>5. pc' = pc /\ pc[app] # "none"
    BY <1>3 DEF Update
  <2>6. TargetKnown(app)' <=> TargetKnown(app)
    BY <1>3 DEF Update, starting, TargetKnown, Target, IsGiven
  <2>7. QED  BY <2>1, <2>2, <2>4, <2>5, <2>6 DEF Checking
<1>4. CASE Deliver(app, kind)  BY <1>4, Untouched DEF Deliver, starting
<1>5. CASE EnterCallback(app, kind)  BY <1>5, Untouched DEF EnterCallback, starting
<1>6. CASE CallbackReturns(app, kind)  BY <1>6, Untouched DEF CallbackReturns, starting
<1>7. CASE ReadEngine(app, kind)  BY <1>7, Untouched DEF ReadEngine, starting
<1>8. CASE AssignMirror(app, kind)
  BY <1>8 DEF AssignMirror, Checking, Settings, starting
<1>9. CASE CallbackThrows(app, kind) \/ UseDestroyed(app, kind)
  BY <1>9, Untouched DEF CallbackThrows, UseDestroyed, starting
<1>10. QED
  BY <1>1, <1>2, <1>3, <1>4, <1>5, <1>6, <1>7, <1>8, <1>9 DEF Bridging

-----------------------------------------------------------------------------
(* The inductive invariant                                                 *)

\* Every constructor starts from nothing.
LEMMA InitInv == Init => IInv
<1> SUFFICES ASSUME Init PROVE IInv
  OBVIOUS
<1>1. Versioned(Emptied) /\ Emptied.ver = NoVersion
  BY DEF Versioned, Emptied, NoVersion
<1>2. TypeOK
  BY <1>1, AppsAssumption DEF Init, TypeOK, States, Inside, NoVersion
<1>3. Reads
  BY <1>1 DEF Init, Reads, NoVersion
<1>4. \A app \in Apps : Checking(app)
  BY <1>1 DEF Init, Checking, Settings
<1>5. QED  BY <1>2, <1>3, <1>4 DEF IInv

\* Every step, of whichever configuration and thread, keeps it.
LEMMA StepInv == IInv /\ [Next]_vars => IInv'
<1> SUFFICES ASSUME IInv, [Next]_vars PROVE IInv'
  OBVIOUS
<1>1. ASSUME NEW app \in Apps, Checking(app)',
             \/ Construct(app)
             \/ Destroy(app)
             \/ \E kind \in Bridges : \/ Listen(app, kind)
                                      \/ Listening(app, kind)
                                      \/ Update(app, kind)
                                      \/ Bridging(app, kind)
      PROVE  \A other \in Apps : Checking(other)'
  BY <1>1, OthersUntouched, Untouched DEF IInv
<1>2. ASSUME NEW app \in Apps, Construct(app)
      PROVE  IInv'
  BY <1>1, <1>2, ConstructTyped, ConstructChecked DEF IInv
<1>3. ASSUME NEW app \in Apps, Destroy(app)
      PROVE  IInv'
  <2>1. pc[app] = "up" /\ pc'[app] = "gone" /\ pc' \in [Apps -> States]
    BY <1>3 DEF Destroy, IInv, TypeOK, States
  <2>2. TypeOK' /\ Reads'
    BY <1>3, <2>1 DEF Destroy, IInv, TypeOK, Reads, starting
  <2>3. Checking(app)'
    BY <1>3, <2>1, Finished DEF Destroy, IInv
  <2>4. QED  BY <1>1, <1>3, <2>2, <2>3 DEF IInv
<1>4. ASSUME NEW app \in Apps, NEW kind \in Bridges,
             \/ Listen(app, kind) \/ Listening(app, kind)
             \/ Update(app, kind) \/ Bridging(app, kind)
      PROVE  IInv'
  BY <1>1, <1>4, UpdateTyped, UpdateChecked DEF IInv
<1>5. CASE UNCHANGED vars
  <2>1. TypeOK' /\ Reads'
    BY <1>5 DEF IInv, TypeOK, Reads, vars, starting, updating
  <2>2. \A app \in Apps : Checking(app)'
    BY <1>5, Untouched DEF IInv, vars, starting
  <2>3. QED  BY <2>1, <2>2 DEF IInv
<1>6. QED  BY <1>2, <1>3, <1>4, <1>5 DEF Next

\* The invariant of the configurations.
THEOREM Invariant == Spec => []IInv
BY InitInv, StepInv, PTL DEF Spec

\* However many configurations share the registry mutex, the mirrors never run
\* ahead of the engine and one bridge at a time is inside (DistConf.hpp:186, 194).
THEOREM TypeCorrect == Spec => []TypeOK
<1>1. IInv => TypeOK  BY DEF IInv
<1>2. QED  BY Invariant, <1>1, PTL

\* A constructor that returns leaves an engine with no endpoint used twice, for
\* every content, file, command line and refused override - when its last sync with
\* the engine succeeded and no update of the engine came after it.  With an update
\* behind the mirror, or an emptied mirror, ValidateUniquePorts looks at fewer
\* capabilities, or at none, and nothing is claimed (AppConfig.hpp:64, 201-263).
THEOREM UniqueWhenUp == Spec => StartsUnique
<1>1. IInv /\ [Next]_vars =>
        [\A app \in Apps :
           pc[app] = "ports" /\ pc'[app] = "up" /\ mirror[app].ver = engine[app].ver =>
             \A c, d \in DOMAIN engine[app].content.ends :
               \A e \in Endpoints(app, c), f \in Endpoints(app, d) :
                 <<c, e>> # <<d, f>> => ~Clash(e.end, f.end)]_vars
  <2>1. SUFFICES ASSUME IInv, Next, NEW app \in Apps,
                        pc[app] = "ports", pc'[app] = "up",
                        mirror[app].ver = engine[app].ver
                 PROVE  \A c, d \in DOMAIN engine[app].content.ends : Apart(app, c, d)
    BY DEF Apart
  <2>2. PassedAreApart(app)
    BY <2>1 DEF IInv, Checking, Fresh
  <2>3. unchecked[app] = {}
    <3>1. PICK by \in Apps :
            \/ Construct(by)
            \/ Destroy(by)
            \/ \E kind \in Bridges : \/ Listen(by, kind)
                                     \/ Listening(by, kind)
                                     \/ Update(by, kind)
                                     \/ Bridging(by, kind)
      BY <2>1 DEF Next
    <3>2. by = app
      BY <2>1, <3>1, OthersUntouched
    <3>3. CASE Construct(app)
      BY <2>1, <3>3 DEF Construct, Open, Sync, LoadFile, ApplyCommandLine,
                        SetOverride, ExportKey, CheckCapability, Constructed,
                        AfterSet, Settings, IInv, TypeOK
    <3>4. CASE Destroy(app)
      BY <2>1, <3>4 DEF Destroy
    <3>5. ASSUME NEW kind \in Bridges,
                 \/ Listen(app, kind) \/ Listening(app, kind)
                 \/ Update(app, kind) \/ Bridging(app, kind)
          PROVE  FALSE
      BY <2>1, <3>5 DEF Listen, Listening, Update, Bridging, Deliver, EnterCallback,
                        CallbackReturns, ReadEngine, AssignMirror, CallbackThrows, UseDestroyed
    <3>6. QED  BY <3>1, <3>2, <3>3, <3>4, <3>5
  <2>4. QED  BY <2>2, <2>3 DEF PassedAreApart, Passed
<1>2. QED  BY Invariant, <1>1, PTL DEF Spec, StartsUnique

-----------------------------------------------------------------------------
(* The hierarchy of truth                                                  *)

\* The engine's content before the command line: the file on what it held first.
Below(app, base) ==
  IF file[app] = Unset THEN base ELSE Overlay(base, FileContents[file[app]])

\* Nothing was announced that a bridge would still have to take over.
Untold(app) ==
  \A kind \in Bridges : queue[app][kind] = 0 /\ bridge[app][kind] = "idle"

\* Every endpoint of `content` is that of `over` if it gives one, else of `base`.
OnTop(content, over, base) ==
  \A c : \A kind \in Kinds :
    /\ At(content, c, kind).ip = Pick(At(over, c, kind).ip, At(base, c, kind).ip)
    /\ At(content, c, kind).port
         = PickNumber(At(over, c, kind).port, At(base, c, kind).port)

\* The layers are in place: in the engine with the settings it took so far, in the
\* mirror with all that were given.
Settled(app, base) ==
  /\ OnTop(engine[app].content, Layer(app, taken[app]), Below(app, base))
  /\ mirror[app].ver = 0 =>
       /\ OnTop(mirror[app].content, Given(app), Below(app, base))
       /\ mirror[app].content.name = Pick(args[app].name, Below(app, base).name)

\* What each phase of the constructor has put in place, if the engine has not
\* been updated since it was opened.
Layered(app) ==
  /\ pc[app] \in {"none", "sync", "files"} => file[app] = Unset
  /\ pc[app] \in {"none", "sync", "files", "resync", "cli"} => taken[app] = {}
  /\ pc[app] = "none" => Untold(app)
  /\ engine[app].ver = 0 =>
     /\ Untold(app)
     /\ pc[app] \in {"sync", "files", "resync", "cli"} =>
          \E base \in Contents : engine[app].content = Below(app, base)
     /\ pc[app] \in {"files", "cli"} /\ mirror[app].ver = 0 =>
          mirror[app].content = engine[app].content
     /\ pc[app] \in Settings \cup {"key", "ports", "up"} =>
          \E base \in Contents : Settled(app, base)

LayersTyped ==
  /\ DOMAIN file = Apps /\ taken \in [Apps -> SUBSET Settings]
  /\ queue \in [Apps -> [Bridges -> Nat]]

LayerInv == LayersTyped /\ \A app \in Apps : Layered(app)

\* A set of numbers that is not empty has a least element.
LEMMA LeastElement ==
  ASSUME NEW S, S \subseteq Nat, S # {}
  PROVE  \E m \in S : \A k \in S : m <= k
<1> DEFINE UpTo == {0 .. n : n \in S}
<1>1. UpTo \subseteq FiniteSubsetsOf(Nat)
  <2>1. \A n \in S : IsFiniteSet(0 .. n)
    BY FS_Interval
  <2>2. \A n \in S : 0 .. n \in SUBSET Nat
    OBVIOUS
  <2>3. QED  BY <2>1, <2>2 DEF FiniteSubsetsOf
<1>2. UpTo # {}
  OBVIOUS
<1>3. PICK I \in UpTo : \A J \in UpTo : <<J, I>> \notin StrictSubsetOrdering(Nat)
  <2> HIDE DEF UpTo
  <2> QED  BY <1>1, <1>2, FS_StrictSubsetOrderingWellFounded, WFMin
<1>4. PICK m \in S : I = 0 .. m
  OBVIOUS
<1>5. ASSUME NEW k \in S, k < m
      PROVE  FALSE
  <2>1. 0 .. k \in UpTo
    OBVIOUS
  <2>2. m \in I /\ m \notin 0 .. k /\ 0 .. k \subseteq I
    BY <1>4, <1>5
  <2>3. I \in SUBSET Nat /\ 0 .. k \in SUBSET Nat
    BY <1>4
  <2>4. QED  BY <1>3, <2>1, <2>2, <2>3 DEF StrictSubsetOrdering
<1>6. QED  BY <1>5

\* The first of the files that can be opened is one of the candidates.
LEMMA FirstFile ==
  ASSUME NEW app, NEW present \in SUBSET Places(app), present # {}
  PROVE  Candidates[CHOOSE i \in present : \A j \in present : i <= j] # Unset
<1>1. present \subseteq DOMAIN Candidates /\ present \subseteq Nat
  BY FilesAssumption DEF Places
<1>2. (CHOOSE i \in present : \A j \in present : i <= j) \in present
  BY <1>1, LeastElement
<1>3. QED  BY <1>1, <1>2, FilesAssumption

\* A layer of the command line depends on the arguments and on the capability they
\* speak about.
LEMMA SameLayer ==
  ASSUME NEW app, args'[app] = args[app], Target(app)' = Target(app)
  PROVE  /\ \A settings : Layer(app, settings)' = Layer(app, settings)
         /\ taken'[app] = taken[app] =>
              Layer(app, taken[app])' = Layer(app, taken[app])
         /\ Given(app)' = Given(app)
<1>1. \A settings, kind :
        GivenEnd(app, settings, kind)' = GivenEnd(app, settings, kind)
  BY DEF GivenEnd
<1>2. \A s : IsGiven(app, s)' <=> IsGiven(app, s)
  BY DEF IsGiven
<1>3. \A settings : Layer(app, settings)' = Layer(app, settings)
  BY <1>1, <1>2 DEF Layer
<1>4. taken'[app] = taken[app] => Layer(app, taken[app])' = Layer(app, taken[app])
  BY DEF Layer, GivenEnd, IsGiven
<1>5. QED  BY <1>3, <1>4 DEF Given

\* What a configuration has built up depends on its own state only.
LEMMA LayersKept ==
  ASSUME NEW app, Layered(app),
         pc'[app] = pc[app], engine'[app] = engine[app], mirror'[app] = mirror[app],
         file'[app] = file[app], taken'[app] = taken[app], args'[app] = args[app],
         queue'[app] = queue[app], bridge'[app] = bridge[app]
  PROVE  Layered(app)'
<1>1. /\ Given(app)' = Given(app)
      /\ Layer(app, taken[app])' = Layer(app, taken[app])
  <2>1. Target(app)' = Target(app)
    BY DEF Target
  <2>2. QED  BY <2>1, SameLayer DEF Given
<1>2. \A base : Below(app, base)' = Below(app, base)
  BY DEF Below
<1>3. \A base : Settled(app, base)' <=> Settled(app, base)
  BY <1>1, <1>2 DEF Settled
<1>4. QED  BY <1>2, <1>3 DEF Layered, Untold

\* A step of one configuration leaves what the others have built up alone.
LEMMA OthersKeepLayers ==
  ASSUME IInv, LayersTyped, NEW app \in Apps,
         \/ Construct(app)
         \/ Destroy(app)
         \/ \E kind \in Bridges : \/ Listen(app, kind)
                                  \/ Listening(app, kind)
                                  \/ Update(app, kind)
                                  \/ Bridging(app, kind),
         NEW other \in Apps \ {app}
  PROVE  /\ file'[other] = file[other] /\ taken'[other] = taken[other]
         /\ queue'[other] = queue[other] /\ bridge'[other] = bridge[other]
<1> USE DEF IInv, TypeOK, LayersTyped
<1>1. CASE Construct(app)
  <2>1. CASE Open(app)  BY <2>1 DEF Open, updating
  <2>2. CASE Sync(app)  BY <2>2 DEF Sync, starting, updating
  <2>3. CASE LoadFile(app)  BY <2>3 DEF LoadFile, updating
  <2>4. CASE ApplyCommandLine(app) \/ SetOverride(app) \/ ExportKey(app)
    BY <2>4 DEF ApplyCommandLine, SetOverride, ExportKey, starting, updating
  <2>5. CASE CheckCapability(app)  BY <2>5 DEF CheckCapability, updating
  <2>6. CASE Constructed(app)  BY <2>6 DEF Constructed, starting, updating
  <2>7. QED  BY <1>1, <2>1, <2>2, <2>3, <2>4, <2>5, <2>6 DEF Construct
<1>2. CASE Destroy(app)  BY <1>2 DEF Destroy, starting
<1>3. ASSUME NEW kind \in Bridges,
             \/ Listen(app, kind) \/ Listening(app, kind)
             \/ Update(app, kind) \/ Bridging(app, kind)
      PROVE  /\ file'[other] = file[other] /\ taken'[other] = taken[other]
             /\ queue'[other] = queue[other] /\ bridge'[other] = bridge[other]
  <2>1. CASE Listen(app, kind)  BY <2>1 DEF Listen, starting
  <2>2. CASE Listening(app, kind)  BY <2>2 DEF Listening, starting
  <2>3. CASE Update(app, kind)  BY <2>3 DEF Update, starting
  <2>4. CASE Deliver(app, kind)  BY <2>4 DEF Deliver, starting
  <2>5. CASE EnterCallback(app, kind)  BY <2>5 DEF EnterCallback, starting
  <2>6. CASE CallbackReturns(app, kind)  BY <2>6 DEF CallbackReturns, starting
  <2>7. CASE ReadEngine(app, kind)  BY <2>7 DEF ReadEngine, starting
  <2>8. CASE AssignMirror(app, kind)  BY <2>8 DEF AssignMirror, starting
  <2>9. CASE CallbackThrows(app, kind) \/ UseDestroyed(app, kind)
    BY <2>9 DEF CallbackThrows, UseDestroyed, starting, updating
  <2>10. QED
    BY <1>3, <2>1, <2>2, <2>3, <2>4, <2>5, <2>6, <2>7, <2>8, <2>9 DEF Bridging
<1>4. QED  BY <1>1, <1>2, <1>3

\* The ranges of what the layers are made of.
LEMMA LayersTypedStep ==
  ASSUME IInv, LayersTyped, [Next]_vars
  PROVE  LayersTyped'
<1> USE DEF LayersTyped
<1>1. ASSUME NEW app \in Apps, Construct(app)
      PROVE  LayersTyped'
  <2>1. CASE SetOverride(app)
    <3>1. pc[app] \in Settings
      BY <2>1 DEF SetOverride
    <3>2. QED  BY <2>1, <3>1 DEF SetOverride, updating
  <2>2. CASE LoadFile(app)
    BY <2>2 DEF LoadFile, updating
  <2>3. CASE \/ Open(app) \/ Sync(app) \/ ApplyCommandLine(app)
             \/ ExportKey(app) \/ CheckCapability(app) \/ Constructed(app)
    BY <2>3 DEF Open, Sync, ApplyCommandLine, ExportKey, CheckCapability,
                Constructed, starting, updating
  <2>4. QED  BY <1>1, <2>1, <2>2, <2>3 DEF Construct
<1>2. ASSUME NEW app \in Apps, Destroy(app)
      PROVE  LayersTyped'
  BY <1>2 DEF Destroy, starting
<1>3. ASSUME NEW app \in Apps, NEW kind \in Bridges,
             Listen(app, kind) \/ Listening(app, kind)
      PROVE  LayersTyped'
  BY <1>3 DEF Listen, Listening, starting
<1>4. ASSUME NEW app \in Apps, NEW kind \in Bridges, Update(app, kind)
      PROVE  LayersTyped'
  BY <1>4 DEF Update, starting
<1>5. ASSUME NEW app \in Apps, NEW kind \in Bridges, Deliver(app, kind)
      PROVE  LayersTyped'
  <2>1. queue[app][kind] \in Nat /\ queue[app][kind] - 1 \in Nat
    BY <1>5 DEF Deliver
  <2>2. QED  BY <1>5, <2>1 DEF Deliver, starting
<1>6. ASSUME NEW app \in Apps, NEW kind \in Bridges,
             Bridging(app, kind), ~Deliver(app, kind)
      PROVE  LayersTyped'
  BY <1>6 DEF Bridging, EnterCallback, CallbackReturns, ReadEngine, AssignMirror,
              CallbackThrows, UseDestroyed, starting, updating
<1>7. CASE UNCHANGED vars
  BY <1>7 DEF vars, starting, updating
<1>8. QED  BY <1>1, <1>2, <1>3, <1>4, <1>5, <1>6, <1>7 DEF Next

\* Opening, the two mirrors, and the file.
LEMMA LowerLayers ==
  ASSUME IInv, LayersTyped, NEW app \in Apps, Layered(app),
         Open(app) \/ Sync(app) \/ LoadFile(app)
  PROVE  Layered(app)'
<1> USE DEF IInv, LayersTyped
<1>1. CASE Open(app)
  <2>1. file[app] = Unset /\ Untold(app) /\ engine[app].ver = NoVersion
    BY <1>1 DEF Open, Layered, Checking
  <2>2. /\ file'[app] = Unset /\ taken'[app] = {} /\ Untold(app)'
        /\ \A base : Below(app, base)' = base
    BY <1>1, <2>1 DEF Open, Layered, Untold, Below, updating
  <2>3. CASE pc' = [pc EXCEPT ![app] = "failed"] /\ UNCHANGED engine
    <3>1. pc'[app] = "failed" /\ engine'[app].ver = NoVersion
      BY <2>1, <2>3 DEF TypeOK
    <3>2. QED  BY <3>1 DEF Layered, NoVersion, Settings
  <2>4. CASE /\ pc' = [pc EXCEPT ![app] = "sync"]
             /\ \E content \in Contents :
                  engine' = [engine EXCEPT ![app] = [ver |-> 0, content |-> content]]
    <3>1. pc'[app] = "sync" /\ engine'[app].content \in Contents
      BY <2>4 DEF TypeOK
    <3>2. QED  BY <2>2, <3>1 DEF Layered, Settings
  <2>5. QED  BY <1>1, <2>3, <2>4 DEF Open
<1>2. CASE Sync(app)
  <2>1. /\ engine' = engine /\ file' = file /\ taken' = taken
        /\ Untold(app)' <=> Untold(app)
        /\ \A base : Below(app, base)' = Below(app, base)
    BY <1>2 DEF Sync, Below, Untold, starting, updating
  <2>2. mirror'[app] = engine[app] \/ mirror'[app] = Emptied
    BY <1>2, SyncedMirror DEF Sync, TypeOK
  <2>3. mirror'[app].ver = 0 => mirror'[app].content = engine'[app].content
    BY <2>1, <2>2 DEF Emptied, NoVersion
  <2>4. \/ pc[app] = "sync" /\ pc'[app] = "files"
        \/ pc[app] = "resync" /\ pc'[app] = "cli"
    BY <1>2 DEF Sync, TypeOK
  <2>5. QED  BY <2>1, <2>3, <2>4 DEF Layered, Settings
<1>3. CASE LoadFile(app)
  <2>1. /\ pc[app] = "files" /\ file[app] = Unset /\ mirror' = mirror
        /\ taken' = taken /\ taken[app] = {}
        /\ Untold(app)' <=> Untold(app)
    BY <1>3 DEF LoadFile, Layered, Untold, updating
  <2>2. CASE UNCHANGED <<engine, file>> /\ \E next \in {"cli", "resync"} :
                                            pc' = [pc EXCEPT ![app] = next]
    <3>1. pc'[app] \in {"cli", "resync"} /\ engine' = engine /\ file' = file
      BY <2>2 DEF TypeOK
    <3>2. QED  BY <2>1, <3>1 DEF Layered, Below, Settings
  <2>3. ASSUME NEW present \in SUBSET Places(app), present # {},
               LET first == CHOOSE i \in present : \A j \in present : i <= j
               IN /\ engine' = [engine EXCEPT ![app].content =
                                  Overlay(@, FileContents[Candidates[first]])]
                  /\ file' = [file EXCEPT ![app] = Candidates[first]]
                  /\ \E section \in {Unset, Candidates[first]} :
                       local' = [local EXCEPT ![app] = section],
               pc' = [pc EXCEPT ![app] = "resync"]
        PROVE  Layered(app)'
    <3> DEFINE name == Candidates[CHOOSE i \in present : \A j \in present : i <= j]
    <3>1. name # Unset
      BY <2>3, FirstFile
    <3> HIDE DEF name
    <3>2. /\ engine' = [engine EXCEPT ![app].content =
                          Overlay(engine[app].content, FileContents[name])]
          /\ file' = [file EXCEPT ![app] = name]
          /\ pc' = [pc EXCEPT ![app] = "resync"]
      BY <2>3 DEF name
    <3>3. /\ engine'[app].ver = engine[app].ver
          /\ engine'[app].content = Overlay(engine[app].content, FileContents[name])
      BY <3>2 DEF TypeOK, Versioned
    <3>4. pc'[app] = "resync" /\ file'[app] = name
      BY <3>2 DEF TypeOK
    <3>5. \A base : Below(app, base) = base
      BY <2>1 DEF Below
    <3>6. \A base : Below(app, base)' = Overlay(base, FileContents[name])
      BY <3>1, <3>4 DEF Below
    <3>7. QED  BY <2>1, <3>3, <3>4, <3>5, <3>6 DEF Layered, Settings
  <2>4. QED  BY <1>3, <2>2, <2>3 DEF LoadFile
<1>4. QED  BY <1>1, <1>2, <1>3

\* A setting of content that is put on other content.
LEMMA OverlayAt ==
  ASSUME NEW base, NEW over, NEW cap, NEW kind \in Kinds
  PROVE  /\ At(Overlay(base, over), cap, kind).ip
              = Pick(At(over, cap, kind).ip, At(base, cap, kind).ip)
         /\ At(Overlay(base, over), cap, kind).port
              = PickNumber(At(over, cap, kind).port, At(base, cap, kind).port)
<1>1. CASE cap \in DOMAIN base.ends \cup DOMAIN over.ends
  BY <1>1 DEF At, Overlay
<1>2. CASE cap \notin DOMAIN base.ends \cup DOMAIN over.ends
  BY <1>2 DEF At, Overlay, Pick, PickNumber, NoEnd
<1>3. QED  BY <1>1, <1>2

\* An endpoint of a layer of the command line.
LEMMA LayerAt ==
  ASSUME NEW app, NEW settings \in SUBSET Settings, NEW cap, NEW kind \in Kinds
  PROVE  At(Layer(app, settings), cap, kind)
           = IF cap = Target(app) THEN GivenEnd(app, settings, kind) ELSE NoEnd
<1>1. CASE \E s \in settings : IsGiven(app, s)
  BY <1>1 DEF At, Layer
<1>2. CASE \A s \in settings : ~IsGiven(app, s)
  <2>1. At(Layer(app, settings), cap, kind) = NoEnd
    BY <1>2 DEF At, Layer
  <2>2. GivenEnd(app, settings, kind) = NoEnd
    BY <1>2 DEF GivenEnd, IsGiven, NoEnd, NoArgs, Flags, TextFlags, NumberFlags
  <2>3. QED  BY <2>1, <2>2
<1>3. QED  BY <1>1, <1>2

\* One more setting on top of those the engine took.
LEMMA OneMoreSetting ==
  ASSUME NEW app, NEW content, NEW base,
         NEW settings \in SUBSET Settings, NEW setting \in Settings,
         OnTop(content, Layer(app, settings), base)
  PROVE  OnTop(Overlay(content, Layer(app, {setting})),
               Layer(app, settings \cup {setting}), base)
<1> DEFINE more == settings \cup {setting}
<1>1. SUFFICES ASSUME NEW c, NEW kind \in Kinds
               PROVE  /\ At(Overlay(content, Layer(app, {setting})), c, kind).ip
                           = Pick(At(Layer(app, more), c, kind).ip, At(base, c, kind).ip)
                      /\ At(Overlay(content, Layer(app, {setting})), c, kind).port
                           = PickNumber(At(Layer(app, more), c, kind).port,
                                        At(base, c, kind).port)
  BY DEF OnTop
<1>2. /\ At(Layer(app, more), c, kind).ip
           = Pick(At(Layer(app, {setting}), c, kind).ip,
                  At(Layer(app, settings), c, kind).ip)
      /\ At(Layer(app, more), c, kind).port
           = PickNumber(At(Layer(app, {setting}), c, kind).port,
                        At(Layer(app, settings), c, kind).port)
  <2>1. /\ At(Layer(app, more), c, kind)
             = IF c = Target(app) THEN GivenEnd(app, more, kind) ELSE NoEnd
        /\ At(Layer(app, {setting}), c, kind)
             = IF c = Target(app) THEN GivenEnd(app, {setting}, kind) ELSE NoEnd
        /\ At(Layer(app, settings), c, kind)
             = IF c = Target(app) THEN GivenEnd(app, settings, kind) ELSE NoEnd
    BY LayerAt
  <2>2. /\ GivenEnd(app, more, kind).ip
             = Pick(GivenEnd(app, {setting}, kind).ip, GivenEnd(app, settings, kind).ip)
        /\ GivenEnd(app, more, kind).port
             = PickNumber(GivenEnd(app, {setting}, kind).port,
                          GivenEnd(app, settings, kind).port)
    <3>1. /\ NoArgs["host"] = Unset /\ NoArgs["grpc_host"] = Unset
          /\ NoArgs["port"] = 0 /\ NoArgs["grpc_port"] = 0
      BY DEF NoArgs, Flags, TextFlags, NumberFlags
    <3>2. CASE kind = "TCP"
      BY <3>1, <3>2 DEF GivenEnd, Pick, PickNumber
    <3>3. CASE kind = "gRPC"
      BY <3>1, <3>3 DEF GivenEnd, Pick, PickNumber
    <3>4. CASE kind \notin {"TCP", "gRPC"}
      BY <3>4 DEF GivenEnd, Pick, PickNumber, NoEnd
    <3>5. QED  BY <3>2, <3>3, <3>4
  <2>3. QED  BY <2>1, <2>2 DEF NoEnd, Pick, PickNumber
<1>3. /\ At(content, c, kind).ip
           = Pick(At(Layer(app, settings), c, kind).ip, At(base, c, kind).ip)
      /\ At(content, c, kind).port
           = PickNumber(At(Layer(app, settings), c, kind).port, At(base, c, kind).port)
  BY DEF OnTop
<1>4. /\ At(Overlay(content, Layer(app, {setting})), c, kind).ip
           = Pick(At(Layer(app, {setting}), c, kind).ip, At(content, c, kind).ip)
      /\ At(Overlay(content, Layer(app, {setting})), c, kind).port
           = PickNumber(At(Layer(app, {setting}), c, kind).port,
                        At(content, c, kind).port)
  BY OverlayAt
<1> HIDE DEF more
<1>5. QED  BY <1>2, <1>3, <1>4 DEF Pick, PickNumber

\* Content overlaid with another obeys it; and every content is on top of itself.
LEMMA OverlayOnTop ==
  ASSUME NEW content, NEW over
  PROVE  /\ OnTop(Overlay(content, over), over, content)
         /\ \A app : OnTop(content, Layer(app, {}), content)
<1>1. OnTop(Overlay(content, over), over, content)
  BY OverlayAt DEF OnTop
<1>2. ASSUME NEW app, NEW c, NEW kind
      PROVE  At(Layer(app, {}), c, kind) = NoEnd
  BY DEF At, Layer
<1>3. QED  BY <1>1, <1>2 DEF OnTop, Pick, PickNumber, NoEnd

\* The command line on top of the two others, in the mirror.
LEMMA MirrorLayer ==
  ASSUME IInv, LayersTyped, NEW app \in Apps, Layered(app), ApplyCommandLine(app)
  PROVE  Layered(app)'
<1> USE DEF IInv, LayersTyped
<1> DEFINE over == [Given(app) EXCEPT !.name = args[app].name]
<1>1. /\ pc[app] = "cli" /\ pc'[app] = "host" /\ args' = args /\ file' = file
      /\ engine' = engine /\ taken' = taken /\ taken[app] = {}
      /\ Untold(app)' <=> Untold(app)
      /\ \A base : Below(app, base)' = Below(app, base)
  BY DEF ApplyCommandLine, Layered, TypeOK, Untold, Below, starting, updating
<1>2. /\ mirror'[app].ver = mirror[app].ver
      /\ mirror'[app].content = Overlay(mirror[app].content, over)
  BY DEF ApplyCommandLine, TypeOK, Versioned
<1>3. over.ends = Given(app).ends /\ over.name = args[app].name
  BY DEF Given, Layer
<1> HIDE DEF over
<1>4. mirror'[app].content.name = Pick(args[app].name, mirror[app].content.name)
  BY <1>2, <1>3 DEF Overlay
<1>5. Target(app)' = Target(app)
  BY <1>1, <1>4 DEF Target, Pick
<1>6. /\ Given(app)' = Given(app)
      /\ Layer(app, taken[app])' = Layer(app, taken[app])
  BY <1>1, <1>5, SameLayer
<1>7. OnTop(mirror'[app].content, Given(app), mirror[app].content)
  <2>1. \A c, kind : At(over, c, kind) = At(Given(app), c, kind)
    BY <1>3 DEF At
  <2>2. QED  BY <1>2, <2>1, OverlayOnTop DEF OnTop
<1>8. OnTop(engine'[app].content, Layer(app, taken[app])', engine[app].content)
  BY <1>1, <1>6, OverlayOnTop
<1>9. ASSUME engine[app].ver = 0
      PROVE  Untold(app)' /\ \E base \in Contents : Settled(app, base)'
  <2>1. PICK base \in Contents : engine[app].content = Below(app, base)
    BY <1>1, <1>9 DEF Layered
  <2>2. mirror[app].ver = 0 => mirror[app].content = Below(app, base)
    BY <1>1, <1>9, <2>1 DEF Layered
  <2>3. Settled(app, base)'
    BY <1>1, <1>2, <1>4, <1>6, <1>7, <1>8, <2>1, <2>2 DEF Settled
  <2>4. QED  BY <1>1, <1>9, <2>3 DEF Layered
<1>10. QED  BY <1>1, <1>9 DEF Layered, Settings

\* The command line on top of the two others, in the engine and setting by setting;
\* and the rest of the constructor.
LEMMA UpperLayer ==
  ASSUME IInv, LayersTyped, NEW app \in Apps, Layered(app),
         \/ SetOverride(app) \/ ExportKey(app)
         \/ CheckCapability(app) \/ Constructed(app)
  PROVE  Layered(app)'
<1> USE DEF IInv, LayersTyped
<1>1. CASE SetOverride(app)
  <2> DEFINE setting == pc[app]
  <2>1. /\ setting \in Settings /\ pc'[app] \in Settings \cup {"key"}
        /\ args' = args /\ file' = file /\ mirror' = mirror
        /\ Untold(app)' <=> Untold(app)
        /\ \A base : Below(app, base)' = Below(app, base)
    BY <1>1, NextSetting DEF SetOverride, TypeOK, Untold, Below, updating
  <2>2. Target(app)' = Target(app)
    BY <2>1 DEF Target
  <2>3. /\ \A settings : Layer(app, settings)' = Layer(app, settings)
        /\ Given(app)' = Given(app)
    BY <2>1, <2>2, SameLayer
  <2>4. CASE UNCHANGED <<engine, taken>>
    <3>1. Layer(app, taken[app])' = Layer(app, taken[app])
      BY <2>1, <2>2, <2>4, SameLayer
    <3>2. \A base : Settled(app, base)' <=> Settled(app, base)
      BY <2>1, <2>3, <2>4, <3>1 DEF Settled
    <3>3. QED  BY <2>1, <2>4, <3>2 DEF Layered, Settings
  <2>5. CASE /\ engine' = [engine EXCEPT ![app].content =
                             Overlay(engine[app].content, Layer(app, {setting}))]
             /\ taken' = [taken EXCEPT ![app] = @ \cup {setting}]
    <3>1. /\ engine'[app].ver = engine[app].ver
          /\ engine'[app].content = Overlay(engine[app].content, Layer(app, {setting}))
      BY <2>5 DEF TypeOK, Versioned
    <3>2. /\ taken'[app] = taken[app] \cup {setting}
          /\ taken[app] \in SUBSET Settings /\ taken'[app] \in SUBSET Settings
      BY <2>1, <2>5 DEF LayersTyped
    <3>3. Layer(app, taken[app])' = Layer(app, taken[app] \cup {setting})
      BY <2>1, <2>2, <3>2 DEF Layer, GivenEnd, IsGiven
    <3>4. ASSUME NEW base, Settled(app, base)
          PROVE  Settled(app, base)'
      <4>1. OnTop(engine[app].content, Layer(app, taken[app]), Below(app, base))
        BY <3>4 DEF Settled
      <4> HIDE DEF setting
      <4>2. OnTop(engine'[app].content, Layer(app, taken[app] \cup {setting}),
                  Below(app, base))
        BY <2>1, <3>1, <3>2, <4>1, OneMoreSetting
      <4>3. QED  BY <2>1, <2>3, <3>3, <3>4, <4>2 DEF Settled
    <3>5. QED  BY <2>1, <3>1, <3>4 DEF Layered, Settings
  <2>6. QED  BY <1>1, <2>4, <2>5 DEF SetOverride
<1>2. CASE CheckCapability(app)
  <2>1. CASE pc' = pc
    BY <1>2, <2>1, LayersKept DEF CheckCapability, updating
  <2>2. CASE pc' = [pc EXCEPT ![app] = "failed"]
    <3>1. pc'[app] = "failed" /\ engine' = engine /\ (Untold(app)' <=> Untold(app))
      BY <1>2, <2>2 DEF CheckCapability, TypeOK, Untold, updating
    <3>2. QED  BY <3>1 DEF Layered, Settings
  <2>3. QED  BY <1>2, <2>1, <2>2 DEF CheckCapability
<1>3. CASE ExportKey(app) \/ Constructed(app)
  <2>1. /\ engine' = engine /\ mirror' = mirror /\ args' = args /\ file' = file
        /\ taken' = taken /\ (Untold(app)' <=> Untold(app))
        /\ pc[app] \in {"key", "ports"} /\ pc'[app] \in {"ports", "up"}
    BY <1>3 DEF ExportKey, Constructed, TypeOK, Untold, starting, updating
  <2>2. Target(app)' = Target(app)
    BY <2>1 DEF Target
  <2>3. /\ Given(app)' = Given(app)
        /\ Layer(app, taken[app])' = Layer(app, taken[app])
    BY <2>1, <2>2, SameLayer
  <2>4. \A base : Settled(app, base)' <=> Settled(app, base)
    BY <2>1, <2>3 DEF Settled, Below
  <2>5. QED  BY <2>1, <2>4 DEF Layered, Settings
<1>4. QED  BY <1>1, <1>2, <1>3

\* An update ends what is claimed; until there is one the bridges are idle.
LEMMA LayersUnderUpdates ==
  ASSUME IInv, LayersTyped, NEW app \in Apps, NEW kind \in Bridges, Layered(app),
         \/ Listen(app, kind) \/ Listening(app, kind)
         \/ Update(app, kind) \/ Bridging(app, kind)
  PROVE  Layered(app)'
<1> USE DEF IInv, LayersTyped
<1>1. engine[app].ver \in Int
  BY DEF TypeOK, Versioned
<1>2. CASE Listen(app, kind)  BY <1>2, LayersKept DEF Listen, starting
<1>3. CASE Listening(app, kind)  BY <1>3, LayersKept DEF Listening, starting
<1>4. CASE Update(app, kind)
  <2>1. /\ engine[app].ver >= 0 /\ pc' = pc /\ pc[app] # "none"
        /\ file' = file /\ taken' = taken
    BY <1>4 DEF Update, Checking, starting
  <2>2. engine'[app].ver = engine[app].ver + 1
    BY <1>4 DEF Update, TypeOK
  <2>3. engine'[app].ver # 0
    BY <1>1, <2>1, <2>2
  <2>4. QED  BY <2>1, <2>3 DEF Layered
<1>5. CASE Bridging(app, kind)
  <2>1. queue[app][kind] > 0 \/ bridge[app][kind] # "idle"
    BY <1>5 DEF Bridging, Deliver, EnterCallback, CallbackReturns, ReadEngine,
                AssignMirror, CallbackThrows, UseDestroyed
  <2>2. ~Untold(app)
    BY <2>1 DEF Untold
  <2>3. engine[app].ver # 0 /\ pc[app] # "none"
    BY <2>2 DEF Layered
  <2>4. engine' = engine /\ pc' = pc /\ file' = file /\ taken' = taken
    BY <1>5 DEF Bridging, Deliver, EnterCallback, CallbackReturns, ReadEngine,
                AssignMirror, CallbackThrows, UseDestroyed, starting
  <2>5. QED  BY <2>3, <2>4 DEF Layered
<1>6. QED  BY <1>2, <1>3, <1>4, <1>5

\* Every step keeps the layers in place.
LEMMA LayerStep == IInv /\ LayerInv /\ [Next]_vars => LayerInv'
<1> SUFFICES ASSUME IInv, LayerInv, [Next]_vars PROVE LayerInv'
  OBVIOUS
<1>1. LayersTyped'
  BY LayersTypedStep DEF LayerInv
<1>2. ASSUME NEW app \in Apps, Layered(app)',
             \/ Construct(app)
             \/ Destroy(app)
             \/ \E kind \in Bridges : \/ Listen(app, kind)
                                      \/ Listening(app, kind)
                                      \/ Update(app, kind)
                                      \/ Bridging(app, kind)
      PROVE  \A other \in Apps : Layered(other)'
  BY <1>2, OthersUntouched, OthersKeepLayers, LayersKept DEF LayerInv
<1>3. ASSUME NEW app \in Apps, Construct(app)
      PROVE  Layered(app)'
  BY <1>3, LowerLayers, MirrorLayer, UpperLayer DEF LayerInv, Construct
<1>4. ASSUME NEW app \in Apps, Destroy(app)
      PROVE  Layered(app)'
  <2>1. /\ pc[app] = "up" /\ pc'[app] = "gone" /\ engine' = engine
        /\ bridge' = bridge /\ queue'[app] = [kind \in Bridges |-> 0]
    BY <1>4 DEF Destroy, IInv, TypeOK, LayerInv, LayersTyped
  <2>2. Untold(app) => Untold(app)'
    BY <2>1 DEF Untold
  <2>3. QED  BY <2>1, <2>2 DEF LayerInv, Layered, Settings
<1>5. ASSUME NEW app \in Apps, NEW kind \in Bridges,
             \/ Listen(app, kind) \/ Listening(app, kind)
             \/ Update(app, kind) \/ Bridging(app, kind)
      PROVE  Layered(app)'
  BY <1>5, LayersUnderUpdates DEF LayerInv
<1>6. CASE UNCHANGED vars
  BY <1>6, LayersKept DEF LayerInv, LayersTyped, vars, starting, updating
<1>7. QED  BY <1>1, <1>2, <1>3, <1>4, <1>5, <1>6 DEF Next, LayerInv

\* Nothing is in place before the constructor.
LEMMA LayerInit == Init => LayerInv
<1> SUFFICES ASSUME Init PROVE LayerInv
  OBVIOUS
<1>1. LayersTyped
  BY DEF Init, LayersTyped
<1>2. \A app \in Apps : /\ pc[app] = "none" /\ file[app] = Unset /\ taken[app] = {}
                        /\ Untold(app) /\ engine[app].ver # 0
  BY DEF Init, Untold, Emptied, NoVersion
<1>3. QED  BY <1>1, <1>2 DEF LayerInv, Layered

\* The highest of three layers, spelled out.
LEMMA HighestOfThree ==
  ASSUME NEW values, NEW none
  PROVE  Highest(values, none) =
           IF values[1] # none THEN values[1]
           ELSE IF values[2] # none THEN values[2] ELSE values[3]
<1> DEFINE given == {i \in 1 .. 3 : values[i] # none}
<1>1. CASE given = {}
  <2>1. \A i \in 1 .. 3 : values[i] = none
    BY <1>1
  <2>2. values[1] = none /\ values[2] = none /\ values[3] = none
    BY <2>1
  <2>3. QED  BY <1>1, <2>2 DEF Highest
<1>2. CASE given # {}
  <2> DEFINE first == CHOOSE i \in given : \A j \in given : i <= j
  <2>1. \E i \in given : \A j \in given : i <= j
    <3>1. given \subseteq Nat
      OBVIOUS
    <3> HIDE DEF given
    <3>2. QED  BY <1>2, <3>1, LeastElement
  <2>2. first \in given /\ \A j \in given : first <= j
    BY <2>1
  <2>3. Highest(values, none) = values[first]
    BY <1>2 DEF Highest
  <2> HIDE DEF first
  <2>4. first \in 1 .. 3 /\ values[first] # none
    BY <2>2
  <2>5. \A i \in 1 .. 3 : i < first => values[i] = none
    BY <2>2
  <2>6. CASE first = 1
    BY <2>3, <2>4, <2>6
  <2>7. CASE first = 2
    BY <2>3, <2>4, <2>5, <2>7
  <2>8. CASE first = 3
    BY <2>3, <2>4, <2>5, <2>8
  <2>9. QED  BY <2>4, <2>6, <2>7, <2>8
<1>3. QED  BY <1>1, <1>2

\* Content on top of the file and what the engine held first obeys the hierarchy.
LEMMA OnTopObeys ==
  ASSUME NEW app, NEW content, NEW over, NEW base,
         OnTop(content, over, Below(app, base))
  PROVE  Obeys(content, <<over, FileLayer(app), base>>)
<1> DEFINE layers == <<over, FileLayer(app), base>>
<1>1. ASSUME NEW c, NEW kind \in Kinds
      PROVE  /\ At(Below(app, base), c, kind).ip
                  = Pick(At(FileLayer(app), c, kind).ip, At(base, c, kind).ip)
             /\ At(Below(app, base), c, kind).port
                  = PickNumber(At(FileLayer(app), c, kind).port, At(base, c, kind).port)
  <2>1. CASE file[app] = Unset
    <3>1. At(FileLayer(app), c, kind) = NoEnd
      BY <2>1 DEF At, FileLayer, Nothing
    <3>2. QED  BY <2>1, <3>1 DEF Below, Pick, PickNumber, NoEnd
  <2>2. CASE file[app] # Unset
    BY <2>2, OverlayAt DEF Below, FileLayer
  <2>3. QED  BY <2>1, <2>2
<1>2. ASSUME NEW c, NEW kind \in Kinds
      PROVE  /\ At(content, c, kind).ip
                  = Highest([i \in 1 .. 3 |-> At(layers[i], c, kind)["ip"]], Unset)
             /\ At(content, c, kind).port
                  = Highest([i \in 1 .. 3 |-> At(layers[i], c, kind)["port"]], 0)
  <2>1. /\ At(content, c, kind).ip
             = Pick(At(over, c, kind).ip, At(Below(app, base), c, kind).ip)
        /\ At(content, c, kind).port
             = PickNumber(At(over, c, kind).port, At(Below(app, base), c, kind).port)
    BY DEF OnTop
  <2>2. layers[1] = over /\ layers[2] = FileLayer(app) /\ layers[3] = base
    OBVIOUS
  <2> HIDE DEF layers
  <2> DEFINE ips   == [i \in 1 .. 3 |-> At(layers[i], c, kind)["ip"]]
             ports == [i \in 1 .. 3 |-> At(layers[i], c, kind)["port"]]
  <2>3. /\ ips[1] = At(over, c, kind).ip /\ ports[1] = At(over, c, kind).port
        /\ ips[2] = At(FileLayer(app), c, kind).ip
        /\ ports[2] = At(FileLayer(app), c, kind).port
        /\ ips[3] = At(base, c, kind).ip /\ ports[3] = At(base, c, kind).port
    BY <2>2
  <2> HIDE DEF ips, ports
  <2>4. /\ Highest(ips, Unset)
             = IF ips[1] # Unset THEN ips[1]
               ELSE IF ips[2] # Unset THEN ips[2] ELSE ips[3]
        /\ Highest(ports, 0)
             = IF ports[1] # 0 THEN ports[1]
               ELSE IF ports[2] # 0 THEN ports[2] ELSE ports[3]
    BY HighestOfThree
  <2>5. /\ At(content, c, kind).ip = Highest(ips, Unset)
        /\ At(content, c, kind).port = Highest(ports, 0)
    BY <1>1, <2>1, <2>3, <2>4 DEF Pick, PickNumber
  <2>6. QED  BY <2>5 DEF ips, ports
<1>3. QED  BY <1>2 DEF Obeys

\* A constructed configuration whose layers are in place obeys the hierarchy.
LEMMA LayersAreHierarchy == LayerInv => HierarchyOfTruth
<1> SUFFICES ASSUME LayerInv, NEW app \in Apps, pc[app] = "up", engine[app].ver = 0
             PROVE  \E base \in Contents :
        /\ Obeys(engine[app].content, <<Layer(app, taken[app]), FileLayer(app), base>>)
        /\ mirror[app].ver = 0 =>
             /\ Obeys(mirror[app].content, <<Given(app), FileLayer(app), base>>)
             /\ mirror[app].content.name =
                  Highest(<<args[app].name, FileLayer(app).name, base.name>>, Unset)
  BY DEF HierarchyOfTruth
<1>1. PICK base \in Contents : Settled(app, base)
  BY DEF LayerInv, Layered
<1>2. Obeys(engine[app].content, <<Layer(app, taken[app]), FileLayer(app), base>>)
  BY <1>1, OnTopObeys DEF Settled
<1>3. ASSUME mirror[app].ver = 0
      PROVE  Obeys(mirror[app].content, <<Given(app), FileLayer(app), base>>)
  BY <1>1, <1>3, OnTopObeys DEF Settled
<1>4. ASSUME mirror[app].ver = 0
      PROVE  mirror[app].content.name
               = Highest(<<args[app].name, FileLayer(app).name, base.name>>, Unset)
  <2> DEFINE names == <<args[app].name, FileLayer(app).name, base.name>>
  <2>1. mirror[app].content.name = Pick(args[app].name, Below(app, base).name)
    BY <1>1, <1>4 DEF Settled
  <2>2. Below(app, base).name = Pick(FileLayer(app).name, base.name)
    BY DEF Below, FileLayer, Overlay, Pick, Nothing
  <2>3. /\ names[1] = args[app].name
        /\ names[2] = FileLayer(app).name
        /\ names[3] = base.name
    OBVIOUS
  <2> HIDE DEF names
  <2>4. Highest(names, Unset)
          = IF names[1] # Unset THEN names[1]
            ELSE IF names[2] # Unset THEN names[2] ELSE names[3]
    BY HighestOfThree
  <2>5. QED  BY <2>1, <2>2, <2>3, <2>4 DEF Pick, names
<1>5. QED  BY <1>2, <1>3, <1>4

\* In every configuration that is up and whose engine was not updated since it was
\* opened, whichever file the engine merged, whatever the command line says and
\* whichever of its settings the engine refused, each endpoint of the engine is that
\* of the highest layer it took, and each one of a mirror that is not emptied that
\* of the highest layer that gives it.  Nothing is said after an update
\* (AppConfig.hpp:287-372; the layers of README.md:32 the constructor applies).
THEOREM TruthHasLayers == Spec => []HierarchyOfTruth
<1>1. LayerInv => HierarchyOfTruth
  BY LayersAreHierarchy
<1>2. Spec => []LayerInv
  BY Invariant, LayerInit, LayerStep, PTL DEF Spec
<1>3. QED  BY <1>1, <1>2, PTL

-----------------------------------------------------------------------------
(* No announced update is forgotten                                        *)

\* Some bridge of this configuration is on its way.
Awaited(app) == \E kind \in Bridges : Coming(app, kind)

\* Versions are announced to listeners only, and none is ahead of the engine.  A
\* bridge that has read too little to finish the work is not the last one.
Kept(app) ==
  /\ NoVersion <= mirror[app].ver
  /\ \A kind \in Bridges : NoVersion <= read[app][kind].ver
  /\ NoVersion <= announced[app] /\ announced[app] <= engine[app].ver
  /\ announced[app] \in Int
  /\ pc[app] \notin {"up", "gone"} =>
       /\ announced[app] = NoVersion
       /\ \A kind \in Bridges : listener[app][kind] = "no"
  /\ pc[app] = "up" =>
       \A kind \in Bridges :
         bridge[app][kind] = "assign" /\ read[app][kind].ver < announced[app] =>
           Awaited(app)
  /\ Behind(app) => Awaited(app)

UpdateInv ==
  /\ DOMAIN announced = Apps
  /\ \A app \in Apps : Kept(app)

\* What the bridges of a configuration still owe it depends on its own state.
LEMMA KeptUntouched ==
  ASSUME NEW app, Kept(app),
         pc'[app] = pc[app], engine'[app] = engine[app], mirror'[app] = mirror[app],
         announced'[app] = announced[app], listener'[app] = listener[app],
         queue'[app] = queue[app], bridge'[app] = bridge[app], read'[app] = read[app]
  PROVE  Kept(app)'
BY DEF Kept, Behind, Awaited, Coming

\* A step of one configuration leaves the updates of the others alone.
LEMMA OthersKeepUpdates ==
  ASSUME IInv, UpdateInv, NEW app \in Apps,
         \/ Construct(app)
         \/ Destroy(app)
         \/ \E kind \in Bridges : \/ Listen(app, kind)
                                  \/ Listening(app, kind)
                                  \/ Update(app, kind)
                                  \/ Bridging(app, kind),
         NEW other \in Apps \ {app}
  PROVE  /\ announced'[other] = announced[other]
         /\ listener'[other] = listener[other]
         /\ read'[other] = read[other]
<1> USE DEF IInv, TypeOK, Reads, UpdateInv
<1>1. CASE Construct(app)
  BY <1>1 DEF Construct, Open, Sync, LoadFile, ApplyCommandLine, SetOverride,
              ExportKey, CheckCapability, Constructed, updating
<1>2. CASE Destroy(app)
  BY <1>2 DEF Destroy
<1>3. ASSUME NEW kind \in Bridges, Listen(app, kind) \/ Listening(app, kind)
      PROVE  /\ announced'[other] = announced[other]
             /\ listener'[other] = listener[other]
             /\ read'[other] = read[other]
  BY <1>3 DEF Listen, Listening
<1>4. ASSUME NEW kind \in Bridges, Update(app, kind)
      PROVE  /\ announced'[other] = announced[other]
             /\ listener'[other] = listener[other]
             /\ read'[other] = read[other]
  BY <1>4 DEF Update
<1>5. ASSUME NEW kind \in Bridges, Bridging(app, kind)
      PROVE  /\ announced'[other] = announced[other]
             /\ listener'[other] = listener[other]
             /\ read'[other] = read[other]
  BY <1>5 DEF Bridging, Deliver, EnterCallback, CallbackReturns, ReadEngine,
              AssignMirror, CallbackThrows, UseDestroyed, updating
<1>6. QED  BY <1>1, <1>2, <1>3, <1>4, <1>5

\* Nothing is announced to a configuration under construction.
LEMMA KeptByConstruct ==
  ASSUME IInv, UpdateInv, NEW app \in Apps, Construct(app)
  PROVE  Kept(app)'
<1> USE DEF IInv, UpdateInv
<1>1. /\ pc[app] \notin {"up", "gone"}
      /\ UNCHANGED updating
  BY DEF Construct, Open, Sync, LoadFile, ApplyCommandLine, SetOverride, ExportKey,
         CheckCapability, Constructed, Settings
<1>2. announced'[app] = NoVersion /\ listener'[app] = listener[app] /\ read'[app] = read[app]
  BY <1>1 DEF updating, Kept
<1>3. TypeOK' /\ Reads'
  BY ConstructTyped
<1>4. engine'[app].ver >= NoVersion /\ mirror'[app].ver >= NoVersion
  <2>1. /\ engine[app].ver >= NoVersion /\ mirror[app].ver >= NoVersion
        /\ engine[app].ver \in Int /\ mirror[app].ver \in Int
    BY DEF Kept, TypeOK, Versioned, NoVersion
  <2>2. CASE Open(app)
    <3>1. mirror' = mirror
      BY <2>2 DEF Open
    <3>2. engine'[app] = engine[app] \/ engine'[app].ver = 0
      BY <2>2 DEF Open, TypeOK
    <3>3. QED  BY <2>1, <3>1, <3>2 DEF NoVersion
  <2>3. CASE Sync(app)
    <3>1. engine' = engine
      BY <2>3 DEF Sync
    <3>2. mirror'[app] = engine[app] \/ mirror'[app] = Emptied
      BY <2>3, SyncedMirror DEF Sync, TypeOK
    <3>3. QED  BY <2>1, <3>1, <3>2 DEF Emptied, NoVersion
  <2>4. CASE LoadFile(app)
    <3>1. mirror' = mirror
      BY <2>4 DEF LoadFile
    <3>2. \/ engine' = engine
          \/ \E x : engine' = [engine EXCEPT ![app].content = x]
      BY <2>4 DEF LoadFile
    <3>3. engine'[app].ver = engine[app].ver
      BY <3>2 DEF TypeOK, Versioned
    <3>4. QED  BY <2>1, <3>1, <3>3
  <2>5. CASE ApplyCommandLine(app) \/ SetOverride(app)
    <3>1. /\ \/ engine' = engine
             \/ \E x : engine' = [engine EXCEPT ![app].content = x]
          /\ \/ mirror' = mirror
             \/ \E y : mirror' = [mirror EXCEPT ![app].content = y]
      BY <2>5 DEF ApplyCommandLine, SetOverride
    <3>2. engine'[app].ver = engine[app].ver /\ mirror'[app].ver = mirror[app].ver
      BY <3>1 DEF TypeOK, Versioned
    <3>3. QED  BY <2>1, <3>2
  <2>6. CASE ExportKey(app) \/ CheckCapability(app) \/ Constructed(app)
    BY <2>1, <2>6 DEF ExportKey, CheckCapability, Constructed
  <2>7. QED  BY <2>2, <2>3, <2>4, <2>5, <2>6 DEF Construct
<1>5. /\ \A kind \in Bridges : /\ read'[app][kind].ver \in Int
                               /\ NoVersion <= read'[app][kind].ver
      /\ mirror'[app].ver \in Int
  BY <1>2, <1>3 DEF Kept, TypeOK, Reads, Versioned
<1>6. ~Behind(app)'
  BY <1>2, <1>4, <1>5 DEF Behind, NoVersion
<1>7. \A kind \in Bridges : ~(read'[app][kind].ver < announced'[app])
  BY <1>2, <1>5 DEF NoVersion
<1>8. \A kind \in Bridges : listener'[app][kind] = "no"
  BY <1>1, <1>2 DEF Kept
<1>9. QED  BY <1>2, <1>4, <1>5, <1>6, <1>7, <1>8 DEF Kept, NoVersion

\* An announcement is a new token in the queue; the tokens turn into bridges, and
\* a bridge reads what is current when it reads.  The mutex keeps a second bridge
\* from reading between the read and the assignment of the first.
LEMMA KeptByUpdates ==
  ASSUME IInv, LayersTyped, UpdateInv, NEW app \in Apps, NEW kind \in Bridges,
         \/ Listen(app, kind) \/ Listening(app, kind)
         \/ Update(app, kind) \/ Bridging(app, kind)
  PROVE  Kept(app)'
<1> USE DEF IInv, UpdateInv
<1>1. /\ engine[app].ver \in Int /\ mirror[app].ver \in Int
      /\ \A k \in Bridges : read[app][k].ver \in Int
      /\ announced[app] \in Int
  BY DEF TypeOK, Reads, Versioned, Kept
<1>2. CASE Listen(app, kind) \/ Listening(app, kind)
  BY <1>2 DEF Listen, Listening, starting, Kept, Behind, Awaited, Coming
<1>3. CASE Update(app, kind)
  <2>1. engine'[app].ver = engine[app].ver + 1
    BY <1>3 DEF Update, TypeOK
  <2>2. /\ pc' = pc /\ mirror' = mirror /\ read' = read /\ bridge' = bridge
        /\ listener' = listener
    BY <1>3 DEF Update
  <2>3. CASE listener[app][kind] = "yes"
    <3>1. announced'[app] = engine[app].ver + 1
      BY <1>3, <2>3 DEF Update
    <3>2. queue'[app][kind] > 0
      BY <1>3, <2>3 DEF Update, LayersTyped
    <3>3. Awaited(app)'
      BY <3>2 DEF Awaited, Coming
    <3>4. pc[app] \in {"up", "gone"}
      BY <2>3 DEF Kept
    <3>5. QED  BY <1>1, <2>1, <2>2, <3>1, <3>3, <3>4 DEF Kept, NoVersion
  <2>4. CASE listener[app][kind] # "yes"
    <3>1. announced' = announced /\ queue' = queue
      BY <1>3, <2>4 DEF Update
    <3>2. Awaited(app)' <=> Awaited(app)
      BY <2>2, <3>1 DEF Awaited, Coming
    <3>3. Behind(app)' <=> Behind(app)
      BY <2>2, <3>1 DEF Behind
    <3>4. QED  BY <1>1, <2>1, <2>2, <3>1, <3>2, <3>3 DEF Kept, NoVersion
  <2>5. QED  BY <2>3, <2>4
<1>4. CASE Deliver(app, kind)
  <2>1. /\ pc' = pc /\ mirror' = mirror /\ engine' = engine /\ read' = read
        /\ announced' = announced /\ listener' = listener
    BY <1>4 DEF Deliver
  <2>2. bridge'[app][kind] = "lock"
    BY <1>4 DEF Deliver, TypeOK
  <2>3. Awaited(app)'
    BY <2>2 DEF Awaited, Coming
  <2>4. QED  BY <2>1, <2>3 DEF Kept
<1>5. CASE EnterCallback(app, kind) \/ CallbackReturns(app, kind)
  <2>1. /\ pc' = pc /\ mirror' = mirror /\ engine' = engine /\ read' = read
        /\ announced' = announced /\ listener' = listener
    BY <1>5 DEF EnterCallback, CallbackReturns
  <2>2. bridge'[app][kind] \in {"callback", "read"}
    BY <1>5 DEF EnterCallback, CallbackReturns, TypeOK
  <2>3. Awaited(app)'
    BY <2>2 DEF Awaited, Coming
  <2>4. QED  BY <2>1, <2>3 DEF Kept
<1>6. CASE ReadEngine(app, kind)
  <2>1. /\ pc' = pc /\ mirror' = mirror /\ engine' = engine
        /\ announced' = announced /\ listener' = listener
    BY <1>6 DEF ReadEngine
  <2>2. read'[app][kind] = engine[app] /\ bridge'[app][kind] = "assign"
    BY <1>6 DEF ReadEngine, TypeOK, Reads
  <2>3. \A k \in Bridges \ {kind} : read'[app][k] = read[app][k]
    BY <1>6 DEF ReadEngine, Reads
  <2>4. Awaited(app)'
    BY <1>1, <2>1, <2>2 DEF Awaited, Coming, Kept
  <2>5. \A k \in Bridges : NoVersion <= read'[app][k].ver
    BY <1>1, <2>2, <2>3 DEF Kept, NoVersion
  <2>6. QED  BY <2>1, <2>4, <2>5 DEF Kept
<1>7. CASE AssignMirror(app, kind)
  <2>1. /\ pc' = pc /\ engine' = engine /\ announced' = announced
        /\ listener' = listener /\ read' = read /\ queue' = queue
        /\ pc[app] = "up" /\ bridge[app][kind] = "assign"
    BY <1>7 DEF AssignMirror
  <2>2. mirror'[app] = read[app][kind] \/ mirror'[app] = Emptied
    BY <1>7, SyncedMirror DEF AssignMirror, TypeOK, Reads
  <2>3. /\ bridge'[app][kind] = "idle"
        /\ \A k \in Bridges \ {kind} : bridge'[app][k] = bridge[app][k]
    BY <1>7 DEF AssignMirror, TypeOK
  <2>4. \A k \in Bridges \ {kind} : bridge[app][k] # "assign"
    <3>1. mutex = <<app, kind>>
      BY <2>1 DEF TypeOK, Inside
    <3>2. QED  BY <3>1 DEF TypeOK, Inside
  <2>5. \A k \in Bridges : bridge'[app][k] # "assign"
    BY <2>3, <2>4
  <2>6. Behind(app)' => Awaited(app)'
    <3>1. SUFFICES ASSUME Behind(app)' PROVE Awaited(app)'
      OBVIOUS
    <3>2. mirror'[app] = read[app][kind] /\ read[app][kind].ver < announced[app]
      BY <2>1, <2>2, <3>1 DEF Behind, Emptied
    <3>3. PICK k \in Bridges : Coming(app, k)
      BY <2>1, <3>2 DEF Kept, Awaited
    <3>4. k = kind => queue[app][k] > 0
      BY <1>1, <2>1, <3>2, <3>3 DEF Coming
    <3>5. k # kind => queue[app][k] > 0 \/ bridge[app][k] \in {"lock", "callback", "read"}
      BY <2>4, <3>3 DEF Coming
    <3>6. Coming(app, k)'
      BY <2>1, <2>3, <3>4, <3>5 DEF Coming
    <3>7. QED  BY <3>6 DEF Awaited
  <2>7. NoVersion <= mirror'[app].ver
    BY <2>2 DEF Kept, Emptied, NoVersion
  <2>8. QED  BY <2>1, <2>5, <2>6, <2>7 DEF Kept
<1>8. CASE CallbackThrows(app, kind) \/ UseDestroyed(app, kind)
  BY <1>8, KeptUntouched DEF CallbackThrows, UseDestroyed, updating
<1>9. QED
  BY <1>2, <1>3, <1>4, <1>5, <1>6, <1>7, <1>8 DEF Bridging

\* Every step keeps the updates on their way.
LEMMA UpdateStep == IInv /\ LayerInv /\ UpdateInv /\ [Next]_vars => UpdateInv'
<1> SUFFICES ASSUME IInv, LayerInv, UpdateInv, [Next]_vars PROVE UpdateInv'
  OBVIOUS
<1>1. DOMAIN announced' = Apps
  <2>1. DOMAIN announced = Apps
    BY DEF UpdateInv
  <2>2. ASSUME NEW app \in Apps, Construct(app)
        PROVE  announced' = announced
    BY <2>2 DEF Construct, Open, Sync, LoadFile, ApplyCommandLine, SetOverride,
                ExportKey, CheckCapability, Constructed, updating
  <2>3. ASSUME NEW app \in Apps, Destroy(app)
        PROVE  announced' = announced
    BY <2>3 DEF Destroy
  <2>4. ASSUME NEW app \in Apps, NEW kind \in Bridges, Update(app, kind)
        PROVE  DOMAIN announced' = Apps
    BY <2>1, <2>4 DEF Update
  <2>5. ASSUME NEW app \in Apps, NEW kind \in Bridges,
               Listen(app, kind) \/ Listening(app, kind) \/ Bridging(app, kind)
        PROVE  announced' = announced
    BY <2>5 DEF Listen, Listening, Bridging, Deliver, EnterCallback, CallbackReturns,
                ReadEngine, AssignMirror, CallbackThrows, UseDestroyed, updating
  <2>6. CASE UNCHANGED vars
    BY <2>1, <2>6 DEF vars, updating
  <2>7. QED  BY <2>1, <2>2, <2>3, <2>4, <2>5, <2>6 DEF Next
<1>2. ASSUME NEW app \in Apps, Kept(app)',
             \/ Construct(app)
             \/ Destroy(app)
             \/ \E kind \in Bridges : \/ Listen(app, kind)
                                      \/ Listening(app, kind)
                                      \/ Update(app, kind)
                                      \/ Bridging(app, kind)
      PROVE  \A other \in Apps : Kept(other)'
  BY <1>2, OthersUntouched, OthersKeepLayers, OthersKeepUpdates, KeptUntouched
     DEF UpdateInv, LayerInv
<1>3. ASSUME NEW app \in Apps, Construct(app)
      PROVE  Kept(app)'
  BY <1>3, KeptByConstruct
<1>4. ASSUME NEW app \in Apps, Destroy(app)
      PROVE  Kept(app)'
  <2>1. /\ pc'[app] = "gone" /\ engine' = engine /\ mirror' = mirror
        /\ announced' = announced /\ listener' = listener /\ read' = read
    BY <1>4 DEF Destroy, IInv, TypeOK
  <2>2. QED  BY <2>1 DEF UpdateInv, Kept, Behind
<1>5. ASSUME NEW app \in Apps, NEW kind \in Bridges,
             \/ Listen(app, kind) \/ Listening(app, kind)
             \/ Update(app, kind) \/ Bridging(app, kind)
      PROVE  Kept(app)'
  BY <1>5, KeptByUpdates DEF LayerInv
<1>6. CASE UNCHANGED vars
  BY <1>6, KeptUntouched DEF UpdateInv, vars, updating
<1>7. QED  BY <1>1, <1>2, <1>3, <1>4, <1>5, <1>6 DEF Next, UpdateInv

\* At first nothing was announced to anybody.
LEMMA UpdateInit == Init => UpdateInv
BY DEF Init, UpdateInv, Kept, Behind, Emptied, NoVersion

\* However the bridges of a configuration that is up and the updates of its engine
\* interleave, a mirror that is behind an update announced to a registered listener
\* is going to be overwritten by a bridge that knows it.  Updates before there is a
\* listener are announced to nobody, and a mirror a failed sync emptied stays empty
\* until the next announcement: neither is covered (AppConfig.hpp:179-189, 276-285,
\* DistConf.hpp:186).
THEOREM UpdatesAreKept == Spec => []NoUpdateForgotten
<1>1. Spec => []LayerInv
  BY Invariant, LayerInit, LayerStep, PTL DEF Spec
<1>2. Spec => []UpdateInv
  BY Invariant, <1>1, UpdateInit, UpdateStep, PTL DEF Spec
<1>3. UpdateInv => NoUpdateForgotten
  BY DEF UpdateInv, Kept, Awaited, NoUpdateForgotten
<1>4. QED  BY <1>2, <1>3, PTL

=============================================================================
