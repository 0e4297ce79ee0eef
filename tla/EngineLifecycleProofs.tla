----------------------- MODULE EngineLifecycleProofs -----------------------
(***************************************************************************)
(* What EngineLifecycle guarantees for any number of engines: its types;   *)
(* that an engine is torn down by one thread only and leaks nothing,       *)
(* whatever the device does; and that only the thread which handles a drop *)
(* of the device can be left in a deleted engine.                          *)
(***************************************************************************)
EXTENDS EngineLifecycle, TLAPS

\* What makes the three invariants inductive.

Unborn == [life |-> "unborn", running |-> FALSE, stream |-> "none",
           socket |-> FALSE, net |-> "none"]

\* Engines not yet made are untouched.
Untouched(e) == e > made => engine[e] = Unborn /\ dropped[e] = "no"

\* Until its stream has started, no drop is reported for an engine, and nobody
\* but start clears its mRunning.
Quiet(e) ==
  /\ gEngine = e /\ app.at \in (Starting \ {"started"}) \cup Unstarting =>
       dropped[e] = "no" /\ engine[e].stream # "started"
  /\ gEngine = e /\ app.at = "requestStart" => engine[e].running

\* A running engine is not torn down yet, a deleted one does not run; only one
\* thread tears it down.
Cleared(e) ==
  /\ AppTears(e) \/ TeardownTears(e) => ~engine[e].running
  /\ gEngine = e /\ app.at = "delete" => ~engine[e].running
  /\ ~(AppTears(e) /\ TeardownTears(e))

\* What an engine holds, it holds because it runs, or because the thread that
\* makes it or tears it down is not yet past the step that releases it.
Accounted(e) ==
  LET At(steps) == gEngine = e /\ app.at \in steps IN
  /\ engine[e].net # "none" =>
       engine[e].running \/ At({"closeStream", "join", "unjoin"})
         \/ dropped[e] \in {"closeStream", "join"}
  /\ engine[e].stream # "none" =>
       engine[e].running \/ At({"spawn", "closeStream", "unjoin", "release"})
         \/ dropped[e] = "closeStream"
  /\ engine[e].socket =>
       engine[e].running
         \/ At({"openStream", "spawn", "closeStream", "join", "closeSocket", "unjoin", "release"})
         \/ dropped[e] \in {"closeStream", "join", "closeSocket"}

\* Only nativeStart makes an engine, and it was let in for one more.
RoomForOne ==
  app.at = "new" \/ (app.call = "start" /\ app.at \in Stopping \cup {"delete"}) =>
    app.call = "start" /\ made < MaxEngines

LifeInv ==
  \A e \in Engines : Untouched(e) /\ Quiet(e) /\ Cleared(e) /\ Accounted(e)

\* An engine that is not live does not run, and the app has let go of it; a
\* drop of its device may still be handled, if a delete may meet one.
LetGo(e) ==
  engine[e].life # "live" =>
    /\ ~engine[e].running
    /\ gEngine = e => app.at = "new"
    /\ ~Overlap => dropped[e] \in {"no", "done"}

\* UsedWhileLive, but for the error callback and its teardown thread.
UsedUnlessDropping ==
  \A e \in Engines :
    InUse(e) => engine[e].life = "live" \/ dropped[e] \notin {"no", "done"}

-----------------------------------------------------------------------------
USE DEF Engines, NoEngine, Stopping, Starting, Unstarting

-----------------------------------------------------------------------------
\* A step of stop() changes the one engine, and leaves it an engine.
LEMMA StopsOne ==
  ASSUME engine \in [Engines -> EngineState],
         NEW e \in 0 .. MaxEngines, NEW at \in Stopping
  PROVE  /\ Stopped(e, at) \in [Engines -> EngineState]
         /\ \A f \in Engines : f # e => Stopped(e, at)[f] = engine[f]
         /\ e \in Engines => Stopped(e, at)[e] =
              [life |-> engine[e].life,
               running |-> IF at = "exchange" THEN FALSE ELSE engine[e].running,
               stream |-> IF at = "closeStream" THEN "none" ELSE engine[e].stream,
               socket |-> IF at = "closeSocket" THEN FALSE ELSE engine[e].socket,
               net |-> IF at = "join" THEN "none" ELSE engine[e].net]
<1> USE EngineAssumption
<1> USE DEF Stopped, EngineState
<1>1. CASE at = "exchange"
  BY <1>1
<1>2. CASE at = "closeStream"
  BY <1>2
<1>3. CASE at = "join"
  BY <1>3
<1>4. CASE at = "closeSocket"
  BY <1>4
<1>5. QED
  BY <1>1, <1>2, <1>3, <1>4

\* stop() leaves deleting the engine to others.
LEMMA StopsDeleteNothing ==
  ASSUME engine \in [Engines -> EngineState],
         NEW e \in Engines, NEW at \in Stopping
  PROVE  Stopped(e, at)[e].life = engine[e].life
<1>1. QED
  BY EngineAssumption DEF Stopped, EngineState

\* Types are kept because nativeStart is let in only for an engine that may
\* still be made.
LEMMA Types == Spec => [](TypeOK /\ RoomForOne)
<1> USE EngineAssumption
<1>1. Init => TypeOK /\ RoomForOne
  BY DEF Init, TypeOK, RoomForOne, EngineState
<1>2. TypeOK /\ RoomForOne /\ [Next]_vars => (TypeOK /\ RoomForOne)'
  <2> SUFFICES ASSUME TypeOK, RoomForOne, [Next]_vars PROVE (TypeOK /\ RoomForOne)'
    OBVIOUS
  <2>1. engine \in [Engines -> EngineState] /\ gEngine \in 0 .. MaxEngines
    BY DEF TypeOK
  <2>2. CASE NativeStart \/ NativeStop
    BY <2>2 DEF NativeStart, NativeStop, TypeOK, RoomForOne
  <2>3. CASE AppStops
    <3>1. engine' \in [Engines -> EngineState]
      BY <2>1, <2>3, StopsOne DEF AppStops
    <3>2. QED
      BY <2>3, <3>1 DEF AppStops, AfterStop, TypeOK, RoomForOne, Goes
  <2>4. CASE Delete
    <3>1. engine' \in [Engines -> EngineState]
      BY <2>1, <2>4 DEF Delete, EngineState
    <3>2. QED
      BY <2>4, <3>1 DEF Delete, TypeOK, RoomForOne, Goes
  <2>5. CASE New
    <3>1. engine' \in [Engines -> EngineState]
      BY <2>1, <2>5 DEF New, EngineState
    <3>2. QED
      BY <2>5, <3>1 DEF New, TypeOK, RoomForOne, Goes
  <2>6. CASE OpenSocket
    <3>1. engine' \in [Engines -> EngineState]
      BY <2>1, <2>6 DEF OpenSocket, EngineState
    <3>2. QED
      BY <2>6, <3>1 DEF OpenSocket, TypeOK, RoomForOne, Goes
  <2>7. CASE OpenStream
    <3>1. engine' \in [Engines -> EngineState]
      <4>1. PICK stream \in {"open", "none"} :
              engine' = [engine EXCEPT ![gEngine] =
                          [@ EXCEPT !.stream = stream, !.socket = (stream = "open")]]
        BY <2>7 DEF OpenStream
      <4>2. QED
        BY <2>1, <4>1 DEF EngineState
    <3>2. QED
      BY <2>7, <3>1 DEF OpenStream, TypeOK, RoomForOne, Goes
  <2>8. CASE Spawn
    <3>1. engine' \in [Engines -> EngineState]
      BY <2>1, <2>8 DEF Spawn, EngineState
    <3>2. QED
      BY <2>8, <3>1 DEF Spawn, TypeOK, RoomForOne, Goes
  <2>9. CASE RequestStart
    <3>1. engine' \in [Engines -> EngineState]
      BY <2>1, <2>9 DEF RequestStart, EngineState
    <3>2. QED
      BY <2>9, <3>1 DEF RequestStart, TypeOK, RoomForOne, Goes
  <2>10. CASE Unrun
    <3>1. engine' \in [Engines -> EngineState]
      BY <2>1, <2>10 DEF Unrun, EngineState
    <3>2. QED
      BY <2>10, <3>1 DEF Unrun, TypeOK, RoomForOne, Goes
  <2>11. CASE Unjoin
    <3>1. engine' \in [Engines -> EngineState]
      BY <2>1, <2>11 DEF Unjoin, EngineState
    <3>2. QED
      BY <2>11, <3>1 DEF Unjoin, TypeOK, RoomForOne, Goes
  <2>12. CASE Release
    <3>1. engine' \in [Engines -> EngineState]
      BY <2>1, <2>12 DEF Release, EngineState
    <3>2. QED
      BY <2>12, <3>1 DEF Release, TypeOK, RoomForOne, Goes
  <2>13. CASE StartReturns
    BY <2>13 DEF StartReturns, TypeOK, RoomForOne, Goes
  <2>14. ASSUME NEW e \in Engines, NetworkThreadLoops(e) PROVE (TypeOK /\ RoomForOne)'
    <3>1. engine' \in [Engines -> EngineState]
      BY <2>1, <2>14 DEF NetworkThreadLoops, EngineState
    <3>2. QED
      BY <2>14, <3>1 DEF NetworkThreadLoops, TypeOK, RoomForOne
  <2>15. ASSUME NEW e \in Engines, DeviceDrops(e) \/ OnErrorAfterClose(e) \/ Detach(e)
         PROVE (TypeOK /\ RoomForOne)'
    BY <2>15 DEF DeviceDrops, OnErrorAfterClose, Detach, TypeOK, RoomForOne
  <2>16. ASSUME NEW e \in Engines, TeardownStops(e) PROVE (TypeOK /\ RoomForOne)'
    <3>1. engine' \in [Engines -> EngineState]
      <4>1. e \in 0 .. MaxEngines /\ dropped[e] \in Stopping
        BY <2>16 DEF TeardownStops
      <4>2. engine' = Stopped(e, dropped[e])
        BY <2>16 DEF TeardownStops
      <4>3. QED
        BY <2>1, <4>1, <4>2, StopsOne
    <3>2. AfterStop(e, dropped[e], "done") \in Stopping \cup {"done"}
      BY <2>16 DEF TeardownStops, AfterStop
    <3>3. dropped' \in [Engines -> {"no", "check", "detach", "done"} \cup Stopping]
      BY <2>16, <3>2 DEF TeardownStops, TypeOK
    <3>4. QED
      BY <2>16, <3>1, <3>3 DEF TeardownStops, TypeOK, RoomForOne
  <2>17. CASE UNCHANGED vars
    BY <2>17 DEF vars, TypeOK, RoomForOne
  <2>18. QED
    BY <2>2, <2>3, <2>4, <2>5, <2>6, <2>7, <2>8, <2>9, <2>10, <2>11, <2>12, <2>13,
       <2>14, <2>15, <2>16, <2>17
    DEF Next, AppCall, ErrorPath
<1>3. QED
  BY <1>1, <1>2, PTL DEF Spec

\* Every variable keeps its type: the global pointer is to an engine made, and
\* no thread is at a step its function does not have.
THEOREM TypeCorrect == Spec => []TypeOK
<1>1. QED
  BY Types, PTL

-----------------------------------------------------------------------------
\* LifeInv is inductive: it follows an engine through its life, whoever steps.
LEMMA Lives == Spec => []LifeInv
<1> USE EngineAssumption
<1>1. Init => LifeInv
  BY DEF Init, LifeInv, Untouched, Quiet, Cleared, Accounted, Unborn, AppTears, TeardownTears, Tearing
<1>2. TypeOK /\ LifeInv /\ [Next]_vars => LifeInv'
  <2> SUFFICES ASSUME TypeOK, LifeInv, [Next]_vars, NEW e \in Engines
               PROVE (Untouched(e) /\ Quiet(e) /\ Cleared(e) /\ Accounted(e))'
    BY DEF LifeInv
  <2> USE DEF Untouched, Quiet, Cleared, Accounted, AppTears, TeardownTears, Tearing
  <2>1. Untouched(e) /\ Quiet(e) /\ Cleared(e) /\ Accounted(e)
    BY DEF LifeInv
  <2>2. /\ engine \in [Engines -> EngineState] /\ gEngine \in 0 .. made /\ made \in 0 .. MaxEngines
        /\ gEngine \in 0 .. MaxEngines
        /\ engine[e] \in EngineState
    BY DEF TypeOK
  <2>3. CASE NativeStart
    BY <2>1, <2>2, <2>3 DEF NativeStart, EngineState, Goes, TypeOK
  <2>4. CASE NativeStop
    BY <2>1, <2>2, <2>4 DEF NativeStop, EngineState, Goes, TypeOK
  <2>5. CASE AppStops
    <3>1. engine' = Stopped(gEngine, app.at) /\ app.at \in Stopping
      BY <2>5 DEF AppStops
    <3>2. CASE e = gEngine
      <4>1. engine'[e] =
              [life |-> engine[e].life,
               running |-> IF app.at = "exchange" THEN FALSE ELSE engine[e].running,
               stream |-> IF app.at = "closeStream" THEN "none" ELSE engine[e].stream,
               socket |-> IF app.at = "closeSocket" THEN FALSE ELSE engine[e].socket,
               net |-> IF app.at = "join" THEN "none" ELSE engine[e].net]
        BY <2>2, <3>1, <3>2, StopsOne
      <4>2. /\ app'.at = AfterStop(e, app.at, "delete")
            /\ gEngine' = e /\ made' = made /\ dropped' = dropped
        BY <2>5, <3>2 DEF AppStops, Goes, TypeOK
      <4>3. CASE app.at = "exchange"
        BY <2>1, <2>2, <3>2, <4>1, <4>2, <4>3 DEF AfterStop, EngineState
      <4>4. CASE app.at = "closeStream"
        BY <2>1, <2>2, <3>2, <4>1, <4>2, <4>4 DEF AfterStop, EngineState
      <4>5. CASE app.at = "join"
        BY <2>1, <2>2, <3>2, <4>1, <4>2, <4>5 DEF AfterStop, EngineState
      <4>6. CASE app.at = "closeSocket"
        BY <2>1, <2>2, <3>2, <4>1, <4>2, <4>6 DEF AfterStop, EngineState
      <4>7. QED
        BY <3>1, <4>3, <4>4, <4>5, <4>6
    <3>3. CASE e # gEngine
      <4>1. engine'[e] = engine[e]
        BY <2>2, <3>1, <3>3, StopsOne
      <4>2. gEngine' = gEngine /\ made' = made /\ dropped' = dropped
        BY <2>5 DEF AppStops
      <4>3. QED
        BY <2>1, <2>2, <3>3, <4>1, <4>2
    <3>4. QED
      BY <3>2, <3>3
  <2>6. CASE Delete
    BY <2>1, <2>2, <2>6 DEF Delete, EngineState, Goes, TypeOK
  <2>7. CASE New
    <3>1. CASE e = made + 1
      <4>1. engine'[e] = [Unborn EXCEPT !.life = "live"] /\ dropped'[e] = "no"
        BY <2>1, <2>2, <2>7, <3>1 DEF New
      <4>2. app'.at = "openSocket" /\ made' = e
        BY <2>7, <3>1 DEF New, Goes, TypeOK
      <4>3. QED
        BY <2>2, <3>1, <4>1, <4>2 DEF Unborn
    <3>2. CASE e # made + 1
      BY <2>1, <2>2, <2>7, <3>2 DEF New, Goes, TypeOK
    <3>3. QED
      BY <3>1, <3>2
  <2>8. CASE OpenSocket
    BY <2>1, <2>2, <2>8 DEF OpenSocket, EngineState, Goes, TypeOK
  <2>9. CASE OpenStream
    BY <2>1, <2>2, <2>9 DEF OpenStream, EngineState, Goes, TypeOK
  <2>10. CASE Spawn
    BY <2>1, <2>2, <2>10 DEF Spawn, EngineState, Goes, TypeOK
  <2>11. CASE RequestStart
    BY <2>1, <2>2, <2>11 DEF RequestStart, EngineState, Goes, TypeOK
  <2>12. CASE StartReturns
    BY <2>1, <2>2, <2>12 DEF StartReturns, EngineState, Goes, TypeOK
  <2>13. CASE Unrun
    BY <2>1, <2>2, <2>13 DEF Unrun, EngineState, Goes, TypeOK
  <2>14. CASE Unjoin
    BY <2>1, <2>2, <2>14 DEF Unjoin, EngineState, Goes, TypeOK
  <2>15. CASE Release
    BY <2>1, <2>2, <2>15 DEF Release, EngineState, Goes, TypeOK
  <2>16. ASSUME NEW f \in Engines, NetworkThreadLoops(f)
         PROVE (Untouched(e) /\ Quiet(e) /\ Cleared(e) /\ Accounted(e))'
    BY <2>1, <2>2, <2>16 DEF NetworkThreadLoops, EngineState, TypeOK
  <2>17. ASSUME NEW f \in Engines, DeviceDrops(f)
         PROVE (Untouched(e) /\ Quiet(e) /\ Cleared(e) /\ Accounted(e))'
    BY <2>1, <2>2, <2>17 DEF DeviceDrops, EngineState, TypeOK, Unborn
  <2>18. ASSUME NEW f \in Engines, OnErrorAfterClose(f)
         PROVE (Untouched(e) /\ Quiet(e) /\ Cleared(e) /\ Accounted(e))'
    BY <2>1, <2>2, <2>18 DEF OnErrorAfterClose, EngineState, TypeOK
  <2>19. ASSUME NEW f \in Engines, Detach(f)
         PROVE (Untouched(e) /\ Quiet(e) /\ Cleared(e) /\ Accounted(e))'
    BY <2>1, <2>2, <2>19 DEF Detach, EngineState, TypeOK
  <2>20. ASSUME NEW f \in Engines, TeardownStops(f)
         PROVE (Untouched(e) /\ Quiet(e) /\ Cleared(e) /\ Accounted(e))'
    <3>1. engine' = Stopped(f, dropped[f]) /\ dropped[f] \in Stopping /\ f \in 0 .. MaxEngines
      BY <2>20 DEF TeardownStops
    <3>2. CASE e = f
      <4>1. engine'[e] =
              [life |-> engine[e].life,
               running |-> IF dropped[e] = "exchange" THEN FALSE ELSE engine[e].running,
               stream |-> IF dropped[e] = "closeStream" THEN "none" ELSE engine[e].stream,
               socket |-> IF dropped[e] = "closeSocket" THEN FALSE ELSE engine[e].socket,
               net |-> IF dropped[e] = "join" THEN "none" ELSE engine[e].net]
        <5>1. e \in 0 .. MaxEngines /\ dropped[e] \in Stopping
          BY <3>1, <3>2
        <5>2. engine' = Stopped(e, dropped[e])
          BY <3>1, <3>2
        <5>3. QED
          BY <2>2, <5>1, <5>2, StopsOne
      <4>2. /\ dropped'[e] = AfterStop(e, dropped[e], "done")
            /\ gEngine' = gEngine /\ made' = made /\ app' = app
        BY <2>20, <3>2 DEF TeardownStops, TypeOK
      <4>3. CASE dropped[e] = "exchange"
        BY <2>1, <2>2, <4>1, <4>2, <4>3 DEF AfterStop, EngineState
      <4>4. CASE dropped[e] = "closeStream"
        BY <2>1, <2>2, <4>1, <4>2, <4>4 DEF AfterStop, EngineState
      <4>5. CASE dropped[e] = "join"
        BY <2>1, <2>2, <4>1, <4>2, <4>5 DEF AfterStop, EngineState
      <4>6. CASE dropped[e] = "closeSocket"
        BY <2>1, <2>2, <4>1, <4>2, <4>6 DEF AfterStop, EngineState
      <4>7. QED
        BY <3>1, <3>2, <4>3, <4>4, <4>5, <4>6
    <3>3. CASE e # f
      <4>1. engine'[e] = engine[e] /\ dropped'[e] = dropped[e]
        <5>1. engine'[e] = engine[e]
          BY <2>2, <3>1, <3>3, StopsOne
        <5>2. dropped'[e] = dropped[e]
          BY <2>20, <3>3 DEF TeardownStops, TypeOK
        <5>3. QED
          BY <5>1, <5>2
      <4>2. QED
        BY <2>1, <2>2, <2>20, <3>3, <4>1 DEF TeardownStops
    <3>4. QED
      BY <3>2, <3>3
  <2>21. CASE UNCHANGED vars
    BY <2>1, <2>21 DEF vars
  <2>22. QED
    BY <2>3, <2>4, <2>5, <2>6, <2>7, <2>8, <2>9, <2>10, <2>11, <2>12, <2>13, <2>14,
       <2>15, <2>16, <2>17, <2>18, <2>19, <2>20, <2>21
    DEF Next, AppCall, ErrorPath
<1>3. QED
  BY <1>1, <1>2, Types, PTL DEF Spec

\* stop(), and start when it fails, can be at work on one engine on two threads;
\* never are both past the point where mRunning is cleared.
THEOREM TornDown == Spec => []TornDownOnce
<1>1. LifeInv => TornDownOnce
  BY DEF LifeInv, Cleared, TornDownOnce
<1>2. QED
  BY <1>1, Lives, PTL

\* An engine that does not run and that no thread works on holds no stream, no
\* socket and no thread, whichever step of start failed and whenever the device
\* dropped.
THEOREM NoLeak == Spec => []NothingLeaked
<1>1. TypeOK /\ LifeInv => NothingLeaked
  BY DEF TypeOK, EngineState, LifeInv, Accounted, NothingLeaked, AtRest
<1>2. QED
  BY <1>1, Lives, Types, PTL

-----------------------------------------------------------------------------
\* Whatever drops, stops and starts cross, the network thread and the app use a
\* live engine only: what can be left in a deleted one is the thread that handles
\* the drop of its device.  It is not, if no delete meets one.
THEOREM Owned == Spec => [](UsedUnlessDropping /\ (~Overlap => UsedWhileLive))
<1> USE EngineAssumption
<1> DEFINE AllLetGo == \A e \in Engines : LetGo(e)
<1>1. Init => AllLetGo
  BY DEF Init, LetGo
<1>2. TypeOK /\ LifeInv /\ AllLetGo /\ [Next]_vars => AllLetGo'
  <2> SUFFICES ASSUME TypeOK, LifeInv, AllLetGo, [Next]_vars, NEW e \in Engines
               PROVE LetGo(e)'
    OBVIOUS
  <2>1. LetGo(e)
    OBVIOUS
  <2> HIDE DEF AllLetGo
  <2> USE DEF LetGo
  <2>2. /\ engine \in [Engines -> EngineState] /\ engine[e] \in EngineState
        /\ gEngine \in 0 .. MaxEngines
    BY DEF TypeOK
  <2>3. CASE NativeStart \/ NativeStop \/ StartReturns
    BY <2>1, <2>3 DEF NativeStart, NativeStop, StartReturns, Goes, TypeOK
  <2>4. CASE AppStops
    <3>1. engine' = Stopped(gEngine, app.at) /\ app.at \in Stopping
      BY <2>4 DEF AppStops
    <3>2. CASE e = gEngine
      <4>1. engine[e].life = "live"
        BY <2>1, <3>1, <3>2
      <4>2. engine'[e].life = engine[e].life
        BY <2>2, <3>1, <3>2, StopsDeleteNothing
      <4>3. QED
        BY <4>1, <4>2
    <3>3. CASE e # gEngine
      <4>1. engine'[e] = engine[e]
        BY <2>2, <3>1, <3>3, StopsOne
      <4>2. QED
        BY <2>1, <2>4, <3>3, <4>1 DEF AppStops
    <3>4. QED
      BY <3>2, <3>3
  <2>5. CASE Delete
    <3>1. CASE e = gEngine
      <4>1. ~engine[e].running
        BY <2>5, <3>1 DEF Delete, LifeInv, Cleared
      <4>2. ~engine'[e].running
        BY <2>2, <2>5, <4>1 DEF Delete, EngineState
      <4>3. /\ gEngine' = e => app'.at = "new"
            /\ ~Overlap => dropped'[e] \in {"no", "done"}
        BY <2>5, <3>1 DEF Delete, Goes, TypeOK
      <4>4. QED
        BY <4>2, <4>3
    <3>2. CASE e # gEngine
      BY <2>1, <2>2, <2>5, <3>2 DEF Delete, Goes, TypeOK
    <3>3. QED
      BY <3>1, <3>2
  <2>6. CASE New
    BY <2>1, <2>2, <2>6 DEF New, EngineState, Goes, TypeOK
  <2>7. CASE OpenSocket
    BY <2>1, <2>2, <2>7 DEF OpenSocket, EngineState, Goes, TypeOK
  <2>8. CASE OpenStream
    BY <2>1, <2>2, <2>8 DEF OpenStream, EngineState, Goes, TypeOK
  <2>9. CASE Spawn
    BY <2>1, <2>2, <2>9 DEF Spawn, EngineState, Goes, TypeOK
  <2>10. CASE RequestStart
    BY <2>1, <2>2, <2>10 DEF RequestStart, EngineState, Goes, TypeOK
  <2>11. CASE Unrun
    BY <2>1, <2>2, <2>11 DEF Unrun, EngineState, Goes, TypeOK
  <2>12. CASE Unjoin
    BY <2>1, <2>2, <2>12 DEF Unjoin, EngineState, Goes, TypeOK
  <2>13. CASE Release
    BY <2>1, <2>2, <2>13 DEF Release, EngineState, Goes, TypeOK
  <2>14. ASSUME NEW f \in Engines, NetworkThreadLoops(f) PROVE LetGo(e)'
    BY <2>1, <2>2, <2>14 DEF NetworkThreadLoops, EngineState, TypeOK
  <2>15. ASSUME NEW f \in Engines, DeviceDrops(f) PROVE LetGo(e)'
    \* The stream of an engine that is not live is closed, or being torn down.
    <3>1. f = e => engine[e].life = "live"
      BY <2>1, <2>15 DEF DeviceDrops, LifeInv, Accounted
    <3>2. QED
      BY <2>1, <2>15, <3>1 DEF DeviceDrops, TypeOK
  <2>16. ASSUME NEW f \in Engines, OnErrorAfterClose(f) \/ Detach(f) PROVE LetGo(e)'
    BY <2>1, <2>16 DEF OnErrorAfterClose, Detach, TypeOK
  <2>17. ASSUME NEW f \in Engines, TeardownStops(f) PROVE LetGo(e)'
    <3>1. engine' = Stopped(f, dropped[f]) /\ dropped[f] \in Stopping /\ f \in 0 .. MaxEngines
      BY <2>17 DEF TeardownStops
    <3>2. CASE e = f
      <4>1. engine'[e].life = engine[e].life /\ (engine'[e].running => engine[e].running)
        <5>1. e \in 0 .. MaxEngines /\ dropped[e] \in Stopping /\ engine' = Stopped(e, dropped[e])
          BY <3>1, <3>2
        <5>2. engine'[e] =
                [life |-> engine[e].life,
                 running |-> IF dropped[e] = "exchange" THEN FALSE ELSE engine[e].running,
                 stream |-> IF dropped[e] = "closeStream" THEN "none" ELSE engine[e].stream,
                 socket |-> IF dropped[e] = "closeSocket" THEN FALSE ELSE engine[e].socket,
                 net |-> IF dropped[e] = "join" THEN "none" ELSE engine[e].net]
          BY <2>2, <5>1, StopsOne
        <5>3. QED
          BY <5>2
      <4>2. engine[e].life # "live" => Overlap
        BY <2>1, <3>1, <3>2
      <4>3. QED
        BY <2>1, <2>17, <4>1, <4>2 DEF TeardownStops
    <3>3. CASE e # f
      <4>1. engine'[e] = engine[e]
        BY <2>2, <3>1, <3>3, StopsOne
      <4>2. QED
        BY <2>1, <2>17, <3>3, <4>1 DEF TeardownStops, TypeOK
    <3>4. QED
      BY <3>2, <3>3
  <2>18. CASE UNCHANGED vars
    BY <2>1, <2>18 DEF vars
  <2>19. QED
    BY <2>3, <2>4, <2>5, <2>6, <2>7, <2>8, <2>9, <2>10, <2>11, <2>12, <2>13, <2>14,
       <2>15, <2>16, <2>17, <2>18
    DEF Next, AppCall, ErrorPath
<1>3. LifeInv /\ AllLetGo => UsedUnlessDropping /\ (~Overlap => UsedWhileLive)
  <2> SUFFICES ASSUME LifeInv, AllLetGo, NEW e \in Engines, InUse(e), engine[e].life # "live"
               PROVE  dropped[e] \notin {"no", "done"} /\ Overlap
    BY DEF UsedUnlessDropping, UsedWhileLive
  <2>1. ~(gEngine = e /\ app.at # "new") /\ ~engine[e].running
    BY DEF LetGo
  <2>2. engine[e].net # "none" => dropped[e] \in {"closeStream", "join"}
    BY <2>1 DEF LifeInv, Accounted
  <2>3. dropped[e] \notin {"no", "done"}
    BY <2>1, <2>2 DEF InUse
  <2>4. QED
    BY <2>3 DEF LetGo
<1>4. QED
  BY <1>1, <1>2, <1>3, Types, Lives, PTL DEF Spec
=============================================================================
