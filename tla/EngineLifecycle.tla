--------------------------- MODULE EngineLifecycle ---------------------------
(***************************************************************************)
(* The life of the native audio engines of the Android app                 *)
(* (audio_engine.cpp and the JNI functions of audio_engine_jni.cpp).       *)
(*                                                                         *)
(* Four kinds of thread meet in an engine: the app's, which calls          *)
(* nativeStart and nativeStop one at a time; the engine's network thread;  *)
(* Oboe's, which reports that the device dropped; and the detached thread  *)
(* onErrorAfterClose spawns to call stop().  The last two run one after    *)
(* the other, so dropped[e] is where both are.                             *)
(*                                                                         *)
(* What an engine owns is abstracted to whether it holds it.  Opening a    *)
(* stream stands for all its attempts in exclusive and in shared mode.     *)
(***************************************************************************)
EXTENDS Naturals

CONSTANTS
  MaxEngines, \* bound on the engines made
  Overlap     \* may a drop of the device meet a start or a delete?

ASSUME EngineAssumption ==
  /\ MaxEngines \in Nat
  /\ Overlap \in BOOLEAN

VARIABLES
  gEngine, \* the global pointer, 0 for nullptr
  made,    \* engines made so far
  engine,  \* per engine: its life, mRunning, and what it owns
  app,     \* the JNI call under way: its step, and the function called
  dropped  \* per engine: the step of its error callback and teardown thread

vars == <<gEngine, made, engine, app, dropped>>

Engines == 1 .. MaxEngines
NoEngine == 0

Stopping == {"exchange", "closeStream", "join", "closeSocket"}
Starting == {"openSocket", "openStream", "spawn", "requestStart", "started"}
Unstarting == {"unrun", "unjoin", "release"}

EngineState ==
  [life : {"unborn", "live", "deleted"}, running : BOOLEAN,
   stream : {"none", "open", "started"}, socket : BOOLEAN,
   net : {"none", "runs", "ended"}]

TypeOK ==
  /\ made \in 0 .. MaxEngines
  /\ gEngine \in 0 .. made
  /\ engine \in [Engines -> EngineState]
  /\ app \in [at : {"idle", "delete", "new"} \cup Stopping \cup Starting \cup Unstarting,
              call : {"start", "stop"}]
  /\ dropped \in [Engines -> {"no", "check", "detach", "done"} \cup Stopping]

Init ==
  /\ gEngine = NoEngine
  /\ made = 0
  /\ engine = [e \in Engines |-> [life |-> "unborn", running |-> FALSE,
                                  stream |-> "none", socket |-> FALSE, net |-> "none"]]
  /\ app = [at |-> "idle", call |-> "stop"]
  /\ dropped = [e \in Engines |-> "no"]

-----------------------------------------------------------------------------
\* AudioEngine::stop, for whichever thread is at one of its steps.

\* Joining waits for the network thread to end.
MayStop(e, at) == at = "join" => engine[e].net # "runs"

\* Seeded bug: mRunning is tested first and cleared later.
StoppedTestFirst(e, at) ==
  [engine EXCEPT ![e] =
     CASE at = "exchange"    -> @
       [] at = "closeStream" -> [@ EXCEPT !.running = FALSE, !.stream = "none"]
       [] at = "join"        -> [@ EXCEPT !.net = "none"]
       [] at = "closeSocket" -> [@ EXCEPT !.socket = FALSE]]

Stopped(e, at) ==
  [engine EXCEPT ![e] =
     CASE at = "exchange"    -> [@ EXCEPT !.running = FALSE]
       [] at = "closeStream" -> [@ EXCEPT !.stream = "none"]
       [] at = "join"        -> [@ EXCEPT !.net = "none"]
       [] at = "closeSocket" -> [@ EXCEPT !.socket = FALSE]]

\* The thread that finds mRunning cleared returns at once.
AfterStop(e, at, return) ==
  CASE at = "exchange"    -> IF engine[e].running THEN "closeStream" ELSE return
    [] at = "closeStream" -> "join"
    [] at = "join"        -> "closeSocket"
    [] at = "closeSocket" -> return

-----------------------------------------------------------------------------
\* nativeStart and nativeStop.

Goes(step) == app' = [app EXCEPT !.at = step]

NativeStart ==
  /\ app.at = "idle" /\ made < MaxEngines
  /\ app' = [at |-> IF gEngine = NoEngine THEN "new" ELSE "exchange", call |-> "start"]
  /\ UNCHANGED <<gEngine, made, engine, dropped>>

\* Seeded bug: the engine is deleted without being stopped.
NativeStopDeletes ==
  /\ app.at = "idle"
  /\ app' = IF gEngine = NoEngine THEN app ELSE [at |-> "delete", call |-> "stop"]
  /\ UNCHANGED <<gEngine, made, engine, dropped>>

NativeStop ==
  /\ app.at = "idle"
  /\ app' = IF gEngine = NoEngine THEN app ELSE [at |-> "exchange", call |-> "stop"]
  /\ UNCHANGED <<gEngine, made, engine, dropped>>

AppStops ==
  /\ app.at \in Stopping
  /\ MayStop(gEngine, app.at)
  /\ engine' = Stopped(gEngine, app.at)
  /\ Goes(AfterStop(gEngine, app.at, "delete"))
  /\ UNCHANGED <<gEngine, made, dropped>>

\* The destructor's own stop() finds mRunning cleared.  nativeStart leaves the
\* pointer to be overwritten.
Delete ==
  /\ app.at = "delete"
  /\ Overlap \/ dropped[gEngine] \in {"no", "done"}
  /\ engine' = [engine EXCEPT ![gEngine].life = "deleted"]
  /\ IF app.call = "stop"
     THEN gEngine' = NoEngine /\ Goes("idle")
     ELSE UNCHANGED gEngine /\ Goes("new")
  /\ UNCHANGED <<made, dropped>>

\* Seeded bug: the new engine takes the place of the one before.
NewInPlace ==
  /\ app.at = "new"
  /\ gEngine' = made + 1
  /\ engine' = [engine EXCEPT ![made + 1].life = "live"]
  /\ Goes("openSocket")
  /\ UNCHANGED <<made, dropped>>

New ==
  /\ app.at = "new"
  /\ made' = made + 1
  /\ gEngine' = made + 1
  /\ engine' = [engine EXCEPT ![made + 1].life = "live"]
  /\ Goes("openSocket")
  /\ UNCHANGED dropped

-----------------------------------------------------------------------------
\* AudioEngine::start of the new engine.

OpenSocket ==
  /\ app.at = "openSocket"
  /\ \E ok \in BOOLEAN :
       /\ engine' = [engine EXCEPT ![gEngine].socket = ok]
       /\ Goes(IF ok THEN "openStream" ELSE "idle")
  /\ UNCHANGED <<gEngine, made, dropped>>

\* No stream, in either sharing mode: the socket is closed again.
OpenStream ==
  /\ app.at = "openStream"
  /\ \E stream \in {"open", "none"} :
       /\ engine' = [engine EXCEPT ![gEngine] =
                       [@ EXCEPT !.stream = stream, !.socket = (stream = "open")]]
       /\ Goes(IF stream = "open" THEN "spawn" ELSE "idle")
  /\ UNCHANGED <<gEngine, made, dropped>>

Spawn ==
  /\ app.at = "spawn"
  /\ engine' = [engine EXCEPT ![gEngine] = [@ EXCEPT !.running = TRUE, !.net = "runs"]]
  /\ Goes("requestStart")
  /\ UNCHANGED <<gEngine, made, dropped>>

\* It fails with a stream that will not start, or with none when an exclusive
\* one could not be rebuilt as shared.
RequestStart ==
  /\ app.at = "requestStart"
  /\ \E stream \in {"started", "open", "none"} :
       /\ engine' = [engine EXCEPT ![gEngine].stream = stream]
       /\ Goes(IF stream = "started" THEN "started" ELSE "unrun")
  /\ UNCHANGED <<gEngine, made, dropped>>

\* The stream is described in the log; start returns true.
StartReturns ==
  /\ app.at = "started"
  /\ Goes("idle")
  /\ UNCHANGED <<gEngine, made, engine, dropped>>

\* Seeded bug: the network thread is joined without being told to end.
UnrunForgotten ==
  /\ app.at = "unrun"
  /\ Goes("unjoin")
  /\ UNCHANGED <<gEngine, made, engine, dropped>>

Unrun ==
  /\ app.at = "unrun"
  /\ engine' = [engine EXCEPT ![gEngine].running = FALSE]
  /\ Goes("unjoin")
  /\ UNCHANGED <<gEngine, made, dropped>>

Unjoin ==
  /\ app.at = "unjoin" /\ engine[gEngine].net # "runs"
  /\ engine' = [engine EXCEPT ![gEngine].net = "none"]
  /\ Goes("release")
  /\ UNCHANGED <<gEngine, made, dropped>>

\* Seeded bug: the socket of a stream that would not start stays open.
ReleaseStreamOnly ==
  /\ app.at = "release"
  /\ engine' = [engine EXCEPT ![gEngine].stream = "none"]
  /\ Goes("idle")
  /\ UNCHANGED <<gEngine, made, dropped>>

Release ==
  /\ app.at = "release"
  /\ engine' = [engine EXCEPT ![gEngine] = [@ EXCEPT !.stream = "none", !.socket = FALSE]]
  /\ Goes("idle")
  /\ UNCHANGED <<gEngine, made, dropped>>

-----------------------------------------------------------------------------
\* The engine's other threads.

\* An iteration of the loop in networkThread: it takes a packet, or none within
\* the receive timeout, and ends when it sees mRunning cleared.
NetworkThreadLoops(e) ==
  /\ engine[e].net = "runs"
  /\ engine' = [engine EXCEPT ![e].net = IF engine[e].running THEN "runs" ELSE "ended"]
  /\ UNCHANGED <<gEngine, made, app, dropped>>

\* The device goes: Oboe closes the stream and calls onErrorAfterClose.
DeviceDrops(e) ==
  /\ engine[e].stream = "started" /\ dropped[e] = "no"
  /\ Overlap \/ app.at # "started"
  /\ dropped' = [dropped EXCEPT ![e] = "check"]
  /\ UNCHANGED <<gEngine, made, engine, app>>

OnErrorAfterClose(e) ==
  /\ dropped[e] = "check"
  /\ dropped' = [dropped EXCEPT ![e] = IF engine[e].running THEN "detach" ELSE "done"]
  /\ UNCHANGED <<gEngine, made, engine, app>>

\* Seeded bug: the callback records the error and leaves it at that.
NotDetached(e) ==
  /\ dropped[e] = "detach"
  /\ dropped' = [dropped EXCEPT ![e] = "done"]
  /\ UNCHANGED <<gEngine, made, engine, app>>

\* The error is recorded, the teardown thread spawned.
Detach(e) ==
  /\ dropped[e] = "detach"
  /\ dropped' = [dropped EXCEPT ![e] = "exchange"]
  /\ UNCHANGED <<gEngine, made, engine, app>>

TeardownStops(e) ==
  /\ dropped[e] \in Stopping
  /\ MayStop(e, dropped[e])
  /\ engine' = Stopped(e, dropped[e])
  /\ dropped' = [dropped EXCEPT ![e] = AfterStop(e, dropped[e], "done")]
  /\ UNCHANGED <<gEngine, made, app>>

-----------------------------------------------------------------------------
AppCall ==
  \/ AppStops \/ Delete \/ New
  \/ OpenSocket \/ OpenStream \/ Spawn \/ RequestStart \/ StartReturns
  \/ Unrun \/ Unjoin \/ Release

ErrorPath(e) == OnErrorAfterClose(e) \/ Detach(e) \/ TeardownStops(e)

Next ==
  \/ NativeStart \/ NativeStop \/ AppCall
  \/ \E e \in Engines : NetworkThreadLoops(e) \/ DeviceDrops(e) \/ ErrorPath(e)

\* Threads run; the app need not call, nor the device drop.
Fairness ==
  /\ WF_vars(AppCall)
  /\ \A e \in Engines : WF_vars(NetworkThreadLoops(e)) /\ WF_vars(ErrorPath(e))

Spec == Init /\ [][Next]_vars /\ Fairness

-----------------------------------------------------------------------------
\* An engine that a thread executes in, or that has a thread to be joined
\* (destroying a joinable std::thread ends the process), or that the global
\* points to when it may be followed.
InUse(e) ==
  \/ engine[e].net # "none"
  \/ dropped[e] \notin {"no", "done"}
  \/ gEngine = e /\ app.at # "new"

\* stop() is safe against concurrent callers: nobody is left in an engine that
\* its owner deletes.
UsedWhileLive == \A e \in Engines : InUse(e) => engine[e].life = "live"

\* Of the threads that would tear an engine down exactly one does: no stream is
\* closed, no thread joined and no socket closed twice.
Tearing == {"closeStream", "join", "closeSocket", "unjoin", "release"}

AppTears(e) == gEngine = e /\ app.at \in Tearing
TeardownTears(e) == dropped[e] \in Tearing

TornDownOnce == \A e \in Engines : ~(AppTears(e) /\ TeardownTears(e))

\* Whatever failed on the way, an engine that is not running and that nobody
\* is working on holds no stream, no socket and no thread.
AtRest(e) ==
  /\ ~engine[e].running
  /\ dropped[e] \in {"no", "done"}
  /\ gEngine = e => app.at \in {"idle", "new"}

NothingLeaked ==
  \A e \in Engines : AtRest(e) =>
    engine[e].stream = "none" /\ ~engine[e].socket /\ engine[e].net = "none"

\* Neither function hangs: the threads they join always end.
CallsReturn == app.at # "idle" ~> app.at = "idle"

\* A drop of the device ends playback: the network thread of that engine does
\* not go on receiving for a stream that is gone.
DropEndsPlayback == \A e \in Engines : dropped[e] = "check" ~> engine[e].net = "none"
=============================================================================
