--------------------------- MODULE PlaybackService ---------------------------
(***************************************************************************)
(* The Android foreground service that owns a listening session            *)
(* (PlaybackService.kt) and the native engine it drives.  The engine is    *)
(* one global of the process (gEngine of audio_engine_jni.cpp), whichever  *)
(* instance of the service calls it.                                       *)
(*                                                                         *)
(* A session is named by the number of the connect attempt that made it:   *)
(* that attempt starts the engine, whose port it registers at the server,  *)
(* so `engine` is the session whose audio the engine receives, and 0 when  *)
(* no engine runs.                                                         *)
(***************************************************************************)
EXTENDS Naturals

CONSTANT MaxConnects \* bound on the connect attempts

ASSUME ServiceAssumption == MaxConnects \in Nat \ {0}

VARIABLES
  engine,  \* the session of the running native engine
  service  \* the live instance: _isPlaying, clientId, and whether it is
           \* started or lives only while it is bound

Sessions == 1 .. MaxConnects
NoSession == 0

ServiceState == [playing : BOOLEAN, client : Sessions \cup {NoSession}, started : BOOLEAN]

ServiceTypeOK ==
  /\ engine \in Sessions \cup {NoSession}
  /\ service \in ServiceState

FreshService == [playing |-> FALSE, client |-> NoSession, started |-> FALSE]

ServiceInit ==
  /\ engine = NoSession
  /\ service = FreshService

\* The teardown of a session, as the engine and the service see it.
Silent(svc) == [svc EXCEPT !.playing = FALSE, !.client = NoSession]

\* preparePlayback: drop a session the UI lost track of, start a new engine.
\* The native start replaces whatever engine there was, even when it fails.
PreparePlayback(n, ok) ==
  /\ service' = IF service.playing THEN Silent(service) ELSE service
  /\ engine' = IF ok THEN n ELSE NoSession

\* commitPlayback, with the startForegroundService before it.
CommitPlayback(n) ==
  /\ service' = IF service.playing
                THEN [service EXCEPT !.started = TRUE]
                ELSE [playing |-> TRUE, client |-> n, started |-> TRUE]
  /\ UNCHANGED engine

\* Seeded bug: the failed handshake's engine goes on running.
AbortPlaybackKeepsEngine ==
  /\ service' = Silent(service)
  /\ UNCHANGED engine

\* abortPlayback.
AbortPlayback ==
  /\ engine' = NoSession
  /\ service' = Silent(service)

\* stopPlayback: teardown and stopSelf.
StopPlayback ==
  /\ engine' = NoSession
  /\ service' = FreshService

\* The last binding goes: a service that is not started is destroyed, and
\* onDestroy stops the engine.
Unbound ==
  /\ engine' = IF service.started THEN engine ELSE NoSession
  /\ service' = IF service.started THEN service ELSE FreshService

\* The audio device drops: the native engine stops itself (onErrorAfterClose),
\* the service is not told.
EngineDies ==
  /\ engine # NoSession
  /\ engine' = NoSession
  /\ UNCHANGED service
=============================================================================
