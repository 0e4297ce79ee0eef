--------------------------- MODULE ListeningScreen ---------------------------
(***************************************************************************)
(* The listening screen of the Android app (ListeningScreen.kt) with the   *)
(* service it binds and the server it registers at.                        *)
(*                                                                         *)
(* The screen's callbacks, effects and coroutine continuations run on the  *)
(* main thread, each undisturbed; a connect attempt runs on an IO thread   *)
(* from its first read of the service to the server's answer.  When the    *)
(* screen goes (the activity is recreated, or another screen is shown) its *)
(* state and coroutines go with it, but a blocking call that an IO thread  *)
(* is in runs to its end.                                                  *)
(*                                                                         *)
(* The server is the set of registered sessions.  It reaps none that       *)
(* heartbeats: heartbeats are taken to be answered within the timeout,     *)
(* and HeartbeatLease.tla shows that this keeps a session registered.      *)
(***************************************************************************)
EXTENDS PlaybackService

VARIABLES
  screen,    \* the composition's remembered state
  attempts,  \* connect attempts made
  job,       \* per attempt: the coroutine of connectDisconnect
  leaving,   \* sessions whose httpLeave was launched and has not finished
  registered,\* sessions registered at the server
  mishaps    \* history: which of the rare events below have occurred

vars == <<engine, service, screen, attempts, job, leaving, registered, mishaps>>

\* "hurried": an input was handled before the frame that shows the change it
\* follows; "cancelled": the screen went while it was connecting; "dropped":
\* the audio device went away.
Mishaps == {"hurried", "cancelled", "dropped"}

OnIO == {"stale", "prepare", "leaveThenJoin", "leaveThenFail", "join", "joined", "abort"}
Running == OnIO \cup {"ready", "failed"}
Steps == Running \cup {"none", "done"}

ScreenState ==
  [shown : BOOLEAN, bound : BOOLEAN, connected : BOOLEAN, connecting : BOOLEAN,
   seen : BOOLEAN, client : Sessions \cup {NoSession},
   visible : BOOLEAN, beating : Sessions \cup {NoSession}]

JobState ==
  [at : Steps, stale : Sessions \cup {NoSession}, orphan : BOOLEAN, cancelled : BOOLEAN]

TypeOK ==
  /\ ServiceTypeOK
  /\ screen \in ScreenState
  /\ screen.bound => screen.shown
  /\ attempts \in 0 .. MaxConnects
  /\ job \in [Sessions -> JobState]
  /\ leaving \subseteq Sessions
  /\ registered \subseteq 1 .. attempts
  /\ mishaps \subseteq Mishaps

\* A composition starts disconnected, not yet bound, servicePlaying false.
\* `visible` is whether its activity is started; `beating` is the client id with
\* which the heartbeat loop goes on while it is not.
Blank(shown) == [shown |-> shown, bound |-> FALSE, connected |-> FALSE,
                 connecting |-> FALSE, seen |-> FALSE, client |-> NoSession,
                 visible |-> shown, beating |-> NoSession]

\* An attempt at this step without anything in its locals.
Fresh(step) == [at |-> step, stale |-> NoSession, orphan |-> FALSE, cancelled |-> FALSE]

Init ==
  /\ ServiceInit
  /\ screen = Blank(TRUE)
  /\ attempts = 0
  /\ job = [n \in Sessions |-> Fresh("none")]
  /\ leaving = {}
  /\ registered = {}
  /\ mishaps = {}

\* The screen, if it is bound, has drawn what the service does.  A user whose
\* input waits for that is never hurried.
Drawn == screen.bound => screen.seen = service.playing

Input == mishaps' = mishaps \cup (IF Drawn THEN {} ELSE {"hurried"})

Goes(n, step) == job' = [job EXCEPT ![n].at = step]

\* The coroutine ends, and its locals with it.
Ends(n) == job' = [job EXCEPT ![n] = Fresh("done")]
Launch(id) == leaving' = IF id = NoSession THEN leaving ELSE leaving \cup {id}

-----------------------------------------------------------------------------
\* Life of the composition.

Show ==
  /\ ~screen.shown
  /\ screen' = Blank(TRUE)
  /\ UNCHANGED <<engine, service, attempts, job, leaving, registered, mishaps>>

\* Seeded bug: the binder's callback finds the composition gone.
OnServiceConnectedLate ==
  /\ ~screen.bound
  /\ screen' = [screen EXCEPT !.bound = TRUE]
  /\ UNCHANGED <<engine, service, attempts, job, leaving, registered, mishaps>>

OnServiceConnected ==
  /\ screen.shown /\ ~screen.bound
  /\ screen' = [screen EXCEPT !.bound = TRUE]
  /\ UNCHANGED <<engine, service, attempts, job, leaving, registered, mishaps>>

\* The screen is turned off or another app comes to the front: the activity is
\* stopped.  Its composition stays, and its heartbeat loop goes on, but no frame
\* is drawn until it is back: no effect runs or starts.
Hide ==
  /\ screen.visible
  /\ screen' = [screen EXCEPT !.visible = FALSE,
                              !.beating = IF screen.connected THEN screen.client ELSE NoSession]
  /\ UNCHANGED <<engine, service, attempts, job, leaving, registered, mishaps>>

Reappear ==
  /\ screen.shown /\ ~screen.visible
  /\ screen' = [screen EXCEPT !.visible = TRUE, !.beating = NoSession]
  /\ UNCHANGED <<engine, service, attempts, job, leaving, registered, mishaps>>

\* Seeded bug: a live session is shown as connected under no client id.
AdoptedWithoutId == [screen EXCEPT !.connected = TRUE, !.connecting = FALSE]

\* A fresh composition lands on a session that is still playing.
Adopted ==
  [screen EXCEPT !.client = service.client, !.connected = TRUE, !.connecting = FALSE]

StoppedExternally ==
  [screen EXCEPT !.client = NoSession, !.connected = FALSE, !.connecting = FALSE]

\* Seeded bug: the effect only adopts, it does not notice an external stop.
RecomposeAdoptsOnly ==
  /\ screen.visible /\ screen.bound /\ screen.seen # service.playing
  /\ screen' = [ (IF service.playing /\ ~screen.connected THEN Adopted ELSE screen)
                 EXCEPT !.seen = service.playing]
  /\ UNCHANGED <<engine, service, attempts, job, leaving, registered, mishaps>>

\* The frame after servicePlaying changed: its effect syncs the UI.
Recompose ==
  /\ screen.visible /\ screen.bound /\ screen.seen # service.playing
  /\ screen' = [ (IF service.playing /\ ~screen.connected THEN Adopted
                  ELSE IF ~service.playing /\ screen.connected THEN StoppedExternally
                  ELSE screen) EXCEPT !.seen = service.playing]
  /\ IF ~service.playing /\ screen.connected THEN Launch(screen.client) ELSE UNCHANGED leaving
  /\ UNCHANGED <<engine, service, attempts, job, registered, mishaps>>

\* The composition goes: it unbinds, and its coroutines are cancelled.  The
\* attempts of a service that this destroys are left with a dead instance.
Leave ==
  /\ screen.shown
  /\ screen' = Blank(FALSE)
  /\ Unbound
  /\ mishaps' = mishaps \cup
       (IF \E n \in Sessions : job[n].at \in Running THEN {"cancelled"} ELSE {})
  /\ job' = [n \in Sessions |->
       [job[n] EXCEPT !.cancelled = @ \/ job[n].at \in Running,
                      !.orphan = @ \/ (job[n].at \in Running /\ ~service.started)]]
  /\ UNCHANGED <<attempts, leaving, registered>>

-----------------------------------------------------------------------------
\* The button.

Connect ==
  /\ Input
  /\ screen.visible /\ screen.bound /\ ~screen.connected /\ ~screen.connecting
  /\ attempts < MaxConnects
  /\ attempts' = attempts + 1
  /\ screen' = [screen EXCEPT !.connecting = TRUE]
  /\ job' = [job EXCEPT ![attempts + 1] = Fresh("stale")]
  /\ UNCHANGED <<engine, service, leaving, registered>>

Disconnect ==
  /\ screen.visible /\ screen.connected
  /\ Input
  /\ screen' = StoppedExternally
  /\ StopPlayback
  /\ Launch(screen.client)
  /\ UNCHANGED <<attempts, job, registered>>

\* Stop in the notification, a Bluetooth button: onStartCommand, onPause,
\* onStop.
ExternalStop ==
  /\ Input
  /\ service.playing
  /\ StopPlayback
  /\ job' = [n \in Sessions |->
       [job[n] EXCEPT !.orphan = @ \/ (job[n].at \in Running /\ ~screen.shown)]]
  /\ UNCHANGED <<screen, attempts, leaving, registered>>

-----------------------------------------------------------------------------
\* The connect attempt, on an IO thread.  The instance of the service it
\* holds may have been destroyed: that one is not playing and has no client.

JobReadsStale(n) ==
  /\ job[n].at = "stale"
  /\ job' = [job EXCEPT ![n].at = "prepare",
                        ![n].stale = IF job[n].orphan THEN NoSession ELSE service.client]
  /\ UNCHANGED <<engine, service, screen, attempts, leaving, registered, mishaps>>

JobPrepares(n) ==
  /\ job[n].at = "prepare"
  /\ \E ok \in BOOLEAN :
       /\ IF job[n].orphan
          THEN engine' = (IF ok THEN n ELSE NoSession) /\ UNCHANGED service
          ELSE PreparePlayback(n, ok)
       /\ Goes(n, IF job[n].stale = NoSession THEN (IF ok THEN "join" ELSE "failed")
                  ELSE IF ok THEN "leaveThenJoin" ELSE "leaveThenFail")
  /\ UNCHANGED <<screen, attempts, leaving, registered, mishaps>>

\* httpLeave of the stale session; listenPort == null ends the attempt.
JobLeavesStale(n) ==
  /\ job[n].at \in {"leaveThenJoin", "leaveThenFail"}
  /\ registered' \in {registered, registered \ {job[n].stale}}
  /\ Goes(n, IF job[n].at = "leaveThenJoin" THEN "join" ELSE "failed")
  /\ UNCHANGED <<engine, service, screen, attempts, leaving, mishaps>>

JobJoins(n) ==
  /\ job[n].at = "join"
  /\ registered' = registered \cup {n}
  /\ Goes(n, "joined")
  /\ UNCHANGED <<engine, service, screen, attempts, leaving, mishaps>>

\* httpJoin answers: the IO thread writes the composition's clientId.
JobSucceeds(n) ==
  /\ job[n].at = "joined"
  /\ screen' = IF job[n].cancelled THEN screen ELSE [screen EXCEPT !.client = n]
  /\ Goes(n, "ready")
  /\ UNCHANGED <<engine, service, attempts, leaving, registered, mishaps>>

\* httpJoin fails, before or after the server registered the session.
JobFails(n) ==
  /\ job[n].at \in {"join", "joined"}
  /\ Goes(n, "abort")
  /\ UNCHANGED <<engine, service, screen, attempts, leaving, registered, mishaps>>

JobAborts(n) ==
  /\ job[n].at = "abort"
  /\ IF job[n].orphan THEN engine' = NoSession /\ UNCHANGED service ELSE AbortPlayback
  /\ Goes(n, "failed")
  /\ UNCHANGED <<screen, attempts, leaving, registered, mishaps>>

\* Back on the main thread, if the composition is still there.
JobCommits(n) ==
  /\ job[n].at = "ready" /\ ~job[n].cancelled
  /\ IF screen.client = NoSession
     THEN /\ screen' = [screen EXCEPT !.connecting = FALSE]
          /\ UNCHANGED <<engine, service>>
     ELSE /\ screen' = [screen EXCEPT !.connecting = FALSE, !.connected = TRUE]
          /\ CommitPlayback(screen.client)
  /\ Ends(n)
  /\ UNCHANGED <<attempts, leaving, registered, mishaps>>

\* Seeded bug: a failed attempt leaves the button at "connecting".
JobShowsErrorOnly(n) ==
  /\ job[n].at = "failed" /\ ~job[n].cancelled
  /\ Ends(n)
  /\ UNCHANGED <<engine, service, screen, attempts, leaving, registered, mishaps>>

JobShowsError(n) ==
  /\ job[n].at = "failed" /\ ~job[n].cancelled
  /\ screen' = [screen EXCEPT !.connecting = FALSE]
  /\ Ends(n)
  /\ UNCHANGED <<engine, service, attempts, leaving, registered, mishaps>>

JobCancelled(n) ==
  /\ job[n].at \in {"ready", "failed"} /\ job[n].cancelled
  /\ Ends(n)
  /\ UNCHANGED <<engine, service, screen, attempts, leaving, registered, mishaps>>

JobStep(n) ==
  \/ JobReadsStale(n) \/ JobPrepares(n) \/ JobLeavesStale(n) \/ JobJoins(n)
  \/ JobSucceeds(n) \/ JobFails(n) \/ JobAborts(n)
  \/ JobCommits(n) \/ JobShowsError(n) \/ JobCancelled(n)

-----------------------------------------------------------------------------
\* The server and the network.

LeaveEnds(n) ==
  /\ n \in leaving
  /\ leaving' = leaving \ {n}
  /\ registered' \in {registered, registered \ {n}}
  /\ UNCHANGED <<engine, service, screen, attempts, job, mishaps>>

\* The heartbeat loop of the composition.  A frame starts it anew when the
\* client changes; without frames it keeps the one it has, if any.
Heartbeating(n) ==
  screen.connected /\ n = (IF screen.visible THEN screen.client ELSE screen.beating)

Reap(n) ==
  /\ n \in registered /\ ~Heartbeating(n)
  /\ job[n].at \notin {"joined", "ready"}
  /\ registered' = registered \ {n}
  /\ UNCHANGED <<engine, service, screen, attempts, job, leaving, mishaps>>

DeviceDrops ==
  /\ EngineDies
  /\ mishaps' = mishaps \cup {"dropped"}
  /\ UNCHANGED <<screen, attempts, job, leaving, registered>>

Next ==
  \/ Show \/ OnServiceConnected \/ Recompose \/ Leave \/ Hide \/ Reappear
  \/ Connect \/ Disconnect \/ ExternalStop \/ DeviceDrops
  \/ \E n \in Sessions : JobStep(n) \/ LeaveEnds(n) \/ Reap(n)

\* Frames are drawn while the activity is started, IO threads run, calls end and
\* the reaper sweeps; users do as they like.
Fairness ==
  /\ WF_vars(OnServiceConnected)
  /\ WF_vars(Recompose)
  /\ \A n \in Sessions : WF_vars(JobStep(n)) /\ WF_vars(LeaveEnds(n)) /\ WF_vars(Reap(n))

Spec == Init /\ [][Next]_vars /\ Fairness

-----------------------------------------------------------------------------
Idle == \A n \in Sessions : job[n].at \notin Running
Hurried == "hurried" \in mishaps

\* Once a frame has been drawn, the button shows what the service does, for
\* the session that the service has: nobody is left with live audio under a
\* disconnected screen, or the reverse.
ScreenAgrees ==
  screen.bound /\ Drawn /\ ~Hurried =>
    /\ screen.connected <=> service.playing
    /\ screen.connected => screen.client = service.client

\* The native engine runs exactly for the session the service plays, once no
\* attempt is under way: no engine is orphaned, and no session lost its own.
EngineOwned ==
  Idle /\ mishaps = {} =>
    engine = IF service.playing THEN service.client ELSE NoSession

\* The service has changed since the last frame, and there is none to come.
Undrawn == ~screen.visible /\ ~Drawn

\* A session the service does not have is forgotten by the server: the screen
\* does not keep it alive.  (With the activity stopped it may, for as long as it
\* stays stopped: the effect that sees an external stop waits for a frame, the
\* heartbeat loop does not.)
StaleForgotten ==
  \A n \in Sessions :
    []<>(n \notin registered \/ service.client = n \/ Hurried \/ Undrawn)

\* The button never stays at "connecting", whatever happens.
ConnectingEnds == []<>~screen.connecting

\* The service outlives the screen: as long as it plays, the server streams to
\* its session.
PlayingIsStreamed == service.playing => service.client \in registered
=============================================================================
