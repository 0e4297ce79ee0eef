---------------------------- MODULE CaptureSwitch ----------------------------
(***************************************************************************)
(* Switching the capture device while the server runs (src/audio.rs,       *)
(* start_audio_capture_with_switching and DeviceSwitcher; the requests     *)
(* come from the menu loop of src/tray.rs).                                *)
(*                                                                         *)
(* Three kinds of thread: the tray, which owns the DeviceSwitcher; the     *)
(* switching loop; and one capture thread per iteration of the loop.  The  *)
(* tray sends device names over an mpsc channel and stores the exclusive   *)
(* flag in an atomic; the loop stops a capture thread over that thread's   *)
(* own stop channel and joins it before it spawns the next.                *)
(*                                                                         *)
(* The tray saves its choice to a preferences file that the next launch    *)
(* reads (src/config.rs, main); the process may die at any step, the       *)
(* middle of a save included.                                              *)
(*                                                                         *)
(* A capture backend is abstracted to whether it starts, fails or runs.    *)
(***************************************************************************)
EXTENDS Naturals, Sequences, FiniteSets

CONSTANTS
  Devices,      \* names in the tray's device menu
  SystemDefault,\* no device chosen: None in the code
  EmptyName,    \* the name "" of a toggle made when no device is present
  Windows,      \* cfg(windows): exclusive mode exists
  MaxRequests,  \* bound on the requests of the tray, per launch
  MaxLaunches   \* bound on the launches of the program

ASSUME CaptureAssumption ==
  /\ SystemDefault \notin Devices
  /\ EmptyName \notin Devices \cup {SystemDefault}
  /\ Windows \in BOOLEAN
  /\ MaxRequests \in Nat
  /\ MaxLaunches \in Nat \ {0}

VARIABLES
  tray,       \* the menu loop: step of set_exclusive it is in, chosen device
  requests,   \* requests made since the launch
  exclusive,  \* the AtomicBool of the DeviceSwitcher
  queue,      \* switch channel, oldest first
  loop,       \* the switching loop: where it is, current_device
  spawned,    \* capture threads spawned so far
  thread,     \* per capture thread: where it is, its device, its mode
  stopTx,     \* per capture thread: its stop_tx lives, and has sent
  prefs,      \* the preferences file: a device, at most one mode
  saved,      \* history: the save of the last request was completed
  launches    \* launches so far

fileVars == <<prefs, saved, launches>>
trayVars == <<tray, requests, exclusive, fileVars>>
loopVars == <<loop, spawned, stopTx>>
vars == <<trayVars, queue, loopVars, thread>>

Names == Devices \cup {SystemDefault, EmptyName}
Threads == 1 .. MaxRequests + 1

\* A capture thread opens a backend, runs it, and exits; "parked" is the
\* shared-mode stream of the fallback, which has no stop channel.
Opening == {"exclusiveInit", "fallbackInit", "sharedInit"}
Streaming == {"exclusive", "parked", "shared"}

NotSpawned == [at |-> "none", device |-> SystemDefault, exclusive |-> FALSE]
NoStopTx == [alive |-> FALSE, sent |-> FALSE]

TrayTypeOK ==
  /\ tray \in [at : {"idle", "toggling", "saving", "writing", "closed"}, device : Names]
  /\ requests \in 0 .. MaxRequests
  /\ exclusive \in BOOLEAN
  /\ saved \in BOOLEAN
  /\ launches \in 1 .. MaxLaunches

PrefsTypeOK ==
  /\ prefs \in [device : Names, exclusive : SUBSET BOOLEAN]
  /\ Cardinality(prefs.exclusive) <= 1

LoopTypeOK ==
  /\ queue \in Seq(Devices \cup {EmptyName})
  /\ loop \in [at : {"spawn", "recv", "join", "lastJoin", "done"}, device : Names]
  /\ spawned \in 0 .. MaxRequests + 1

ThreadTypeOK ==
  /\ thread \in [Threads -> [at : {"none", "exited"} \cup Opening \cup Streaming,
                             device : Names, exclusive : BOOLEAN]]
  /\ stopTx \in [Threads -> [alive : BOOLEAN, sent : BOOLEAN]]

TypeOK == TrayTypeOK /\ PrefsTypeOK /\ LoopTypeOK /\ ThreadTypeOK

\* UserPrefs::default: no file, an empty one, or one that cannot be parsed.
NoPrefs == [device |-> SystemDefault, exclusive |-> {}]

\* The first launch: main hands the same initial device (--device or none) and
\* the configured flag to the tray and the loop.
Init ==
  /\ \E d \in Devices \cup {SystemDefault} :
       /\ tray = [at |-> "idle", device |-> d]
       /\ loop = [at |-> "spawn", device |-> d]
  /\ exclusive \in BOOLEAN
  /\ requests = 0
  /\ queue = <<>>
  /\ spawned = 0
  /\ thread = [t \in Threads |-> NotSpawned]
  /\ stopTx = [t \in Threads |-> NoStopTx]
  /\ prefs = NoPrefs
  /\ saved = FALSE
  /\ launches = 1

-----------------------------------------------------------------------------
\* Menu events of the tray.  Each ends by saving the preferences.

MayRequest == tray.at = "idle" /\ requests < MaxRequests

Request == requests' = requests + 1 /\ saved' = FALSE

\* switch_device: one send on the channel.
SelectDevice(d) ==
  /\ MayRequest /\ Request
  /\ tray' = [at |-> "saving", device |-> d]
  /\ queue' = Append(queue, d)
  /\ UNCHANGED <<exclusive, prefs, launches, loopVars, thread>>

\* Seeded bug: a toggle with no device chosen sends None.
ToggleDeviceNone == {tray.device}

\* The device a toggle restarts: the selected one, else the default input
\* device, else "".
ToggleDevice ==
  IF tray.device = SystemDefault THEN Devices \cup {EmptyName} ELSE {tray.device}

\* set_exclusive, first statement: store the flag.
ToggleStore ==
  /\ MayRequest /\ Request
  /\ exclusive' = ~exclusive
  /\ tray' \in [at : {"toggling"}, device : ToggleDevice]
  /\ UNCHANGED <<queue, prefs, launches, loopVars, thread>>

\* Seeded bug: no restart for a toggle that keeps the device.
ToggleSendUnlessCurrent ==
  /\ tray.at = "toggling"
  /\ queue' = IF loop.device = tray.device THEN queue ELSE Append(queue, tray.device)
  /\ tray' = [tray EXCEPT !.at = "saving"]
  /\ UNCHANGED <<requests, exclusive, fileVars, loopVars, thread>>

\* set_exclusive, second statement: send the device.
ToggleSend ==
  /\ tray.at = "toggling"
  /\ queue' = Append(queue, tray.device)
  /\ tray' = [tray EXCEPT !.at = "saving"]
  /\ UNCHANGED <<requests, exclusive, fileVars, loopVars, thread>>

SaveGoes(from, to) ==
  /\ tray.at \in from
  /\ tray' = [tray EXCEPT !.at = to]
  /\ UNCHANGED <<requests, exclusive, launches, queue, loopVars, thread>>

\* UserPrefs::save, the open of fs::write: the old contents are gone.
SaveTruncates == SaveGoes({"saving"}, "writing") /\ prefs' = NoPrefs /\ UNCHANGED saved

\* Seeded bug: only the device is saved.
ChosenDevice == [device |-> tray.device, exclusive |-> {}]

Chosen == [device |-> tray.device, exclusive |-> {exclusive}]

SaveWrites == SaveGoes({"writing"}, "idle") /\ prefs' = Chosen /\ saved' = TRUE

\* No configuration directory, or the open or the write failed: only logged.
SaveFails == SaveGoes({"saving", "writing"}, "idle") /\ UNCHANGED <<prefs, saved>>

\* The tray ends (it failed, or Quit): the DeviceSwitcher is dropped.
TrayCloses ==
  /\ tray.at = "idle"
  /\ tray' = [tray EXCEPT !.at = "closed"]
  /\ UNCHANGED <<requests, exclusive, fileVars, queue, loopVars, thread>>

-----------------------------------------------------------------------------
\* The initial device: --device, else the saved one if it is still plugged in.
InitialDevice(cli, plugged) ==
  IF cli # SystemDefault THEN cli
  ELSE IF prefs.device \in plugged THEN prefs.device ELSE SystemDefault

\* The process ended, in whatever state it was, and is launched again; what
\* config.toml says of the mode may have been edited.
Relaunch(cli, plugged) ==
  /\ launches < MaxLaunches
  /\ launches' = launches + 1
  /\ tray' = [at |-> "idle", device |-> InitialDevice(cli, plugged)]
  /\ loop' = [at |-> "spawn", device |-> InitialDevice(cli, plugged)]
  /\ exclusive' \in IF prefs.exclusive = {} THEN BOOLEAN ELSE prefs.exclusive
  /\ saved' = FALSE
  /\ requests' = 0
  /\ queue' = <<>>
  /\ spawned' = 0
  /\ thread' = [t \in Threads |-> NotSpawned]
  /\ stopTx' = [t \in Threads |-> NoStopTx]
  /\ UNCHANGED prefs

-----------------------------------------------------------------------------
\* The switching loop.  The thread it spawned last is thread[spawned].

LoopSpawn ==
  /\ loop.at = "spawn"
  /\ spawned' = spawned + 1
  /\ thread' = [thread EXCEPT ![spawned + 1] =
       [at |-> IF Windows /\ exclusive THEN "exclusiveInit" ELSE "sharedInit",
        device |-> loop.device, exclusive |-> exclusive]]
  /\ stopTx' = [stopTx EXCEPT ![spawned + 1] = [alive |-> TRUE, sent |-> FALSE]]
  /\ loop' = [loop EXCEPT !.at = "recv"]
  /\ UNCHANGED <<trayVars, queue>>

\* A request arrives: stop the current thread.
LoopRecv ==
  /\ loop.at = "recv" /\ queue # <<>>
  /\ loop' = [at |-> "join", device |-> Head(queue)]
  /\ queue' = Tail(queue)
  /\ stopTx' = [stopTx EXCEPT ![spawned].sent = TRUE]
  /\ UNCHANGED <<trayVars, spawned, thread>>

\* Seeded bug: the old thread is told to stop but not joined.
JoinNothing == loop.at = "join"

JoinReturns == loop.at \in {"join", "lastJoin"} /\ thread[spawned].at = "exited"

\* The iteration ends with the join: its stop_tx is dropped.
LoopJoined ==
  /\ JoinReturns
  /\ loop' = [loop EXCEPT !.at = IF loop.at = "join" THEN "spawn" ELSE "done"]
  /\ stopTx' = [stopTx EXCEPT ![spawned].alive = FALSE]
  /\ UNCHANGED <<trayVars, queue, spawned, thread>>

\* Seeded bug: stop_tx is dropped before the last join.
LoopClosedDropsStop ==
  /\ loop.at = "recv" /\ queue = <<>> /\ tray.at = "closed"
  /\ loop' = [loop EXCEPT !.at = "lastJoin"]
  /\ stopTx' = [stopTx EXCEPT ![spawned].alive = FALSE]
  /\ UNCHANGED <<trayVars, queue, spawned, thread>>

\* The channel is closed: let the capture run.  stop_tx is still in scope.
LoopClosed ==
  /\ loop.at = "recv" /\ queue = <<>> /\ tray.at = "closed"
  /\ loop' = [loop EXCEPT !.at = "lastJoin"]
  /\ UNCHANGED <<trayVars, queue, spawned, stopTx, thread>>

LoopStep == LoopSpawn \/ LoopRecv \/ LoopJoined \/ LoopClosed

-----------------------------------------------------------------------------
\* Capture threads.

Moves(t, from, to) ==
  /\ thread[t].at \in from
  /\ thread' = [thread EXCEPT ![t].at = to]
  /\ UNCHANGED <<trayVars, queue, loopVars>>

\* start_exclusive_capture gets the device; "" names none.
ExclusiveStarts(t) ==
  /\ thread[t].device # EmptyName
  /\ Moves(t, {"exclusiveInit"}, "exclusive")

\* It fails to start, or an error ends it later: its stop channel is gone and
\* shared mode is tried without one.
ExclusiveFails(t) == Moves(t, {"exclusiveInit", "exclusive"}, "fallbackInit")

\* The poll of stop_rx (try_recv().is_ok()), at least every 100 ms: only a
\* message stops it, a dropped sender does not.
ExclusiveStops(t) == stopTx[t].sent /\ Moves(t, {"exclusive"}, "exited")

\* Fallback with stop_rx: None; once started it parks and nothing unparks it.
FallbackStarts(t) == Moves(t, {"fallbackInit"}, "parked")

SharedStarts(t) == Moves(t, {"sharedInit"}, "shared")

\* No such device, or the stream cannot be built: logged, never retried.
SharedFails(t) == Moves(t, {"fallbackInit", "sharedInit"}, "exited")

\* stop_rx.recv() returns: on a message, and also on a dropped sender.
StopReceived(t) == stopTx[t].sent \/ ~stopTx[t].alive

\* Seeded bug: the loop on stop_rx goes on after a stop.
SharedStopsUnnoticed(t) == StopReceived(t) /\ Moves(t, {"shared"}, "shared")

SharedStops(t) == StopReceived(t) /\ Moves(t, {"shared"}, "exited")

CaptureStep(t) ==
  \/ ExclusiveStarts(t) \/ ExclusiveFails(t) \/ ExclusiveStops(t)
  \/ FallbackStarts(t) \/ SharedStarts(t) \/ SharedFails(t) \/ SharedStops(t)

-----------------------------------------------------------------------------
Next ==
  \/ \E d \in Devices : SelectDevice(d)
  \/ ToggleStore \/ ToggleSend \/ TrayCloses
  \/ SaveTruncates \/ SaveWrites \/ SaveFails
  \/ \E cli \in Devices \cup {SystemDefault}, plugged \in SUBSET Devices :
       Relaunch(cli, plugged)
  \/ LoopStep
  \/ \E t \in Threads : CaptureStep(t)

\* The threads are scheduled; the user need not do anything, but a menu
\* handler that began ends.
Fairness ==
  /\ WF_vars(ToggleSend)
  /\ WF_vars(SaveTruncates \/ SaveWrites \/ SaveFails)
  /\ WF_vars(LoopStep)
  /\ \A t \in Threads : WF_vars(CaptureStep(t))

Spec == Init /\ [][Next]_vars /\ Fairness

-----------------------------------------------------------------------------
Alive(t) == thread[t].at \in Opening \cup Streaming

\* Two capture threads never run at once: their chunks would interleave in the
\* one broadcast channel that every listener reads.
AtMostOneCapture == \A t, u \in Threads : Alive(t) /\ Alive(u) => t = u

\* With every request served, the capture thread was started for the device
\* and the mode the tray shows, whatever requests crossed:
\* set_exclusive stores the flag before it sends, and the loop reads the flag
\* after it received.
Settled == loop.at = "recv" /\ queue = <<>> /\ tray.at # "toggling"

SettledAgrees ==
  Settled => /\ thread[spawned].device = tray.device
             /\ thread[spawned].exclusive = exclusive

\* A running stream ends only while the loop serves a request for another: the
\* stop_tx of its thread neither sends nor is dropped before, in particular not
\* when the tray has closed the switch channel.  (An exclusive stream may fail
\* over to shared mode.)
RunsUntilSwitched ==
  [][\A t \in Threads :
       thread[t].at \in Streaming /\ thread'[t].at = "exited"
       => loop.at = "join" /\ t = spawned]_thread

\* A launch starts from what the tray showed when the process ended, if that
\* was saved, the device is still there and no --device overrides it: neither
\* the device nor the mode is lost or paired with an older one.
LaunchRemembers ==
  [][\A plugged \in SUBSET Devices :
       /\ Relaunch(SystemDefault, plugged)
       /\ saved /\ tray.device \in plugged
       => /\ tray'.device = tray.device /\ loop'.device = tray.device
          /\ exclusive' = exclusive]_vars

Pending == queue # <<>> \/ loop.at = "join"
Parked == \E t \in Threads : thread[t].at = "parked"

\* Every request is served (the old thread joined, the channel drained), unless
\* a capture is a parked fallback.
ServedUnlessParked == Pending ~> (~Pending \/ Parked)

\* What switch_device's documentation promises of every request: the current
\* stream stops and a new one starts.
SwitchServed == Pending ~> ~Pending
=============================================================================
