------------------------ MODULE CaptureSwitchProofs ------------------------
(***************************************************************************)
(* Switching is safe for any number of devices, requests and launches, on  *)
(* any platform: the conjuncts of SwitchInv, action by action.             *)
(***************************************************************************)
EXTENDS CaptureSwitch, FiniteSetTheorems, TLAPS

\* What makes the safety properties inductive: each request is a capture thread
\* that was spawned, or where it is on its way to that;
OneIf(b) == IF b THEN 1 ELSE 0

RequestsAccounted ==
  requests + 1 = spawned + Len(queue) + OneIf(tray.at = "toggling")
                 + OneIf(loop.at \in {"spawn", "join"})

\* only the last thread spawned may run, and not while the next is spawned;
OnlyLastRuns ==
  \A t \in Threads :
    /\ Alive(t) => t = spawned /\ loop.at # "spawn"
    /\ t > spawned => thread[t].at = "none"

\* the last thread's stop_tx lives as long as it runs, and has sent only to join;
RunsUntold ==
  \A t \in Threads : Alive(t) =>
    stopTx[t].alive /\ (stopTx[t].sent => loop.at = "join")

\* the last device requested, on the channel or served, is the one shown, and
\* a change of mode has its request on the way;
LastRequested == IF queue = <<>> THEN loop.device ELSE queue[Len(queue)]

RequestsAgree ==
  /\ tray.at # "toggling" => LastRequested = tray.device
  /\ loop.at = "recv" =>
       /\ spawned \in Threads /\ thread[spawned].device = loop.device
       /\ \/ thread[spawned].exclusive = exclusive
          \/ queue # <<>> \/ tray.at = "toggling"

\* a toggle under way has a device to send;
ToggleChosen == tray.at = "toggling" => tray.device # SystemDefault

\* and what was saved is what is shown, until the next request.
SavedIsChosen == saved => prefs = Chosen /\ tray.at \in {"idle", "closed"}

SwitchInv ==
  /\ TypeOK /\ RequestsAccounted /\ OnlyLastRuns /\ RunsUntold /\ RequestsAgree
  /\ ToggleChosen /\ SavedIsChosen

-----------------------------------------------------------------------------
USE DEF Threads, Names, Opening, Streaming

LEMMA OneModeAtMost ==
  ASSUME NEW modes, modes = {} \/ \E b : modes = {b}
  PROVE  Cardinality(modes) <= 1
<1>1. CASE modes = {}
  <2>1. Cardinality(modes) = 0
    BY <1>1, FS_EmptySet
  <2> QED BY <2>1
<1>2. CASE \E b : modes = {b}
  <2>1. Cardinality(modes) = 1
    BY <1>2, FS_Singleton
  <2> QED BY <2>1
<1> QED BY <1>1, <1>2

LEMMA InvInit == Init => SwitchInv
<1> SUFFICES ASSUME Init PROVE SwitchInv
  OBVIOUS
<1> USE CaptureAssumption
<1>1. TrayTypeOK /\ LoopTypeOK
  <2>1. PICK d \in Devices \cup {SystemDefault} :
          tray = [at |-> "idle", device |-> d] /\ loop = [at |-> "spawn", device |-> d]
    BY DEF Init
  <2>2. tray \in [at : {"idle", "toggling", "saving", "writing", "closed"}, device : Names]
    BY <2>1
  <2>3. loop \in [at : {"spawn", "recv", "join", "lastJoin", "done"}, device : Names]
    BY <2>1
  <2>4. requests \in 0 .. MaxRequests
    BY DEF Init
  <2>7. exclusive \in BOOLEAN /\ saved \in BOOLEAN
    BY Zenon DEF Init
  <2>5. launches \in 1 .. MaxLaunches
    BY DEF Init
  <2>6. queue \in Seq(Devices \cup {EmptyName}) /\ spawned \in 0 .. MaxRequests + 1
    BY DEF Init
  <2> QED BY <2>2, <2>3, <2>4, <2>5, <2>6, <2>7 DEF TrayTypeOK, LoopTypeOK
<1>2. PrefsTypeOK
  <2>1. prefs.exclusive = {}
    BY DEF Init, NoPrefs
  <2>2. Cardinality(prefs.exclusive) <= 1
    BY <2>1, OneModeAtMost
  <2> QED BY <2>2 DEF Init, PrefsTypeOK, NoPrefs
<1>3. ThreadTypeOK
  BY DEF Init, ThreadTypeOK, NotSpawned, NoStopTx
<1>4. RequestsAccounted
  BY DEF Init, RequestsAccounted, OneIf
<1>5. OnlyLastRuns /\ RunsUntold /\ RequestsAgree /\ ToggleChosen /\ SavedIsChosen
  BY DEF Init, NotSpawned, NoStopTx, OnlyLastRuns, RunsUntold, Alive, RequestsAgree, LastRequested, ToggleChosen,
     SavedIsChosen
<1> QED BY <1>1, <1>2, <1>3, <1>4, <1>5 DEF SwitchInv, TypeOK

-----------------------------------------------------------------------------
\* The tray.  It leaves the loop and the threads alone.

LEMMA LastAppended ==
  ASSUME NEW S, NEW q \in Seq(S), NEW x \in S
  PROVE  /\ Append(q, x) \in Seq(S)
         /\ Append(q, x) # <<>>
         /\ Len(Append(q, x)) = Len(q) + 1
         /\ Append(q, x)[Len(Append(q, x))] = x
OBVIOUS

LEMMA TraySelects ==
  ASSUME SwitchInv, NEW d \in Devices, SelectDevice(d)
  PROVE  SwitchInv'
<1> USE CaptureAssumption
<1> USE DEF SelectDevice, MayRequest, Request, SwitchInv, TypeOK, loopVars
<1>1. /\ queue' \in Seq(Devices \cup {EmptyName}) /\ queue' # <<>>
      /\ Len(queue') = Len(queue) + 1 /\ queue'[Len(queue')] = d
  <2>1. d \in Devices \cup {EmptyName} /\ queue \in Seq(Devices \cup {EmptyName})
    BY DEF LoopTypeOK
  <2> QED BY <2>1, LastAppended
<1>2. TrayTypeOK'
  <2>1. tray' \in [at : {"idle", "toggling", "saving", "writing", "closed"}, device : Names]
    OBVIOUS
  <2>2. requests' \in 0 .. MaxRequests
    BY DEF TrayTypeOK
  <2> QED BY <2>1, <2>2 DEF TrayTypeOK
<1>3. PrefsTypeOK' /\ LoopTypeOK' /\ ThreadTypeOK'
  BY <1>1 DEF PrefsTypeOK, LoopTypeOK, ThreadTypeOK
<1>4. RequestsAccounted'
  BY <1>1 DEF RequestsAccounted, OneIf, TrayTypeOK, LoopTypeOK
<1>5. OnlyLastRuns' /\ RunsUntold' /\ RequestsAgree' /\ ToggleChosen' /\ SavedIsChosen'
  BY <1>1 DEF OnlyLastRuns, RunsUntold, Alive, RequestsAgree, LastRequested, ToggleChosen, SavedIsChosen
<1> QED BY <1>2, <1>3, <1>4, <1>5

LEMMA TrayStores ==
  ASSUME SwitchInv, ToggleStore
  PROVE  SwitchInv'
<1> USE CaptureAssumption
<1> USE DEF ToggleStore, MayRequest, Request, SwitchInv, TypeOK, loopVars
<1>1. tray'.at = "toggling" /\ tray' = [at |-> "toggling", device |-> tray'.device]
  OBVIOUS
<1>2. tray'.device \in Devices \cup {EmptyName}
  BY DEF ToggleDevice, TrayTypeOK
<1>3. TrayTypeOK'
  <2>1. tray' \in [at : {"idle", "toggling", "saving", "writing", "closed"}, device : Names]
    BY <1>1, <1>2
  <2>2. requests' \in 0 .. MaxRequests
    BY DEF TrayTypeOK
  <2> QED BY <2>1, <2>2 DEF TrayTypeOK
<1>4. PrefsTypeOK' /\ LoopTypeOK' /\ ThreadTypeOK'
  BY DEF PrefsTypeOK, LoopTypeOK, ThreadTypeOK
<1>5. RequestsAccounted'
  BY <1>1 DEF RequestsAccounted, OneIf, TrayTypeOK, LoopTypeOK
<1>6. OnlyLastRuns' /\ RunsUntold' /\ RequestsAgree' /\ ToggleChosen' /\ SavedIsChosen'
  BY <1>1, <1>2 DEF OnlyLastRuns, RunsUntold, Alive, RequestsAgree, ToggleChosen, SavedIsChosen
<1> QED BY <1>3, <1>4, <1>5, <1>6

LEMMA TraySends ==
  ASSUME SwitchInv, ToggleSend
  PROVE  SwitchInv'
<1> USE CaptureAssumption
<1> USE DEF ToggleSend, SwitchInv, TypeOK, loopVars, fileVars
<1>1. /\ queue' \in Seq(Devices \cup {EmptyName}) /\ queue' # <<>>
      /\ Len(queue') = Len(queue) + 1 /\ queue'[Len(queue')] = tray.device
  <2>1. tray.device \in Devices \cup {EmptyName} /\ queue \in Seq(Devices \cup {EmptyName})
    BY DEF LoopTypeOK, TrayTypeOK, ToggleChosen
  <2>2. queue' = Append(queue, tray.device)
    OBVIOUS
  <2> QED BY <2>1, <2>2, LastAppended
<1>2. tray' = [at |-> "saving", device |-> tray.device]
  BY DEF TrayTypeOK
<1>3. TrayTypeOK'
  BY <1>2 DEF TrayTypeOK
<1>4. PrefsTypeOK' /\ LoopTypeOK' /\ ThreadTypeOK'
  BY <1>1 DEF PrefsTypeOK, LoopTypeOK, ThreadTypeOK
<1>5. RequestsAccounted'
  BY <1>1, <1>2 DEF RequestsAccounted, OneIf, TrayTypeOK, LoopTypeOK
<1>6. OnlyLastRuns' /\ RunsUntold' /\ RequestsAgree' /\ ToggleChosen'
  BY <1>1, <1>2 DEF OnlyLastRuns, RunsUntold, Alive, RequestsAgree, LastRequested, ToggleChosen
<1>7. SavedIsChosen'
  BY <1>2 DEF SavedIsChosen, Chosen
<1> QED BY <1>3, <1>4, <1>5, <1>6, <1>7

\* Saving and closing: the tray keeps its device and is not toggling after.
LEMMA TrayGoesOn ==
  ASSUME SwitchInv, NEW to \in {"writing", "idle", "closed"},
         tray.at \in {"saving", "writing", "idle"},
         tray' = [tray EXCEPT !.at = to],
         UNCHANGED <<requests, exclusive, launches, queue, loopVars, thread>>,
         saved' \in BOOLEAN, PrefsTypeOK', SavedIsChosen'
  PROVE  SwitchInv'
<1> USE CaptureAssumption
<1> USE DEF SwitchInv, TypeOK, loopVars
<1>1. tray' = [at |-> to, device |-> tray.device] /\ tray'.at = to
  BY DEF TrayTypeOK
<1>2. TrayTypeOK'
  BY <1>1 DEF TrayTypeOK
<1>3. LoopTypeOK' /\ ThreadTypeOK'
  BY DEF LoopTypeOK, ThreadTypeOK
<1>4. RequestsAccounted'
  BY <1>1 DEF RequestsAccounted, OneIf
<1>5. OnlyLastRuns' /\ RunsUntold' /\ RequestsAgree' /\ ToggleChosen'
  BY <1>1 DEF OnlyLastRuns, RunsUntold, Alive, RequestsAgree, LastRequested, ToggleChosen
<1> QED BY <1>2, <1>3, <1>4, <1>5

LEMMA TraySaves ==
  ASSUME SwitchInv, SaveTruncates \/ SaveWrites \/ SaveFails \/ TrayCloses
  PROVE  SwitchInv'
<1> USE CaptureAssumption
<1> USE DEF SwitchInv, TypeOK, SaveGoes, SaveTruncates, SaveWrites, SaveFails, TrayCloses
<1>1. saved' \in BOOLEAN
  BY DEF TrayTypeOK, fileVars
<1>2. tray'.device = tray.device
  BY DEF TrayTypeOK
<1>3. PrefsTypeOK'
  <2>1. CASE SaveTruncates
    <3>1. prefs'.exclusive = {} /\ prefs' = [device |-> SystemDefault, exclusive |-> {}]
      BY <2>1 DEF NoPrefs
    <3>2. Cardinality(prefs'.exclusive) <= 1
      BY <3>1, OneModeAtMost
    <3> QED BY <3>1, <3>2 DEF PrefsTypeOK
  <2>2. CASE SaveWrites
    <3>1. prefs'.exclusive = {exclusive} /\ prefs' = [device |-> tray.device, exclusive |-> {exclusive}]
      BY <2>2 DEF Chosen
    <3>2. Cardinality(prefs'.exclusive) <= 1
      BY <3>1, OneModeAtMost
    <3> QED BY <3>1, <3>2 DEF PrefsTypeOK, TrayTypeOK
  <2>3. CASE SaveFails \/ TrayCloses
    BY <2>3 DEF PrefsTypeOK, fileVars
  <2> QED BY <2>1, <2>2, <2>3
<1>4. SavedIsChosen'
  <2>1. CASE SaveTruncates
    BY <2>1 DEF SavedIsChosen
  <2>2. CASE SaveWrites
    BY <1>2, <2>2 DEF SavedIsChosen, Chosen, TrayTypeOK
  <2>3. CASE SaveFails
    BY <2>3 DEF SavedIsChosen
  <2>4. CASE TrayCloses
    BY <1>2, <2>4 DEF SavedIsChosen, Chosen, fileVars, TrayTypeOK
  <2> QED BY <2>1, <2>2, <2>3, <2>4
<1>5. CASE SaveTruncates
  BY <1>1, <1>3, <1>4, <1>5, TrayGoesOn
<1>6. CASE SaveWrites
  BY <1>1, <1>3, <1>4, <1>6, TrayGoesOn
<1>7. CASE SaveFails
  BY <1>1, <1>3, <1>4, <1>7, TrayGoesOn
<1>8. CASE TrayCloses
  BY <1>1, <1>3, <1>4, <1>8, TrayGoesOn DEF fileVars
<1> QED BY <1>5, <1>6, <1>7, <1>8

-----------------------------------------------------------------------------
\* A new launch starts with nothing requested and nothing running.
LEMMA Relaunches ==
  ASSUME SwitchInv, NEW cli \in Devices \cup {SystemDefault},
         NEW plugged \in SUBSET Devices, Relaunch(cli, plugged)
  PROVE  SwitchInv'
<1> USE CaptureAssumption
<1> USE DEF Relaunch, SwitchInv, TypeOK
<1>1. PICK d \in Devices \cup {SystemDefault} :
        tray' = [at |-> "idle", device |-> d] /\ loop' = [at |-> "spawn", device |-> d]
  BY DEF InitialDevice
<1>2. exclusive' \in BOOLEAN
  BY DEF PrefsTypeOK
<1>3. TrayTypeOK'
  <2>1. tray' \in [at : {"idle", "toggling", "saving", "writing", "closed"}, device : Names]
    BY <1>1
  <2>2. requests' \in 0 .. MaxRequests
    OBVIOUS
  <2>3. launches' \in 1 .. MaxLaunches
    BY DEF TrayTypeOK
  <2> QED BY <1>2, <2>1, <2>2, <2>3 DEF TrayTypeOK
<1>4. LoopTypeOK'
  <2>1. loop' \in [at : {"spawn", "recv", "join", "lastJoin", "done"}, device : Names]
    BY <1>1
  <2>2. queue' \in Seq(Devices \cup {EmptyName}) /\ spawned' \in 0 .. MaxRequests + 1
    OBVIOUS
  <2> QED BY <2>1, <2>2 DEF LoopTypeOK
<1>5. PrefsTypeOK' /\ ThreadTypeOK'
  BY DEF PrefsTypeOK, ThreadTypeOK, NotSpawned, NoStopTx
<1>6. RequestsAccounted'
  BY <1>1 DEF RequestsAccounted, OneIf
<1>7. OnlyLastRuns' /\ RunsUntold' /\ RequestsAgree' /\ ToggleChosen' /\ SavedIsChosen'
  BY <1>1 DEF NotSpawned, NoStopTx, OnlyLastRuns, RunsUntold, Alive, RequestsAgree, LastRequested, ToggleChosen,
     SavedIsChosen
<1> QED BY <1>3, <1>4, <1>5, <1>6, <1>7

-----------------------------------------------------------------------------
\* The loop.  It leaves the tray and its file alone.

LEMMA LoopSpawns ==
  ASSUME SwitchInv, LoopSpawn
  PROVE  SwitchInv'
<1> USE CaptureAssumption
<1> USE DEF LoopSpawn, SwitchInv, TypeOK, trayVars, fileVars
<1>1. spawned + 1 \in Threads /\ spawned' = spawned + 1 /\ spawned \in Nat
  BY DEF RequestsAccounted, OneIf, TrayTypeOK, LoopTypeOK
<1>2. loop' = [at |-> "recv", device |-> loop.device] /\ loop'.at = "recv"
  BY DEF LoopTypeOK
<1>3. PICK at \in Opening : thread' = [thread EXCEPT ![spawned + 1] =
        [at |-> at, device |-> loop.device, exclusive |-> exclusive]]
  OBVIOUS
<1>4. TrayTypeOK' /\ PrefsTypeOK'
  BY DEF TrayTypeOK, PrefsTypeOK
<1>5. LoopTypeOK'
  BY <1>1, <1>2 DEF LoopTypeOK
<1>6. ThreadTypeOK'
  <2>2. loop.device \in Names /\ exclusive \in BOOLEAN
    BY DEF LoopTypeOK, TrayTypeOK
  <2>1. [at |-> at, device |-> loop.device, exclusive |-> exclusive]
          \in [at : {"none", "exited"} \cup Opening \cup Streaming,
               device : Names, exclusive : BOOLEAN]
    BY <2>2
  <2>3. ThreadTypeOK /\ stopTx' = [stopTx EXCEPT ![spawned + 1] = [alive |-> TRUE, sent |-> FALSE]]
    OBVIOUS
  <2> HIDE DEF LoopSpawn, SwitchInv, TypeOK
  <2> QED BY <1>3, <2>1, <2>3 DEF ThreadTypeOK
<1>7. RequestsAccounted'
  BY <1>1, <1>2 DEF RequestsAccounted, OneIf, TrayTypeOK, LoopTypeOK
<1>8. OnlyLastRuns' /\ RunsUntold'
  BY <1>1, <1>2, <1>3 DEF OnlyLastRuns, RunsUntold, Alive, ThreadTypeOK
<1>9. RequestsAgree' /\ ToggleChosen' /\ SavedIsChosen'
  BY <1>1, <1>2, <1>3 DEF RequestsAgree, LastRequested, ToggleChosen, SavedIsChosen, Chosen,
     ThreadTypeOK
<1> QED BY <1>4, <1>5, <1>6, <1>7, <1>8, <1>9

\* The head of a channel is served, its last element stays the last.
LEMMA Received ==
  ASSUME NEW S, NEW q \in Seq(S), q # <<>>
  PROVE  /\ Head(q) \in S
         /\ Tail(q) \in Seq(S)
         /\ Len(Tail(q)) = Len(q) - 1
         /\ Tail(q) = <<>> => q[Len(q)] = Head(q)
         /\ Tail(q) # <<>> => Tail(q)[Len(Tail(q))] = q[Len(q)]
<1>1. Len(q) \in Nat \ {0} /\ Head(q) = q[1] /\ q[1] \in S
  OBVIOUS
<1>2. Tail(q) \in Seq(S) /\ Len(Tail(q)) = Len(q) - 1
  OBVIOUS
<1>3. Tail(q) = <<>> => Len(q) = 1
  BY <1>1, <1>2
<1>4. ASSUME Tail(q) # <<>> PROVE Tail(q)[Len(Tail(q))] = q[Len(q)]
  <2>1. Len(Tail(q)) \in 1 .. Len(Tail(q))
    BY <1>1, <1>2, <1>4
  <2>2. Tail(q)[Len(Tail(q))] = q[Len(Tail(q)) + 1]
    BY <1>1, <1>2, <2>1
  <2>3. Len(Tail(q)) + 1 = Len(q)
    BY <1>1, <1>2
  <2> QED BY <2>2, <2>3
<1> QED BY <1>1, <1>2, <1>3, <1>4

LEMMA LoopReceives ==
  ASSUME SwitchInv, LoopRecv
  PROVE  SwitchInv'
<1> USE CaptureAssumption
<1> USE DEF LoopRecv, SwitchInv, TypeOK, trayVars, fileVars
<1>1. /\ loop'.device \in Devices \cup {EmptyName} /\ loop'.device = Head(queue)
      /\ queue' \in Seq(Devices \cup {EmptyName}) /\ Len(queue') = Len(queue) - 1
      /\ queue' = <<>> => queue[Len(queue)] = Head(queue)
      /\ queue' # <<>> => queue'[Len(queue')] = queue[Len(queue)]
  BY Received DEF LoopTypeOK
<1>2. loop' = [at |-> "join", device |-> loop'.device] /\ loop'.at = "join"
  OBVIOUS
<1>3. TrayTypeOK' /\ PrefsTypeOK'
  BY DEF TrayTypeOK, PrefsTypeOK
<1>4. LoopTypeOK'
  BY <1>1, <1>2 DEF LoopTypeOK
<1>5. ThreadTypeOK'
  BY DEF ThreadTypeOK
<1>6. RequestsAccounted'
  BY <1>1, <1>2 DEF RequestsAccounted, OneIf, TrayTypeOK, LoopTypeOK
<1>7. OnlyLastRuns' /\ RunsUntold'
  BY <1>2 DEF OnlyLastRuns, RunsUntold, Alive
<1>8. RequestsAgree' /\ ToggleChosen' /\ SavedIsChosen'
  BY <1>1, <1>2 DEF RequestsAgree, LastRequested, ToggleChosen, SavedIsChosen, Chosen
<1> QED BY <1>3, <1>4, <1>5, <1>6, <1>7, <1>8

LEMMA StopTxDropped ==
  ASSUME ThreadTypeOK
  PROVE  [stopTx EXCEPT ![spawned].alive = FALSE]
           \in [Threads -> [alive : BOOLEAN, sent : BOOLEAN]]
<1> DEFINE tx == [stopTx EXCEPT ![spawned].alive = FALSE]
<1>1. DOMAIN tx = Threads /\ tx = [t \in Threads |-> tx[t]]
  BY DEF ThreadTypeOK
<1>2. ASSUME NEW t \in Threads PROVE tx[t] \in [alive : BOOLEAN, sent : BOOLEAN]
  BY DEF ThreadTypeOK
<1> HIDE DEF tx
<1>3. tx \in [Threads -> [alive : BOOLEAN, sent : BOOLEAN]]
  BY <1>1, <1>2
<1> QED BY <1>3 DEF tx

\* The next thread is spawned only after the last one exited.
LEMMA LoopMovesOn ==
  ASSUME SwitchInv, LoopJoined \/ LoopClosed
  PROVE  SwitchInv'
<1> USE CaptureAssumption
<1> USE DEF LoopJoined, LoopClosed, JoinReturns, SwitchInv, TypeOK, trayVars, fileVars
<1>1. UNCHANGED <<tray, requests, exclusive, prefs, saved, launches, queue, spawned,
                  thread>>
  OBVIOUS
<1>2. /\ loop'.at \in {"spawn", "lastJoin", "done"}
      /\ loop' = [at |-> loop'.at, device |-> loop.device]
      /\ loop'.at = "spawn" <=> loop.at = "join"
      /\ loop.at # "spawn"
      /\ loop'.at = "spawn" => thread[spawned].at = "exited"
  BY DEF LoopTypeOK
<1>3. TrayTypeOK' /\ PrefsTypeOK' /\ ThreadTypeOK'
  <2>1. ThreadTypeOK /\ thread' = thread
    BY <1>1
  <2>2. stopTx' = stopTx \/ stopTx' = [stopTx EXCEPT ![spawned].alive = FALSE]
    OBVIOUS
  <2>3. ThreadTypeOK'
    BY <2>1, <2>2, StopTxDropped DEF ThreadTypeOK
  <2> QED BY <1>1, <2>3 DEF TrayTypeOK, PrefsTypeOK
<1>4. LoopTypeOK'
  BY <1>1, <1>2 DEF LoopTypeOK
<1>5. RequestsAccounted'
  BY <1>1, <1>2 DEF RequestsAccounted, OneIf
<1>6. OnlyLastRuns' /\ RunsUntold'
  BY <1>1, <1>2 DEF OnlyLastRuns, RunsUntold, Alive
<1>7. RequestsAgree' /\ ToggleChosen' /\ SavedIsChosen'
  BY <1>1, <1>2 DEF RequestsAgree, LastRequested, ToggleChosen, SavedIsChosen, Chosen
<1> QED BY <1>3, <1>4, <1>5, <1>6, <1>7

-----------------------------------------------------------------------------
\* A capture thread that moves was alive, keeps its device and its mode, and
\* does not come back once it exited.
LEMMA CaptureMoves ==
  ASSUME SwitchInv, NEW t \in Threads, CaptureStep(t)
  PROVE  SwitchInv'
<1> USE CaptureAssumption
<1> USE DEF SwitchInv, TypeOK, Moves, trayVars, loopVars, fileVars
<1>1. PICK to \in {"exited"} \cup Opening \cup Streaming :
        /\ thread[t].at \in Opening \cup Streaming
        /\ thread' = [thread EXCEPT ![t].at = to]
        /\ UNCHANGED <<trayVars, queue, loopVars>>
  BY DEF CaptureStep, ExclusiveStarts, ExclusiveFails, ExclusiveStops, FallbackStarts,
     SharedStarts, SharedFails, SharedStops
<1>2. TrayTypeOK' /\ PrefsTypeOK' /\ LoopTypeOK'
  BY <1>1 DEF TrayTypeOK, PrefsTypeOK, LoopTypeOK
<1>3. ThreadTypeOK'
  BY <1>1 DEF ThreadTypeOK
<1>4. RequestsAccounted'
  BY <1>1 DEF RequestsAccounted, OneIf
<1>5. OnlyLastRuns' /\ RunsUntold'
  BY <1>1 DEF OnlyLastRuns, RunsUntold, Alive, ThreadTypeOK
<1>6. \A u \in Threads : thread'[u].device = thread[u].device
                        /\ thread'[u].exclusive = thread[u].exclusive
  BY <1>1 DEF ThreadTypeOK
<1>7. RequestsAgree' /\ ToggleChosen' /\ SavedIsChosen'
  BY <1>1, <1>6 DEF RequestsAgree, LastRequested, ToggleChosen, SavedIsChosen, Chosen
<1> QED BY <1>2, <1>3, <1>4, <1>5, <1>7

LEMMA Unmoved ==
  ASSUME SwitchInv, UNCHANGED vars
  PROVE  SwitchInv'
<1> USE DEF vars, trayVars, loopVars, fileVars
<1>1. TypeOK'
  BY DEF SwitchInv, TypeOK, TrayTypeOK, PrefsTypeOK, LoopTypeOK, ThreadTypeOK
<1>2. RequestsAccounted'
  BY DEF SwitchInv, RequestsAccounted, OneIf
<1>3. OnlyLastRuns' /\ RunsUntold' /\ RequestsAgree' /\ ToggleChosen' /\ SavedIsChosen'
  BY DEF SwitchInv, OnlyLastRuns, RunsUntold, Alive, RequestsAgree, LastRequested, ToggleChosen,
     SavedIsChosen, Chosen
<1> QED BY <1>1, <1>2, <1>3 DEF SwitchInv

LEMMA InvNext == SwitchInv /\ [Next]_vars => SwitchInv'
<1> SUFFICES ASSUME SwitchInv, [Next]_vars PROVE SwitchInv'
  OBVIOUS
<1>1. CASE \E d \in Devices : SelectDevice(d)
  BY <1>1, TraySelects
<1>2. CASE ToggleStore
  BY <1>2, TrayStores
<1>3. CASE ToggleSend
  BY <1>3, TraySends
<1>4. CASE SaveTruncates \/ SaveWrites \/ SaveFails \/ TrayCloses
  BY <1>4, TraySaves
<1>5. CASE \E cli \in Devices \cup {SystemDefault}, plugged \in SUBSET Devices :
             Relaunch(cli, plugged)
  BY <1>5, Relaunches
<1>6. CASE LoopStep
  BY <1>6, LoopSpawns, LoopReceives, LoopMovesOn DEF LoopStep
<1>7. CASE \E t \in Threads : CaptureStep(t)
  BY <1>7, CaptureMoves
<1>8. CASE UNCHANGED vars
  BY <1>8, Unmoved
<1> QED BY <1>1, <1>2, <1>3, <1>4, <1>5, <1>6, <1>7, <1>8 DEF Next

LEMMA Switching == Spec => []SwitchInv
BY InvInit, InvNext, PTL DEF Spec

-----------------------------------------------------------------------------
\* The variables keep their types and the file holds one mode at most,
\* whatever start_audio_capture_with_switching and the tray do.
THEOREM Types == Spec => []TypeOK
<1>1. SwitchInv => TypeOK
  BY DEF SwitchInv
<1> QED BY <1>1, Switching, PTL

\* start_audio_capture_with_switching joins each capture thread before it
\* spawns the next: at most one is ever running.
THEOREM OneCapture == Spec => []AtMostOneCapture
<1>1. SwitchInv => AtMostOneCapture
  BY DEF SwitchInv, OnlyLastRuns, AtMostOneCapture
<1> QED BY <1>1, Switching, PTL

\* With every request served, the running capture is for the device and the
\* mode the tray shows: set_exclusive stores the flag before it sends.
THEOREM Agreement == Spec => []SettledAgrees
<1>1. SwitchInv => SettledAgrees
  BY DEF SwitchInv, RequestsAgree, LastRequested, SettledAgrees, Settled
<1> QED BY <1>1, Switching, PTL

\* A capture that streams is the last one spawned and exits only while the loop
\* joins it for a request: its stop_tx has neither sent nor been dropped before,
\* and dropping the DeviceSwitcher stops nothing.
THEOREM RunsOn == Spec => RunsUntilSwitched
<1>1. SwitchInv /\ [Next]_vars =>
        [\A t \in Threads : thread[t].at \in Streaming /\ thread'[t].at = "exited"
                           => loop.at = "join" /\ t = spawned]_thread
  <2> SUFFICES ASSUME SwitchInv, [Next]_vars, NEW t \in Threads,
                      thread[t].at \in Streaming, thread'[t].at = "exited"
               PROVE  loop.at = "join" /\ t = spawned
    OBVIOUS
  <2>1. thread[t].at # thread'[t].at
    OBVIOUS
  <2>2. thread \in [Threads -> [at : {"none", "exited"} \cup Opening \cup Streaming,
                               device : Names, exclusive : BOOLEAN]]
    BY DEF SwitchInv, TypeOK, ThreadTypeOK
  <2>3. CASE LoopSpawn
    <3>1. CASE t = spawned + 1
      BY <2>2, <2>3, <3>1 DEF LoopSpawn
    <3>2. CASE t # spawned + 1
      BY <2>1, <2>2, <2>3, <3>2 DEF LoopSpawn
    <3> QED BY <3>1, <3>2
  <2>4. CASE \E u \in Threads : CaptureStep(u)
    <3>1. PICK u \in Threads : CaptureStep(u)
      BY <2>4
    <3>2. t = u
      BY <2>1, <2>2, <3>1 DEF CaptureStep, Moves, ExclusiveStarts, ExclusiveFails,
         ExclusiveStops, FallbackStarts, SharedStarts, SharedFails, SharedStops
    <3>3. StopReceived(t)
      BY <2>2, <3>1, <3>2 DEF StopReceived, CaptureStep, Moves, ExclusiveStarts, ExclusiveFails,
         ExclusiveStops, FallbackStarts, SharedStarts, SharedFails, SharedStops
    <3> QED BY <3>3 DEF StopReceived, SwitchInv, OnlyLastRuns, RunsUntold, Alive
  <2>5. CASE \E cli \in Devices \cup {SystemDefault}, plugged \in SUBSET Devices :
               Relaunch(cli, plugged)
    BY <2>5 DEF Relaunch, NotSpawned
  <2>6. CASE UNCHANGED thread
    BY <2>1, <2>6
  <2>7. CASE \/ \E d \in Devices : SelectDevice(d)
             \/ ToggleStore \/ ToggleSend \/ TrayCloses
             \/ SaveTruncates \/ SaveWrites \/ SaveFails
             \/ LoopRecv \/ LoopJoined \/ LoopClosed \/ UNCHANGED vars
    <3>1. UNCHANGED thread
      BY <2>7 DEF SelectDevice, ToggleStore, ToggleSend, TrayCloses, SaveTruncates,
         SaveWrites, SaveFails, SaveGoes, LoopRecv, LoopJoined, LoopClosed, vars
    <3> QED BY <2>6, <3>1
  <2> QED BY <2>3, <2>4, <2>5, <2>7 DEF Next, LoopStep
<1> QED BY <1>1, Switching, PTL DEF Spec, RunsUntilSwitched

\* What save_prefs saved last is what the next launch starts from, when
\* UserPrefs::save completed and the device is still there.
THEOREM Remembers == Spec => LaunchRemembers
<1>1. SwitchInv /\ [Next]_vars =>
        [\A plugged \in SUBSET Devices :
           /\ Relaunch(SystemDefault, plugged)
           /\ saved /\ tray.device \in plugged
           => /\ tray'.device = tray.device /\ loop'.device = tray.device
              /\ exclusive' = exclusive]_vars
  <2> SUFFICES ASSUME SwitchInv, NEW plugged \in SUBSET Devices,
                      Relaunch(SystemDefault, plugged), saved, tray.device \in plugged
               PROVE  /\ tray'.device = tray.device /\ loop'.device = tray.device
                      /\ exclusive' = exclusive
    OBVIOUS
  <2>1. prefs = [device |-> tray.device, exclusive |-> {exclusive}]
    BY DEF SwitchInv, SavedIsChosen, Chosen
  <2>2. InitialDevice(SystemDefault, plugged) = tray.device
    BY <2>1 DEF InitialDevice
  <2>3. exclusive' \in prefs.exclusive
    BY <2>1 DEF Relaunch
  <2> QED BY <2>1, <2>2, <2>3 DEF Relaunch
<1> QED BY <1>1, Switching, PTL DEF Spec, LaunchRemembers
=============================================================================
