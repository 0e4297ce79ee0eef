# PewCast in TLA+

PewCast streams the audio a Windows or Linux machine captures to listeners in
the same building: browsers (WebTransport, or WebRTC where that fails) and an
Android app (raw PCM over UDP, with an HTTP API to register). This directory
holds TLA+ modules of the parts of it that are hard to test, TLC
configurations that model-check them, and proofs that TLAPS checks.

Paths below are relative to the repository.

## 1. The system

| Part | State it keeps | Operations | Modules |
|---|---|---|---|
| Capture and device switching (`src/audio.rs`, `src/wasapi_exclusive.rs`) | current device, exclusive flag, one capture thread and its stop channel | switch, toggle exclusive, spawn, stop, join, fall back to shared mode | `CaptureSwitch` |
| Tray and preferences (`src/tray.rs`, `src/config.rs`) | selected device and mode, the preferences file | menu events, save, load | `CaptureSwitch` |
| Start-up and shutdown (`src/main.rs`) | a watch channel, what has been started | spawn, bind, signal, Quit, graceful shutdown | `ServerRun` |
| Broadcast channel (`tokio::sync::broadcast`, created in `src/audio.rs`) | the last 100 chunks, a position per receiver | send, recv, Lagged, subscribe | `AudioChannel` |
| UDP sender (`src/udp_sender.rs`) | PCM buffer behind a mutex, next send time | pump, pace, cap the backlog | `UdpSender`, `PacedUdp` |
| WebRTC track writer (`src/webrtc.rs`) | PCM not yet a whole Opus frame | receive, encode and write | `AudioFanout` |
| WebTransport sessions (`src/webtransport.rs`) | the chunk being sent | bind, accept, handshake, stream, end, shut down | `AudioFanout`, `ServerRun` |
| UDP client registry (`src/client_registry.rs`, handlers of `src/server.rs`) | client table, ages | join, heartbeat, leave, reap | `ClientRegistry`, `HeartbeatLease` |
| WebRTC peers and signalling (`src/webrtc.rs`, `src/server.rs`) | peer list, last peer | offer, candidate, ICE state callback, cleanup | `PeerManager` |
| Android service (`PlaybackService.kt`) | playing, client id | prepare, commit, abort, stop | `PlaybackService` |
| Android screen (`ListeningScreen.kt`) | what is shown, client id, attempts, heartbeat loop | bind, adopt, connect, disconnect | `ListeningScreen`, `ListeningSystem`, `HeartbeatLease` |
| Native engine (`audio_engine.cpp`, `audio_engine_jni.cpp`) | ring buffer, two indices, playback rate, loss count; one global engine | network thread, audio callback; start, stop, delete, teardown after a device error | `AudioRing`, `NetworkThread`, `EngineLifecycle` |
| Browser page (`static/index.html`) | the connections it holds, reconnect timer | connect, fall back, stop, reconnect | `ListenPage` |
| Android latency test (`chirp_tester.cpp`, `LatencyTestScreen.kt`) | a test run shared by four threads | start, poll, stop | planned |

How they interact: the capture thread sends chunks into the channel; the UDP
pump, the track writer and each WebTransport session receive from it at their
own pace. The UDP pacer sends each datagram to the addresses in the registry.
The app registers there over HTTP, keeps its entry alive with heartbeats from
the screen's composition, and plays from a service that outlives the screen,
through a native engine whose network thread and audio callback share a ring.
The page asks the server for the certificate hash of its WebTransport endpoint,
opens a session, and falls back to posting an offer, which makes a peer on the
server. Quit in the tray and a signal end the whole process over one watch
channel; registry, peers and sessions are in its memory only, the preferences
in a file.

What is hard in it, and what makes each part correct:

- *Capture switching.* Three threads and two channels. At most one capture
  publishes at a time, what is captured is what the tray shows, every request
  is served, and the capture survives the tray. The process may end in the
  middle of a save; the next launch must not mix old choices and new ones.
- *Start and shutdown.* Quit can come before anything is there to hear it, and a
  tray that fails drops a sender of the channel others wait on. The server ends
  when, and only when, it is asked to or fails.
- *Peers.* A peer can be lost while its offer is still being answered, and the
  cleanups are tasks of their own. The count must follow what is reported: a
  peer leaves it for its own loss only, and none that is lost stays in it.
- *Page.* `connect()` awaits six times, and Stop, the reconnect timer and the
  handlers of older connections run in between. The page must hold what is
  open, and never wait for nothing.
- *Fan-out.* Receivers overflow independently. Each listener's stream is in
  order and without repetition, a gap has a logged cause, and everybody catches
  up. The pacer runs on the server's clock and capture on the sound card's: the
  backlog cap must only act when the clocks really drift apart.
- *Registry.* Calls are slow, lost, or late, and the reaper works from an
  instant taken before it got the lock. A live listener is kept, a dead one is
  dropped in bounded time, and a late call revives nobody.
- *App.* Attempts run on another thread while the activity comes and goes, and
  the notification can stop playback behind the screen. Screen, service, engine
  and server must agree again once things settle.
- *Ring.* Lock-free between two threads. It must be a bounded queue that drops
  its oldest samples. Loss is counted from differences of wrapping numbers in
  the order they come.
- *Engine.* It can be stopped by the app and by the teardown of a device error
  at once, and `start` can fail after each thing it acquired. An engine is torn
  down once, leaks nothing, hangs nobody and is not used after it is deleted.

`PROJECT.json` lists each hazard at its line, with the properties that cover
it or the reason none does yet.

## 2. The modules

| Module | What it is |
|---|---|
| `ClientRegistry` | one action per method of `ClientRegistry`; the reaper in two steps, `now` taken before the lock |
| `HeartbeatLease` | extends it with the app's join, heartbeat and leave calls, a network that loses and delays, and a clock |
| `HeartbeatLeaseProofs` | the lease proved for all timings |
| `CaptureSwitch` | tray, preferences file, switching loop, capture threads, launches |
| `CaptureSwitchProofs` | its safety, proved for any number of requests and launches |
| `AudioChannel` | the broadcast channel, modelled from its use |
| `UdpSender` | extends it with the pump and the pacer's buffer |
| `PacedUdp` | extends that with the pacer's schedule and the device's bursts, in units of a frame's duration |
| `PacedUdpProofs` | the cap never bites when it is ample, proved |
| `AudioFanout` | extends `UdpSender` with the track writer and WebTransport sessions |
| `AudioFanoutProofs` | no loss without a cause, and the refinement of `LossyStream`, proved for any number of sessions |
| `LossyStream` | abstract: what a listener is promised |
| `AudioRing` | `writeToRing` and `onAudioReady`, a shared access a step |
| `SampleQueue` | abstract: a bounded queue that drops its oldest samples |
| `NetworkThread` | extends it with the datagrams' numbers and the loss count of `networkThread` |
| `NetworkThreadProofs` | the ring's refinement of `SampleQueue` and the loss count, proved for any sizes |
| `EngineLifecycle` | `nativeStart` and `nativeStop`, `start` and `stop` step by step, the device error and its detached teardown |
| `EngineLifecycleProofs` | its safety, proved for any number of engines |
| `PlaybackService` | the service and the one global engine |
| `ListeningScreen` | extends it with composition, connect attempts, calls and the server's set of sessions |
| `ServerRun` | `main`, the tray's end, the shutdown task and the WebTransport server, from launch to launch |
| `ListeningSystem` | `ListeningScreen` and an instance of `ServerRun` that it depends on |
| `ListeningSystemProofs` | the agreement of screen, service and engine, and why the server ends, proved for any number of attempts |
| `PeerManager` | `offer_handler` with `handle_offer`, the ICE callback and its cleanup tasks |
| `ListenPage` | extends it with the browser page: `connect()` from await to await, its globals, timer and handlers |
| `ListenPageProofs` | the peer count and the page's safety, proved for any number of calls |
| `MC*` | the constants TLC uses |

Composition is by EXTENDS where modules share state (`ClientRegistry` <
`HeartbeatLease`; `AudioChannel` < `UdpSender` < `PacedUdp`, `AudioFanout`;
`AudioRing` < `NetworkThread`; `PlaybackService` < `ListeningScreen` <
`ListeningSystem`; `PeerManager` < `ListenPage`), and by INSTANCE for the two
abstract specifications and for `ServerRun` in `ListeningSystem`. A definition
under a comment "Seeded bug" is a plausible mistake in the definition that
follows it; no specification uses it. It exists to show that the property it is
paired with in `PROJECT.json` can fail. What makes an invariant inductive is
defined at the head of the `*Proofs` module that needs it (`PaceInv`, which a
run checks, is in `PacedUdp`); a module that EXTENDS one of these can have TLC
check it on the constants of a run, as was done for each before it was proved.

### State and code

- `ClientRegistry`: `clients` and `age` are the HashMap with `last_seen` as
  time since it, `used` every id drawn, `reaper` the thread of `spawn_reaper`.
  `Join` takes how long the call waited for the lock, since `last_seen` is
  taken before it. `LongestSleep` contains two waits for the lock because the
  thread calls `len()` on either side of a sweep.
- `HeartbeatLease`: `session` is where the coroutine of a listener is,
  `inFlight` the calls its client gave up on. An answered heartbeat with an
  unknown id is `notFound`, which the code logs and nothing else. `since` is a
  history variable: how long ago, by the client's clock, the last heartbeat
  that was answered began.
- `CaptureSwitch`: `queue` is the switch channel, `stopTx[t]` the sender of each
  capture thread's stop channel: whether a stop was sent on it, and whether it
  is still in scope, for a shared-mode stream ends when its `recv()` fails too,
  an exclusive one only on a message. `thread[t].at` is the backend: "parked" is the shared-mode fallback, started with
  `stop_rx: None`. Rust's `park` is retried by the code around it, so spurious
  wake-ups do not appear. `prefs` is the file: a device, and a mode or none. A
  save is two steps, the truncation and the write of `fs::write`; `Relaunch` may
  happen after any step, with any devices plugged in, any `--device`, and, if no
  mode was saved, either mode in `config.toml`.
- `AudioChannel`: a chunk is the run of sample numbers it holds. The channel is
  never closed, because `main` keeps a sender, so the `Closed` branches of the
  receivers have no action.
- `PacedUdp`: `due` is `next_send - now`; `owed` is what the device has taken
  and no callback has delivered.
- `AudioRing`: `writer` and `reader` hold the locals of the two functions
  between their steps. Rate control picks a rate up to one part in `Whole`
  faster or slower, on the side the code allows.
- `NetworkThread`: datagrams are numbered from the first one received; `Receive`
  takes any number at any time, which is loss, repetition and reordering at
  once. Before the first one there is no gap, whatever its number. `inOrder` and
  `blind` are history: whether every number so far was above those before it,
  and whether one was negative to the engine or taken for a restart. `Signed` is the cast to `int32_t`. `Gap` wraps where the code's
  subtraction overflows, which is what compilers for the app's targets give.
- `EngineLifecycle`: `gEngine` is the pointer of `audio_engine_jni.cpp`, where 0
  is `nullptr` and n the n-th engine made; `engine[e]` is `mRunning` and whether
  `mStream`, `mSocket` and `mNetworkThread` hold something. `app` is the step of
  the one JNI call under way, `dropped[e]` the step of the error callback and
  then of the thread it detaches; `AppStops` and `TeardownStops` are the same
  function, `stop()`, on either thread. The constant `Overlap` says whether a
  drop may still be handled when its engine is deleted, or be reported at the
  last step of `start`.
- `ListeningScreen`: a session is named by the attempt that made it. `job[n]`
  is the coroutine of an attempt and the IO call it is in; `orphan` says that
  the service instance it holds was destroyed; `screen.seen` is the value of
  `servicePlaying` in the last frame drawn. `Hide` and `Reappear` stop and start
  the activity: its composition stays, and a heartbeat loop that runs goes on
  (`screen.beating`), but no frame is drawn and no effect runs or starts until
  it is back. `Reap` takes any session that no composition heartbeats; that it
  takes no other assumes heartbeats that are answered in time (`HeartbeatLease`).
- `ServerRun`: `main` is how far `main()` is. The value of the watch channel and
  its senders are derived: `Sent` and `SenderLeft`. A receiver that is cloned
  from `main`'s has not seen what was sent before, so `ShutsDown` reacts to an
  earlier Quit too. `Dies` is an error of `main`, a crash, or a signal before
  the shutdown task has installed its handlers.
- `ListeningSystem`: a step of the app that changes `registered` needs a server
  that serves; when the process ends, `registered` is emptied.
- `PeerManager`: a peer has the number of its request. `Held` says that the ICE
  callback can still be of any consequence: `pc_weak.upgrade()` fails once
  nobody holds the peer. `down` is what ICE has last said of a peer, which may
  recover from Disconnected; `lost` is history, the peers whose own cleanup task
  waits or took them off, and `early` those that were down when they were listed.
- `ListenPage`: a call of `connect()` has a number, and its WebTransport, its
  `RTCPeerConnection` and its request share it; `wt` and `pc` say whose object
  is in the page's globals. `task[a]` is the await the call is in. Both fetches
  of `/transport-info`, and the awaits of `connectWebRTC` before the request,
  are one await each, since nothing is read between them but `pc`, which
  `PostOffer` looks at. Exceptions go where the code's `catch` puts them.

## 3. The runs

| Run | Constants | Properties | Shows |
|---|---|---|---|
| `HeartbeatLease` | 1 session, in seconds: timeout 15, delay 5, calls up to 6, reaper 5, lock 1 | `LeaseHeld`, `StaleBounded`, `NoResurrection` | a session is kept for a timeout from the start of its last answered heartbeat; entries die in bounded time; late calls revive nothing |
| `CaptureSwitch` | 2 devices, 3 requests a launch, 2 launches | `AtMostOneCapture`, `SettledAgrees`, `RunsUntilSwitched`, `LaunchRemembers`, `ServedUnlessParked` | switching is right in every interleaving, as long as no fallback is parked; a launch starts from what was saved |
| `CaptureSwitchHang` | 1 request | `SwitchServed` violated | a switch after a fallback hangs the loop |
| `PacedUdp` | frame 1, cap 5, bursts 2, lag 1, late 1 | `NothingSkipped`, `PaceInv` | the cap absorbs bursts and lateness |
| `AudioFanout` | one session, channel of 2 chunks, 6 samples, frames of 2, cap 2 | `ListenersStream`, `NothingLostSilently`, `EveryoneCatchesUp` | streams are ordered, gaps have causes, everybody catches up |
| `NetworkThread` | ring of 4 slots, datagrams and callbacks of 1 or 2, 6 samples, no overlap; 5 numbers from 2 on, half range 5, gaps below 2 | `LossCounted`, `LostOnlyToOverflow`, `ImplementsQueue` | the ring is a bounded queue when an overflowing write and a callback do not meet; the loss shown is exact in order, and out of order never too low unless a negative number or a restart was seen |
| `AudioRingRace` | the same ring, with overlap | `LostOnlyToOverflow` violated | when they meet, a ring of samples is lost |
| `EngineLifecycle` | 3 engines, no overlap | `UsedWhileLive`, `TornDownOnce`, `NothingLeaked`, `CallsReturn`, `DropEndsPlayback` | engines are torn down once and completely, by whichever thread, and no call hangs |
| `EngineLifecycleDelete` | 1 engine, with overlap | `UsedWhileLive` violated | an engine is deleted under its teardown thread |
| `ListeningSystem` | 2 attempts, any number of launches, the activity stopped at any moment | `ScreenAgrees`, `EngineOwned`, `StaleForgotten`, `ConnectingEnds`, `ServesUntilAsked`, `EndsWhenAsked` | app, service and engine agree once settled, whatever the server does; the server ends when, and only when, it is asked to or fails |
| `ListeningScreenAway` | 1 attempt | `PlayingIsStreamed` violated | a session whose heartbeats ended with the screen, or never started behind one that is off, is reaped while it plays |
| `ListenPage` | 2 calls of `connect()`, 1 cleanup at a time per peer | `CountFollows`, `NeverStuck`, `SequentialClean`, `SequentialTrickle`, `LossRetried` | the peer count follows the losses reported, calls that follow one another leave nothing open, a listening page always has something to wait for, and retries |

Each passing run also checks its module's type invariant.

### Why the bounds are enough

- *HeartbeatLease.* A unit is a second and every constant is the code's: the
  delay of the loop and the reaper's sleep, the default timeout, and 3 s to
  connect with 3 s to read for a call. Only the wait for the lock has no number
  in the code; it is held for a pass over the table. Clients meet only in the
  sweep, which judges each by its own age, so one is enough.
- *CaptureSwitch.* Three requests let a request arrive during a switch that was
  itself requested during a switch. Two devices tell "same" from "other". A second
  launch shows what the first, ended at any step, left in the file.
- *PacedUdp.* The bound is tight: with `MaxFrames = 4` the cap discards samples.
  `MaxSamples = 9` fills the buffer and drains it again.
- *AudioFanout.* A channel of two chunks lags when a receiver misses two, and
  what is left in it has a chunk that follows another, as `NothingLostSilently` asks.
  Chunks of 2 and 3 against frames of 2 leave whole frames, remainders and
  fragments. The backlog cap of two frames is exceeded by 6 samples.
- *NetworkThread.* Six samples against four slots wrap both positions and overflow
  more than once. `Whole = 2` exaggerates the code's rate change of 2% to 50%,
  so that the fractional position carries within a few callbacks. Of five
  numbers, 2 to 6, the last two are negative to the engine, and a gap of two is
  one too many to be counted: both ways the count can miss a loss occur. The
  first number is itself no less than the gap limit, as in a session that joins
  a server that has been sending. The theorem `Losses` is for any first number.
- *EngineLifecycle.* Three engines are a first, one that replaces it and one that
  replaces that, so each can be torn down while another is made. The theorems
  hold for any number, and those of `TornDownOnce` and `NothingLeaked` for both
  values of `Overlap`.
- *ListeningSystem.* Two attempts give a stale session and a new one. Launches are not bounded: a process that ended is as one that
  never ran.
- *ListenPage.* A call can follow another, overlap it, or be made by the timer
  for its loss. Nothing in the page or the server looks at more than one older
  connection. A second cleanup task of a peer would find what the first left.

### Fairness

Threads and tasks that can run do run: weak fairness on the switching loop,
each capture thread and the rest of a menu handler that began
(`CaptureSwitch`); on the pump, the pacer, the track writer and each streaming
session (`AudioFanout`); on frames while the activity is started, the binder's callback, IO threads, calls
and the reaper (`ListeningSystem`; HTTP calls have time limits of 3 and 5 s, so
they end), and on the server's `main` and its shutdown task, whose waits the
graceful shutdown bounds by 5 s; on the awaits of the page, its timer and its
close handlers (`ListenPage`; a fetch or a handshake that gets no answer is
failed by the browser); on the JNI call that began, the network thread (its receive times out
after 100 ms) and the error callback with its teardown (`EngineLifecycle`).
Nothing is assumed of users, of capture, of the server under the page, or of
device errors. `HeartbeatLease`, `PacedUdp` and `NetworkThread` state safety only.
`CHECK_DEADLOCK FALSE` appears for `CaptureSwitch`, where a user may stop making
requests and every thread then waits, and for `ListenPage`, where the page may
play or rest for ever once its calls are used up.

### What the runs leave out on purpose

`ScreenAgrees` and `StaleForgotten` except "hurried" behaviours, in which an
input is handled before the frame that shows the change it follows: a stop from
the notification and a new connect within one frame leaves the screen showing
the older state, because the state flow conflates the two changes. `EngineOwned`
also excepts an attempt cancelled by leaving the screen, whose engine (one
global for the process) may then outlive it or stop another session's, and a
device error, which stops the engine and leaves the service playing. The
exceptions are history variables of the model, so each is visible in a trace.

Frames are promised only while the activity is started, so `ScreenAgrees` speaks
of a screen that has drawn, and `StaleForgotten` excepts a change that is yet to
be drawn and cannot be (`Undrawn`): after a stop by Bluetooth or from the
notification with the screen off, the effect at line 109 waits for a frame and
the loop at 262 does not, so the dead session is heartbeated for as long as the
screen stays off. When it is on again the effect runs and the session is left.

`LeaseHeld` says how long an entry is kept, not that it is kept for ever: with
calls slow enough the last answered heartbeat may become older than the timeout.

`SequentialClean` and `SequentialTrickle` except calls of `connect()` that
overlap: `overlap` is set when the user or the timer acts while a call still
awaits something or the server still works on its request. `NeverStuck` and
`LossRetried` except a WebTransport that is lost rather than closed. `CountFollows`
excepts a peer that was down when it was listed, and says nothing for a peer
that recovers after a loss was reported. Section 4 says what happens then.
`LossCounted` counts, in order, what the engine can count: a gap after a number
of the upper half, or of 1000 and more, adds nothing. Out of order it promises
that the count is not too low until one of these was met.

The passing run of `EngineLifecycle` has no overlap: with it, what a thread does
to a deleted engine is undefined, and `UsedWhileLive` fails as the violation run
shows. JNI calls are made one at a time there. The code does not quite ensure
it: a cancelled attempt may still be in `nativeStart` on its IO thread when the
main thread calls `nativeStop`.

## 4. What was found

1. *A parked fallback hangs device switching* (`CaptureSwitchHang`). Exclusive
   mode failed, shared mode runs without a stop channel (`src/audio.rs:493`),
   and the next request joins a thread that never ends (521).
2. *Two writers of the read position* (`AudioRingRace`). An overflow that
   happens during a callback is undone by the callback's store of the read
   position (`audio_engine.cpp:458` after 372): the ring then looks almost empty
   although it is full.
3. *Playing without heartbeats* (`ListeningScreenAway`). Heartbeats are an
   effect of the composition (`ListeningScreen.kt:262`). They end when the
   composition goes, and do not start if the attempt succeeds with the screen
   off, since an effect waits for a frame. The service plays on, the server reaps
   the session after 15 s, and a screen that comes back has, or adopts, the
   reaped id and never joins again.
4. *An engine deleted under its teardown* (`EngineLifecycleDelete`). The device
   drops, a detached thread is in `stop()`, the user disconnects: the `stop()`
   of `nativeStop` finds `mRunning` cleared (`audio_engine.cpp:171`), returns at
   once, and the engine is deleted (`audio_engine_jni.cpp:38`) under that
   thread. Nothing waits for the teardown.

A remark on the same code: a drop between `requestStart`'s success and the log
line of `start` (`audio_engine.cpp:162`) lets the teardown reset the `mStream`
which that line follows.

Remarks on the listen page and its peers, which no document but the comment
quoted speaks of and which the model shows through the exceptions named above:

- Stop, and the transport check box, do not cancel a `connect()` that awaits
  something (`index.html:292`): it goes on and sets up a connection, which after
  a Stop plays while the button says Listen. A later `connect()` closes only
  what the globals hold.
- A WebTransport that is lost is only logged (353): the page goes on saying Live
  and neither falls back nor reconnects, although it listens.
- `disconnect()` sets `isListening` false and `connect()` sets it true at once,
  so the handler of the old WebTransport (347) schedules a reconnect that, three
  seconds later, takes down the new connection. A connection that recovers from
  "disconnected" by itself is taken down likewise: nothing clears the timer.
- The count of `/status` is not quite "the number of currently connected peers"
  (`webrtc.rs:151`). A peer lost before it is listed (`webrtc.rs:97` before 135)
  stays on the list for as long as the server runs; one that recovers from
  Disconnected has been taken off it and stays off while it plays.
- An `AudioContext` or a worklet that cannot be had (`index.html:364-370`) makes
  `connect()` fall back to WebRTC beside the WebTransport it opened, which stays
  open until the next `disconnect()`.
- Candidates posted to `/ice-candidate` go to the peer that was answered last
  (`server.rs:123`), whoever posts them. The page itself posts none.

A remark on the loss count. A datagram that comes late is counted as lost when
its successor arrives and never taken off again; a server that has sent for 124
days (2^31 datagrams) has every loss go uncounted, until the numbers wrap.

A remark on the preferences. `fs::write` (`config.rs:120`) truncates the file
first: a process that ends before the write leaves an empty file, which loads as
no choice at all. It never loads as an older or a mixed one.

A remark on the registry's timing. A session is sure of its entry for 15 s from
the start of its last answered heartbeat. A heartbeat may take 6 s (connect 3 s,
read 3 s) and the next one begins 5 s after it: a first whose reply
is slow and a second that is slow to arrive can be too far apart for it
(6 + 5 + 6 = 17), though neither times out. The 404 that the reaped session then
gets is only logged, and nothing joins again.

The pacer's cap has ample room: with bursts of 2000 samples and a pump trailing
by one callback of 480, 239 + 2000 + 480 + 240*(1 + L) <= 4800 for a pacer up to
L = 7 frames (35 ms) late.

## 5. The proofs

`HeartbeatLeaseProofs` proves, for every set of ids and every timing:

- `TypeCorrect`: `Spec => []TypeOK`.
- `Staleness`: `Spec => []StaleBounded`. The reaper's own clock is the missing
  part: an entry's age minus the time since the last sweep is below the
  timeout, and the reaper never sleeps or waits past its bounds.
- `Lease`: `Spec => []LeaseHeld`, with no condition on the timing. `LeaseHeld` is
  not inductive, since it says nothing of ages. `LeaseInv` adds, for each client,
  that the server's age of its entry is at most `since` (and, while a call is
  answered but its reply under way, at most the time the call has taken), so a
  sweep that would take the entry finds `since` at the timeout already; and that
  no late leave is about for a session that still runs.
- `Gone`: `Spec => NoResurrection`, an action property, from the type invariant.

`PacedUdpProofs` proves:

- `PacedTypeCorrect`: `Spec => []TypeOK`.
- `Paced` and `CapNeverBites`: `CapAmple => (Spec => []PaceInv)`, and from it
  `CapAmple => (Spec => []NothingSkipped)`. `PaceInv` says that all audio between the device and the pacer (`InTransit`) plus a
  frame for each unit the pacer is early is bounded. Time adds a frame and takes
  one unit of `due`, a send takes a frame and adds a unit, and starvation resets
  `due` only when less than a frame is buffered. It needs the chunks of the
  channel to be in order (`UnreadOrdered`), so that a receive gives the pump no
  more than the backlog it was behind, and a lag only shortens it.

`EngineLifecycleProofs` proves, for any number of engines:

- `TypeCorrect`: `Spec => []TypeOK`, with `RoomForOne`: `nativeStart` was let in
  only if one more engine may be made.
- `TornDown` and `NoLeak`: `Spec => []TornDownOnce`, `Spec => []NothingLeaked`,
  however drops and deletes overlap. Both follow from `LifeInv`, which follows
  each engine through its life: a thread past clearing `mRunning` finds it
  cleared and is the only one there (`Cleared`); what an engine holds it holds
  because it runs, or because the thread making it or tearing it down has not
  reached the step that releases it (`Accounted`); no drop is reported for a
  stream not yet started (`Quiet`).
- `Owned`: `Spec => [](UsedUnlessDropping /\ (~Overlap => UsedWhileLive))`. The
  network thread and the app use live engines only, whatever overlaps; what can
  still be in a deleted engine is the handler of its own drop
  (`EngineLifecycleDelete` shows it), and not if no delete meets one. The missing
  part is `LetGo`: an engine that is not live does not run, and is the global one
  only while `nativeStart` replaces it. At a delete, `Cleared` and `Accounted`
  leave nothing to be used later.

`CaptureSwitchProofs` proves, for any devices, requests and launches, with or
without exclusive mode, and from one invariant, `SwitchInv`:

- `Types`: `Spec => []TypeOK`. A thread is spawned per request, so its number
  stays in range only because `RequestsAccounted` says where each request is:
  at the tray, in the channel, at the loop, or spawned.
- `OneCapture`: `Spec => []AtMostOneCapture`, by `OnlyLastRuns`: only the last
  thread spawned may run, and none when the loop is about to spawn.
- `Agreement`: `Spec => []SettledAgrees`, by `RequestsAgree`: the last device on
  its way is the one shown, and a capture in the wrong mode has a request
  coming. `ToggleChosen` keeps the type of what a toggle sends.
- `RunsOn` and `Remembers`: the action properties `RunsUntilSwitched` and
  `LaunchRemembers`, the first from `RunsUntold`: the stop sender of a thread
  that runs is in scope, and has sent only when the loop joins; the second from `SavedIsChosen`: what was saved last is what
  is shown until the next request.

`ListenPageProofs` proves, for any number of calls of `connect()` and offers,
whether or not they overlap:

- `Counted`: `Spec => []CountFollows`, by `PeerInv`: a cleanup task is there only
  for a peer whose loss was reported, and one down too early is still on the list.
- `PageTypes`, `Unstuck`, `Clean` and `Trickle`: `TypeOK`, `NeverStuck`,
  `SequentialClean` and `SequentialTrickle`, all from `PageInv`. `NeverStuck`
  lacks what a page waits for between the loss of a WebTransport and the end of
  the fallback (`ClosedRetried`). The other two say nothing while a call is
  under way; `LastCallOnly` says that without overlap only the last call is at
  work, at the page and at the server, and finds in the globals what it put
  there. `CallsInOrder` is what a call has made by each of its steps.

`AudioFanoutProofs` proves, for any number of sessions and any size of chunk,
frame and channel:

- `FanoutTypes`: `Spec => []TypeOK`; no queue outgrows the channel.
- `NothingLost`: `Spec => []NothingLostSilently`, from `FanoutInv`. Per listener
  it says that the chunks that wait follow on one another up to the newest
  sample (`ChunksFollow`), that what was sent and what is held rise and come
  before what waits (`Rising`), and that they are complete while the listener
  is undisturbed (`Complete`). Every action is one of six kinds of step for each
  listener (`OneStep`: it captures, takes, moves, idles, comes or goes), and each
  kind keeps the invariant whatever the listener is. The property states the
  contents of the channel chunk by chunk rather than as one concatenation: a
  fold over the queue says the same and would need induction over sequences.
- `Streams`: `Spec => ListenersStream`. What a task sends are samples it held,
  so `Rising` makes them captured ones, later than all that was sent: a step is
  `Capture`, `Hear` or a stutter of each listener's `LossyStream`.

`NetworkThreadProofs` proves, for any ring, payload, callback and rate:

- `NetTypes`: `NetSpec => []NetTypeOK`, whether or not a write and a callback
  overlap: the positions stay in the ring even in the race that
  `AudioRingRace` shows.
- `Implements` and `Kept`: `~Overlap => (NetSpec => ImplementsQueue)` and
  `~Overlap => (NetSpec => []LostOnlyToOverflow)`, from `RingInv`. `RoomKept`
  says that the samples to be copied have room, or that an overflow is about to
  make it unseen by any callback; `FrontRead` that what a callback has copied
  and what it counts on are at the front of the ring; `Accounted` that every
  sample is played, dropped, buffered or being written. The hypothesis is
  needed: without it `LostOnlyToOverflow` fails (`AudioRingRace`).
- `Losses`: `NetSpec => []LossCounted`, by `LastReceived`: the last number seen
  is that of a datagram received, and in order it is the newest, so a datagram
  adds to the missing ones exactly the gap before it, or none.

`ListeningSystemProofs` proves, for any number of attempts and launches:

- `SystemTypes`, `Agrees` and `Owned`: `SystemTypeOK`, `ScreenAgrees` and
  `EngineOwned`, from `ScreenInv`. Its parts say whose an attempt is (`LiveBound`:
  an attempt that was not cancelled has its composition and its service;
  `AttemptAlone`: there is one at most, and it finds the service silent), that
  the button is at most one frame behind the service (`ScreenFollows`), and that
  from prepare to commit the engine is the attempt's (`EngineFollows`).
- `Serves`: `SystemSpec => []ServesUntilAsked`, with `StartsAfresh`: a launch
  begins with no shutdown left over. The waiting task itself owns a sender of
  the watch channel, so `changed()` cannot fail before it has heard Quit.

Assumptions are the named ASSUMEs of the modules: the types of the constants,
and for `NetworkThread` that `Numbers` is a finite run of datagram numbers no
wider than half the range of the sequence numbers. `LossCounted` is false of a
wider one: a number further away than half the range looks near. `CapAmple`
and `~Overlap` are hypotheses of their theorems.

Every safety invariant and action property of the passing runs is proved. Only
model-checked is liveness under fairness (`ServedUnlessParked`,
`EveryoneCatchesUp`, `CallsReturn`, `DropEndsPlayback`, `StaleForgotten`,
`ConnectingEnds`, `EndsWhenAsked`, `LossRetried`): TLAPS has no rule for ENABLED.

## 6. Plan

Next modules, in this order:

1. `ChirpTester`: the latency test's four threads and its results.
2. JNI calls that overlap; the target buffer across connects.
3. The page's audio worklet, whose buffer promises what `SampleQueue` does.

Next theorems: that `SampleQueue` itself loses a sample only to an overflow, so
that `Kept` follows from `Implements`; the properties above under fewer
exceptions, such as `EngineOwned` after a device error once the service is told
of it.

## 7. Not modelled

Resampling, mixing and format conversion; Opus; RTP, ICE and QUIC beyond the
events they report; the timestamps of the headers; ping echoes; TLS and
certificates; mDNS and QoS (calls into the operating system); the parsing of
`config.toml`, which is read once; the static pages and the latency report,
which is only logged; what the tray and the page draw; the app's discovery,
slider and statistics; installer and CI. The two latency tests are measurement
tools: the Android one has threads of its own and is next in the plan, the
browser one is signal processing and charts, and the command-line one a script.
