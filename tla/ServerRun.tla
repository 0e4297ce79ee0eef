----------------------------- MODULE ServerRun -----------------------------
(***************************************************************************)
(* A run of the server (main of src/main.rs), from its launch to the end   *)
(* of the process.  Three threads of control share a watch channel that    *)
(* only ever carries `true`: the tray, which sends it on Quit; the task    *)
(* that waits for a reason to shut down; and the WebTransport server       *)
(* (WebTransportServer::run of src/webtransport.rs).                       *)
(***************************************************************************)

VARIABLES
  main,      \* what main is doing
  tray,      \* the tray thread; while it runs it holds a sender
  signalled, \* Ctrl+C or SIGTERM came while the shutdown task waited for it
  stopping,  \* the shutdown task is done: it has sent, and dropped its sender
  web        \* the WebTransport server

vars == <<main, tray, signalled, stopping, web>>

TypeOK ==
  /\ main \in {"capture", "spawn", "bind", "serving", "ended"}
  /\ tray \in {"none", "running", "quit", "gone"}
  /\ signalled \in BOOLEAN /\ stopping \in BOOLEAN
  /\ web \in {"none", "started", "listening", "ended"}

Init ==
  /\ main = "capture" /\ tray = "none" /\ web = "none"
  /\ signalled = FALSE /\ stopping = FALSE

Alive == main # "ended"
Then(from, to) == main = from /\ main' = to

-----------------------------------------------------------------------------
\* main: capture and the tray are started, then the track writer and the reaper.
StartsCapture ==
  /\ Then("capture", "spawn")
  /\ tray' = "running"
  /\ UNCHANGED <<signalled, stopping, web>>

\* The WebTransport server, the UDP sender and the shutdown task are spawned,
\* and the certificate and the TLS configuration made.
Spawns ==
  /\ Then("spawn", "bind")
  /\ web' = "started"
  /\ UNCHANGED <<tray, signalled, stopping>>

Binds == Then("bind", "serving") /\ UNCHANGED <<tray, signalled, stopping, web>>

Fresh ==
  /\ tray' = "none" /\ web' = "none"
  /\ signalled' = FALSE /\ stopping' = FALSE

\* A `?` of main, or the port is taken.  (Also what a signal does that comes
\* before the shutdown task, and a crash, at any time.)
Dies == Alive /\ main' = "ended" /\ Fresh

\* graceful_shutdown was called, be it before serve: HTTP connections end by
\* themselves or after five seconds, serve returns, and the process ends.
Drains == stopping /\ Then("serving", "ended") /\ Fresh

MainStep == StartsCapture \/ Spawns \/ Binds \/ Drains

-----------------------------------------------------------------------------
\* Quit sends `true`; a tray that cannot be shown, or fails, just ends.  Once
\* the shutdown has begun neither changes anything.
TrayEnds ==
  /\ tray = "running" /\ ~stopping
  /\ tray' \in {"quit", "gone"}
  /\ UNCHANGED <<main, signalled, stopping, web>>

Waiting == main \in {"bind", "serving"} /\ ~stopping

Signal ==
  /\ Waiting /\ tray # "quit"
  /\ signalled' = TRUE
  /\ UNCHANGED <<main, tray, stopping, web>>

\* The watch channel: `true` was sent; a sender is left.
Sent == tray = "quit" \/ stopping

\* Seeded bug: the shutdown task does not own main's sender.
SenderLeftTrayOnly == tray = "running"

SenderLeft == tray = "running" \/ ~stopping

\* Seeded bug: only a signal is waited for.
ShutsDownOnSignal ==
  /\ Waiting /\ signalled
  /\ stopping' = TRUE
  /\ UNCHANGED <<main, tray, signalled, web>>

\* The select! of the shutdown task: a signal, `true`, or the end of the loop
\* over changed(), which fails once no sender is left.
ShutsDown ==
  /\ Waiting
  /\ signalled \/ Sent \/ ~SenderLeft
  /\ stopping' = TRUE
  /\ UNCHANGED <<main, tray, signalled, web>>

-----------------------------------------------------------------------------
WebGoes(from, to) ==
  /\ web \in from /\ web' = to
  /\ UNCHANGED <<main, tray, signalled, stopping>>

\* The certificate's hash is published, the port bound, and the accept loop
\* entered.
WebBinds == WebGoes({"started"}, "listening")

\* No identity, or the port is taken: only logged, and main goes on without.
WebFails == WebGoes({"started"}, "ended")

\* The select! of the accept loop; the endpoint is dropped.
WebStops == Sent /\ WebGoes({"listening"}, "ended")

WebStep == WebBinds \/ WebFails \/ WebStops

-----------------------------------------------------------------------------
Relaunch ==
  /\ ~Alive
  /\ main' = "capture"
  /\ UNCHANGED <<tray, signalled, stopping, web>>

Next == MainStep \/ Dies \/ TrayEnds \/ Signal \/ ShutsDown \/ WebStep \/ Relaunch

Asked == tray = "quit" \/ signalled

\* The server shuts down only because it was asked to: in particular it outlives
\* its tray, whose end drops one of the senders of the channel.
ServesUntilAsked == stopping => Asked

\* What makes it inductive: a launch begins with no shutdown left over from the
\* run before.
StartsAfresh == main \in {"capture", "ended"} => ~stopping

\* The process never stays asked to end: it ends, also when Quit came before
\* the task that waits for it, or HTTP, had started.
EndsWhenAsked == []<>~Asked
=============================================================================
