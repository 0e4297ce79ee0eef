----------------------------- MODULE AudioFanout -----------------------------
(***************************************************************************)
(* The capture thread and the three kinds of listener of the server:       *)
(*   - the UDP sender (UdpSender.tla), whose pump and pacer are started    *)
(*     with the server;                                                    *)
(*   - the WebRTC track writer (audio_to_track_writer of src/webrtc.rs),   *)
(*     started with the server, which encodes frames of OpusFrame samples; *)
(*   - a WebTransport session (src/webtransport.rs), which subscribes when *)
(*     its connection comes in, before the handshake, and sends each chunk *)
(*     in fragments of at most Frame samples.                              *)
(* Each is a task of its own: between two awaits it runs undisturbed, but  *)
(* for the other threads.                                                  *)
(***************************************************************************)
EXTENDS UdpSender

CONSTANTS
  Track,     \* the track writer's receiver
  Sessions,  \* receivers of WebTransport sessions
  OpusFrame  \* opus_frame_size

ASSUME FanoutAssumption ==
  /\ Listeners = {Udp, Track} \cup Sessions
  /\ Udp # Track /\ {Udp, Track} \cap Sessions = {}
  /\ OpusFrame \in Nat \ {0}

VARIABLES
  trackPcm, \* pcm_buffer of the track writer
  written,  \* history: the samples written to the track
  dropped,  \* history: the track writer failed to encode or write a frame
  session,  \* per session: where handle_session is
  rest,     \* per session: what is left of the chunk it is sending
  streamed, \* history, per session: the samples sent in datagrams
  since,    \* history, per listener: samples captured before it subscribed
  overrun   \* history, per listener: it was told that it lagged

trackVars == <<trackPcm, written, dropped>>
webVars == <<session, rest, streamed>>
fanoutHistory == <<since, overrun>>
vars == <<channelVars, udpVars, trackVars, webVars, fanoutHistory>>

TypeOK ==
  /\ ChannelTypeOK
  /\ UdpTypeOK
  /\ trackPcm \in Seq(Nat) /\ written \in Seq(Nat) /\ dropped \in BOOLEAN
  /\ session \in [Sessions -> {"none", "handshake", "streaming", "closed"}]
  /\ rest \in [Sessions -> Seq(Nat)] /\ streamed \in [Sessions -> Seq(Nat)]
  /\ since \in [Listeners -> Nat] /\ overrun \in [Listeners -> BOOLEAN]

Init ==
  /\ ChannelInit
  /\ UdpInit
  /\ trackPcm = <<>> /\ written = <<>> /\ dropped = FALSE
  /\ session = [s \in Sessions |-> "none"]
  /\ rest = [s \in Sessions |-> <<>>]
  /\ streamed = [s \in Sessions |-> <<>>]
  /\ since = [l \in Listeners |-> 0]
  /\ overrun = [l \in Listeners |-> FALSE]

Joins(l) == Subscribe(l) /\ since' = [since EXCEPT ![l] = captured] /\ UNCHANGED overrun
Overruns(l) == overrun' = [overrun EXCEPT ![l] = TRUE] /\ UNCHANGED since

-----------------------------------------------------------------------------
\* main subscribes the two resident listeners; capture already runs.
Start(l) ==
  /\ l \in {Udp, Track}
  /\ Joins(l)
  /\ UNCHANGED <<udpVars, trackVars, webVars>>

Capture(n) ==
  /\ Publish(n)
  /\ UNCHANGED <<udpVars, trackVars, webVars, fanoutHistory>>

PumpReceives ==
  /\ PumpChunk
  /\ UNCHANGED <<trackVars, webVars, fanoutHistory>>

PumpLags ==
  /\ PumpLagged
  /\ Overruns(Udp)
  /\ UNCHANGED <<trackVars, webVars>>

Pace ==
  /\ PacerFrame \/ PacerStarved
  /\ UNCHANGED <<trackVars, webVars, fanoutHistory>>

-----------------------------------------------------------------------------
\* audio_to_track_writer: encode and write every complete frame, then recv.
\* The await of write_sample lets the other threads run between two frames.
TrackReceives ==
  /\ Len(trackPcm) < OpusFrame
  /\ Receive(Track)
  /\ trackPcm' = trackPcm \o Samples(Head(unread[Track]))
  /\ UNCHANGED <<written, dropped, udpVars, webVars, fanoutHistory>>

TrackLags ==
  /\ Len(trackPcm) < OpusFrame
  /\ ReceiveLagged(Track)
  /\ Overruns(Track)
  /\ UNCHANGED <<trackVars, udpVars, webVars>>

TrackTakes ==
  /\ Len(trackPcm) >= OpusFrame
  /\ trackPcm' = SubSeq(trackPcm, OpusFrame + 1, Len(trackPcm))
  /\ UNCHANGED <<channelVars, udpVars, webVars, fanoutHistory>>

TrackWrites ==
  /\ TrackTakes
  /\ written' = written \o SubSeq(trackPcm, 1, OpusFrame)
  /\ UNCHANGED dropped

\* The encoder or write_sample fails: a warning, and the frame is gone.
TrackFails ==
  /\ TrackTakes
  /\ dropped' = TRUE
  /\ UNCHANGED written

-----------------------------------------------------------------------------
\* The accept loop: subscribe, then spawn handle_session.
SessionAccepted(s) ==
  /\ session[s] = "none"
  /\ Joins(s)
  /\ session' = [session EXCEPT ![s] = "handshake"]
  /\ UNCHANGED <<udpVars, trackVars, rest, streamed>>

SessionEstablished(s) ==
  /\ session[s] = "handshake"
  /\ session' = [session EXCEPT ![s] = "streaming"]
  /\ UNCHANGED <<channelVars, udpVars, trackVars, rest, streamed, fanoutHistory>>

SessionReceives(s) ==
  /\ session[s] = "streaming" /\ rest[s] = <<>>
  /\ Receive(s)
  /\ rest' = [rest EXCEPT ![s] = Samples(Head(unread[s]))]
  /\ UNCHANGED <<session, streamed, udpVars, trackVars, fanoutHistory>>

SessionLags(s) ==
  /\ session[s] = "streaming" /\ rest[s] = <<>>
  /\ ReceiveLagged(s)
  /\ Overruns(s)
  /\ UNCHANGED <<udpVars, trackVars, webVars>>

Fragment(s) == IF Len(rest[s]) < Frame THEN Len(rest[s]) ELSE Frame

\* Seeded bug: only the first fragment of a chunk is sent.
SessionSendsFirst(s) ==
  /\ rest[s] # <<>>
  /\ streamed' = [streamed EXCEPT ![s] = @ \o SubSeq(rest[s], 1, Fragment(s))]
  /\ rest' = [rest EXCEPT ![s] = <<>>]
  /\ UNCHANGED <<session, channelVars, udpVars, trackVars, fanoutHistory>>

SessionSends(s) ==
  /\ rest[s] # <<>>
  /\ streamed' = [streamed EXCEPT ![s] = @ \o SubSeq(rest[s], 1, Fragment(s))]
  /\ rest' = [rest EXCEPT ![s] = SubSeq(@, Fragment(s) + 1, Len(@))]
  /\ UNCHANGED <<session, channelVars, udpVars, trackVars, fanoutHistory>>

\* The handshake fails, or send_datagram does: the task ends and drops its
\* receiver and the rest of the chunk.  Only a send tells that a peer is gone.
SessionEnds(s) ==
  /\ session[s] = "handshake" \/ rest[s] # <<>>
  /\ Unsubscribe(s)
  /\ session' = [session EXCEPT ![s] = "closed"]
  /\ rest' = [rest EXCEPT ![s] = <<>>]
  /\ UNCHANGED <<streamed, udpVars, trackVars, fanoutHistory>>

-----------------------------------------------------------------------------
TrackStep == TrackReceives \/ TrackLags \/ TrackWrites \/ TrackFails

SessionStreams(s) == SessionReceives(s) \/ SessionLags(s) \/ SessionSends(s)

Next ==
  \/ \E l \in Listeners : Start(l)
  \/ \E n \in ChunkSizes : Capture(n)
  \/ PumpReceives \/ PumpLags \/ Pace
  \/ TrackStep
  \/ \E s \in Sessions :
       \/ SessionAccepted(s) \/ SessionEstablished(s) \/ SessionEnds(s)
       \/ SessionStreams(s)

\* The tasks and the pacer are scheduled.  Nothing is assumed of the capture.
Fairness ==
  /\ WF_vars(PumpReceives \/ PumpLags)
  /\ WF_vars(Pace)
  /\ WF_vars(TrackStep)
  /\ \A s \in Sessions : WF_vars(SessionStreams(s))

Spec == Init /\ [][Next]_vars /\ Fairness

-----------------------------------------------------------------------------
Heard(l) ==
  CASE l = Udp -> popped [] l = Track -> written [] OTHER -> streamed[l]

Held(l) ==
  CASE l = Udp -> pcm [] l = Track -> trackPcm [] OTHER -> rest[l]

\* Every listener gets a lossy stream, whatever the threads' timing: what it is
\* sent are captured samples, in order and without repetition.
Stream(l) == INSTANCE LossyStream WITH heard <- Heard(l)

ListenersStream ==
  /\ \A l \in Listeners : Stream(l)!Init
  /\ [][\A l \in Listeners : [Stream(l)!Next]_(Stream(l)!vars)]_vars

Undisturbed(l) ==
  /\ l \in subscribed /\ ~lagged[l] /\ ~overrun[l]
  /\ l = Udp => ~skipped
  /\ l = Track => ~dropped

\* Samples captured before chunk i of those that wait in l's channel.
Before(l, i) == IF i > Len(unread[l]) THEN captured ELSE unread[l][i].after

\* A gap has a cause the code logs: the listener lagged, the pacer capped its
\* backlog, the track writer failed.  Otherwise all that was captured since it
\* subscribed has been sent or is in its hands, up to the chunks that wait in
\* the channel, and these go on from one to the next up to the newest sample.
NothingLostSilently ==
  \A l \in Listeners : Undisturbed(l) =>
    /\ Heard(l) \o Held(l) = [i \in 1 .. Before(l, 1) - since[l] |-> since[l] + i]
    /\ \A i \in 1 .. Len(unread[l]) :
         unread[l][i].after + unread[l][i].len = Before(l, i + 1)

\* Once capture goes quiet every task catches up, however far it lagged: less
\* than a frame stays with the two that send whole frames, and nothing at all
\* with a session that is streaming.
CaughtUp(l) ==
  /\ Before(l, 1) = captured
  /\ Len(Held(l)) < (CASE l = Udp -> Frame [] l = Track -> OpusFrame [] OTHER -> 1)

Served == {l \in subscribed : l \in Sessions => session[l] = "streaming"}

EveryoneCatchesUp ==
  captured = MaxSamples ~> \A l \in Served : CaughtUp(l)
=============================================================================
