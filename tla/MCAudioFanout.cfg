CONSTANTS
  Udp = Udp
  Track = Track
  s1 = s1
  Sessions = {s1}
  Listeners = {Udp, Track, s1}
  Cap = 2
  ChunkSizes = {2, 3}
  MaxSamples = 6
  Frame = 2
  MaxFrames = 2
  OpusFrame = 2
SPECIFICATION Spec
INVARIANT TypeOK
INVARIANT NothingLostSilently
PROPERTY ListenersStream
PROPERTY EveryoneCatchesUp
