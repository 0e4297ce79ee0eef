CONSTANTS
  Udp = Udp
  Listeners = {Udp}
  Cap = 3
  ChunkSizes = {0, 1, 2}
  MaxSamples = 9
  Frame = 1
  MaxFrames = 5
  MaxBurst = 2
  PumpLag = 1
  Late = 1
SPECIFICATION Spec
INVARIANT TypeOK
INVARIANT NothingSkipped
INVARIANT PaceInv
