CONSTANTS
  MaxConnects = 2
SPECIFICATION SystemSpec
INVARIANT SystemTypeOK
INVARIANT ScreenAgrees
INVARIANT EngineOwned
INVARIANT ServesUntilAsked
PROPERTY StaleForgotten
PROPERTY ConnectingEnds
PROPERTY EndsWhenAsked
