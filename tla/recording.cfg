CONSTANTS
  NumCameras = 2
  QueueSize = 1
  MetaBuffer = 2
  MaxFrames = 2
  MaxTakes = 2
  MaxSessions = 3
SPECIFICATION FairSpec
INVARIANTS
  TypeOK
  ReadsBack
  VideosMatch
PROPERTIES
  ImplementsEpisodeStore
  SaveEnds
CHECK_DEADLOCK FALSE
