CONSTANTS
  FRAMES = 4
  Word <- MCWord
SPECIFICATION Spec
INVARIANTS TypeOK ListIsStack FramesConserved RealStatsExact
PROPERTY ImplementsFramePool
