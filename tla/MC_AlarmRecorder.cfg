CONSTANTS
  Capacity = 4
  Sizes <- MCSizes
  Durations <- MCDurations
  Margin = 0
  Word = 64
  ChunkSize = 2
  Gaps <- MCGaps
  MaxTS = 6
  MaxClips = 2
  AlarmDuration = 4
  PreDuration = 1
  FirstDuration = 2
  SecondDurations <- MCSecondDurations
  MaxJPGNo = 0
SPECIFICATION Spec
INVARIANTS ClipsPlayable
PROPERTIES ImplementsBuffer ImplementsHandler
