CONSTANTS
  Capacity = 5
  Sizes <- MCSizes
  Durations <- MCDurations
  Margin = 1
  Word = 64
  ChunkSize = 3
  Gaps <- MCGaps
  MaxTS = 8
SPECIFICATION AVSpec

PROPERTIES RecycleKeepsNewestGOP
