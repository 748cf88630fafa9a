CONSTANTS
  MaxClips = 2
  AlarmDuration = 7
  PreDuration = 3
  FirstDuration = 5
  SecondDurations <- MCSecondDurations
  MaxJPGNo = 4
SPECIFICATION PushFairSpec
INVARIANTS ClipsInOrder SnapshotNamesFresh
PROPERTIES ImplementsAlarmClips EventEnds
