-------------------------- MODULE MC_AlarmRecorder --------------------------
EXTENDS AlarmRecorder
MCSizes == {1}
MCDurations == {2, 3}
MCGaps == {1}
MCSecondDurations == {3}
=============================================================================
