SPECIFICATION Spec
CONSTANTS
  silence = silence
  talk = talk
  Jobs = {j1, j2}
  Meetings = {m1}
  Transcripts = {talk}
  ChunksOf <- MCOneChunk
  NoJob = NoJob
  NoMeeting = NoMeeting
  NoText = NoText
  NoRun = NoRun
  MAX_JOB_ATTEMPTS = 3
  StoreFails = TRUE
  QueueFails = FALSE
  MaxCrashes = 1
CHECK_DEADLOCK FALSE
INVARIANTS
  ReadyHasArtifacts
  CompletedIsReadable
  CancelledLeavesNoArtifact
PROPERTIES
  ClosedRowsStayClosed
