SPECIFICATION FairSpec
CONSTANTS
  silence = silence
  talk = talk
  Jobs = {j1, j2}
  Meetings = {m1}
  Transcripts = {talk}
  ChunksOf <- MCOneChunk
  NoJob = NoJob
  NoMeeting = NoMeeting
  NoText = NoText
  NoRun = NoRun
  MAX_JOB_ATTEMPTS = 3
  StoreFails = FALSE
  QueueFails = FALSE
  MaxCrashes = 1
CHECK_DEADLOCK FALSE
PROPERTIES
  QueueDrains
  CapturesSettle
