SPECIFICATION Spec
CONSTANTS
  silence = silence
  talk = talk
  Jobs = {j1}
  Meetings = {m1, m2}
  Transcripts = {silence, talk}
  ChunksOf <- MCTwoChunks
  NoJob = NoJob
  NoMeeting = NoMeeting
  NoText = NoText
  NoRun = NoRun
  MAX_JOB_ATTEMPTS = 3
  StoreFails = TRUE
  QueueFails = TRUE
  MaxCrashes = 4
CHECK_DEADLOCK FALSE
SYMMETRY MCSymmetry
INVARIANTS
  TypeOK
  OneCapturePerJob
PROPERTIES
  SourceNeverChanges
  ImplementsLibrary
