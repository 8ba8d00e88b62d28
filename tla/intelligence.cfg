SPECIFICATION Spec
CONSTANTS
  Gap = Gap
  NoSpeaker = NoSpeaker
  NoContext = NoContext
  Malformed = Malformed
  Blank = Blank
  NoTime = NoTime
  NoChunk = NoChunk
  NoOwner = NoOwner
  LlmError = LlmError
  NoCall = NoCall
  NoIr = NoIr
  Notice = Notice
  Unset = Unset
  DefaultModel = DefaultModel
  Think = Think
  EndThink = EndThink
  NothingFound = NothingFound
  Listing = Listing
  NoVectors = NoVectors
  MaxChars = 6
  ContextWords = 1
  ShortWords = {"we", "it"}
  NoteChars = 4
  RRF_K = 60
  OneLetter = {"a"}
  TopK = 2
  SearchLimit = 3
  Runs = {"r1"}
  Askers = {"a1", "a2"}
  Callers = {"r1", "a1", "a2"}
  Meetings = {"m1", "m2", "m3"}
  Notes = {"n1", "n2"}
  TitleOf <- MCTitles
  Archives <- MCArchives
  Transcripts <- MCTranscripts
  Replies <- MCReplies
  Texts <- MCTexts
  Vaults <- MCVaults
  Contents <- MCContents
  Hash = Hash
  Stem <- MCStems
  Dimension <- MCDimension
  BeginsWith <- MCBeginsWith
  EndsWith <- MCEndsWith
  HasPart <- MCHasPart
  Questions <- MCQuestions
  Related <- MCRelated
  Documents <- MCDocuments
  Envs <- MCEnvs
  Budgets <- MCBudgets
CHECK_DEADLOCK FALSE
INVARIANTS
  ChunksPartition
  PassagesPartition
  EvidenceIsOwn
  MinutesAreGrounded
  RepeatIsFree
  CitationsAreCurrent
  CitationsAreRelevant
PROPERTIES
  ImplementsService
  TasksEnd
