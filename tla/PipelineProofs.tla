--------------------------- MODULE PipelineProofs ---------------------------
(***************************************************************************)
(* Proofs about Pipeline, for every set of jobs, meetings and transcripts, *)
(* every retry budget, any number of crashes, and with or without failing  *)
(* databases: its types, the library it implements, and its job queue --   *)
(* what a job announces, what its row in jobs.db says, and what its run    *)
(* leaves behind.                                                          *)
(***************************************************************************)
EXTENDS Pipeline, TLAPS

-----------------------------------------------------------------------------
(* Type correctness, one group of variables at a time *)

\* The type of a task.
TaskRecord == [at : Points, meeting : Meetings \cup {NoMeeting},
               text : Transcripts \cup {NoText}, left : Nat,
               outcome : Outcomes]

StoreTyped ==
  /\ creator \in [Meetings -> Jobs \cup {NoJob}]
  /\ transcript \in [Meetings -> Transcripts \cup {NoText}]
  /\ ir \in [Meetings -> Runs \cup {NoRun}]
  /\ mom \in [Meetings -> Runs \cup {NoRun}]
  /\ people \in [Meetings -> Runs \cup {NoRun}]
  /\ status \in [Meetings ->
                  {"none", "processing", "ready", "deferred", "failed"}]

RecordsTyped == job \in [Jobs -> JobRecord] /\ row \in [Jobs -> JobRecord]

TasksTyped == task \in [Jobs -> TaskRecord]

EngineTyped ==
  /\ engine \in {"down", "statuses", "queue", "up"}
  /\ interrupted \subseteq Meetings /\ unfinished \subseteq Jobs
  /\ cancel \in [Jobs -> BOOLEAN]
  /\ announced \in [Jobs -> {"none", "completed", "failed"}]
  /\ issued \subseteq Jobs /\ crashes \in 0 .. MaxCrashes

LEMMA TypeParts ==
  TypeOK <=> StoreTyped /\ RecordsTyped /\ TasksTyped /\ EngineTyped
BY DEF TypeOK, StoreTyped, RecordsTyped, TasksTyped, EngineTyped, TaskRecord

LEMMA TypeInit == Init => TypeOK
<1>1. Absent \in JobRecord /\ Idle \in TaskRecord
  BY ConstantsAssumption
     DEF Absent, NewJob, JobRecord, JobStage, JobStatus, Idle, TaskRecord,
         Points, Outcomes
<1>2. QED
  BY <1>1, TypeParts, ConstantsAssumption
     DEF Init, StoreTyped, RecordsTyped, TasksTyped, EngineTyped

\* What the code writes as a job is a job, in memory and in jobs.db.
LEMMA RecordTyped ==
  ASSUME RecordsTyped, NEW j \in Jobs, NEW r \in JobRecord, Record(j, r)
  PROVE  RecordsTyped'
BY DEF RecordsTyped, Record, Mirror

\* Changing one field of a job leaves a job.
LEMMA JobFields ==
  ASSUME NEW r \in JobRecord
  PROVE  /\ \A s \in JobStatus : [r EXCEPT !.status = s] \in JobRecord
         /\ \A s \in JobStage : [r EXCEPT !.stage = s] \in JobRecord
         /\ \A m \in Meetings \cup {NoMeeting} :
              [r EXCEPT !.meeting = m] \in JobRecord
         /\ \A n \in 0 .. MAX_JOB_ATTEMPTS :
              [r EXCEPT !.attempts = n] \in JobRecord
         /\ [r EXCEPT !.kind = "reprocess"] \in JobRecord
BY DEF JobRecord

LEMMA SetStageTyped ==
  ASSUME RecordsTyped, NEW j \in Jobs, NEW s \in JobStage, SetStage(j, s)
  PROVE  RecordsTyped'
<1>1. [job[j] EXCEPT !.stage = s] \in JobRecord
  BY JobFields DEF RecordsTyped
<1>2. QED
  BY <1>1, RecordTyped DEF SetStage

\* Every action writes well-formed jobs.
LEMMA RecordsStep ==
  ASSUME RecordsTyped, TasksTyped, EngineTyped, Next
  PROVE  RecordsTyped'
<1>1. ASSUME NEW j \in Jobs, TaskStep(j)
      PROVE  RecordsTyped'
  <2>0. job[j] \in JobRecord /\ task[j].meeting \in Meetings \cup {NoMeeting}
    BY DEF RecordsTyped, TasksTyped, TaskRecord
  <2>1. CASE Begin(j)
    <3>1. [job[j] EXCEPT !.status = "running"] \in JobRecord
      BY <2>0, JobFields DEF JobStatus
    <3>2. QED
      BY <2>1, <3>1, RecordTyped DEF Begin
  <2>2. CASE Link(j)
    <3>1. [job[j] EXCEPT !.meeting = task[j].meeting] \in JobRecord
      BY <2>0, JobFields
    <3>2. [[job[j] EXCEPT !.meeting = task[j].meeting] EXCEPT !.stage = "media"]
            \in JobRecord
      BY <3>1, JobFields DEF JobStage
    <3>3. QED
      BY <2>2, <3>1, <3>2, RecordTyped DEF Link
  <2>3. CASE Rebegin(j)
    <3>1. [[job[j] EXCEPT !.status = "running"]
             EXCEPT !.meeting = task[j].meeting] \in JobRecord
      BY <2>0, JobFields DEF JobStatus
    <3>2. QED
      BY <2>3, <3>1, RecordTyped DEF Rebegin
  <2>4. CASE Finish(j)
    <3>1. /\ [job[j] EXCEPT !.status = "cancelled"] \in JobRecord
          /\ [job[j] EXCEPT !.status = "failed"] \in JobRecord
          /\ [[[job[j] EXCEPT !.status = "completed"] EXCEPT !.stage = "done"]
                EXCEPT !.meeting = task[j].meeting] \in JobRecord
      BY <2>0, JobFields DEF JobStatus, JobStage
    <3>2. QED
      BY <2>4, <3>1, RecordTyped DEF Finish
  <2>5. CASE \/ Media(j) \/ MarkProcessing(j) \/ Chunk(j) \/ Extract(j)
             \/ Synthesize(j) \/ SaveIr(j) \/ Render(j)
    <3>1. \/ UNCHANGED <<job, row>>
          \/ \E s \in JobStage : SetStage(j, s)
      BY <2>5 DEF Media, MarkProcessing, Chunk, Extract, Synthesize, SaveIr,
           Render, CheckCancelThenEnter, Enter, JobStage
    <3>2. QED
      BY <3>1, SetStageTyped DEF RecordsTyped
  <2>6. CASE \/ SaveMeeting(j) \/ Transcribe(j) \/ SaveTranscript(j) \/ Load(j)
             \/ Validate(j) \/ SaveMom(j) \/ SaveParticipants(j) \/ Settle(j)
    BY <2>6 DEF SaveMeeting, Transcribe, SaveTranscript, Load, Validate, SaveMom,
         SaveParticipants, Settle, RecordsTyped
  <2>7. QED
    BY <1>1, <2>1, <2>2, <2>3, <2>4, <2>5, <2>6 DEF TaskStep
<1>2. CASE Requests
  <2>1. NewJob("process", "queued") \in JobRecord
        /\ NewJob("reprocess", "queued") \in JobRecord
    BY ConstantsAssumption DEF NewJob, JobRecord, JobStatus, JobStage
  <2>2. QED
    BY <1>2, <2>1, RecordTyped
       DEF Requests, StartProcessing, StartReprocessing, Spawn, CancelJob,
           RecordsTyped
<1>3. CASE Crash
  <2>1. Absent \in JobRecord
    BY ConstantsAssumption DEF Absent, NewJob, JobRecord, JobStatus, JobStage
  <2>2. QED
    BY <1>3, <2>1 DEF Crash, RecordsTyped
<1>4. CASE Recovery
  <2>1. ASSUME NEW j \in Jobs, ResumeJob(j)
        PROVE  RecordsTyped'
    <3>1. row[j] \in JobRecord /\ row[j].attempts < MAX_JOB_ATTEMPTS
      BY <2>1 DEF RecordsTyped, ResumeJob, WithinBudget
    <3>0. row[j].attempts + 1 \in 0 .. MAX_JOB_ATTEMPTS
      BY <3>1, ConstantsAssumption DEF JobRecord
    <3>2. [[[row[j] EXCEPT !.attempts = row[j].attempts + 1]
              EXCEPT !.status = "queued"] EXCEPT !.kind = "reprocess"]
            \in JobRecord
      BY <3>1, <3>0, JobFields DEF JobStatus
    <3>3. QED
      BY <2>1, <3>2, RecordTyped DEF ResumeJob
  <2>2. ASSUME NEW j \in Jobs, CloseJob(j)
        PROVE  RecordsTyped'
    <3>1. [row[j] EXCEPT !.status = "failed"] \in JobRecord
      BY JobFields DEF RecordsTyped, JobStatus
    <3>2. QED
      BY <2>2, <3>1 DEF CloseJob, Mirror, RecordsTyped
  <2>3. CASE \/ Start \/ ListUnfinished \/ Serve
             \/ \E m \in Meetings : DeferInterrupted(m)
    BY <2>3 DEF Start, ListUnfinished, Serve, DeferInterrupted, RecordsTyped
  <2>4. QED
    BY <1>4, <2>1, <2>2, <2>3 DEF Recovery
<1>5. QED
  BY <1>1, <1>2, <1>3, <1>4 DEF Next

\* Every write to notely.db is well formed.
LEMMA StoreStep ==
  ASSUME StoreTyped, RecordsTyped, TasksTyped, EngineTyped, Next
  PROVE  StoreTyped'
<1>1. ASSUME NEW j \in Jobs, TaskStep(j)
      PROVE  StoreTyped'
  <2>0. /\ RunOf(j) \in Runs
        /\ task[j].text \in Transcripts \cup {NoText}
    BY DEF RecordsTyped, JobRecord, RunOf, Runs, TasksTyped, TaskRecord
  <2>1. CASE \/ Begin(j) \/ Link(j) \/ Media(j) \/ Transcribe(j) \/ Rebegin(j)
             \/ Load(j) \/ Chunk(j) \/ Extract(j) \/ Synthesize(j)
             \/ Validate(j) \/ Render(j) \/ Finish(j)
    BY <2>1 DEF Begin, Link, Media, Transcribe, Rebegin, Load, Chunk, Extract,
         Synthesize, Validate, Render, Finish, store, StoreTyped
  <2>2. CASE SaveMeeting(j) \/ SaveTranscript(j)
    BY <2>0, <2>2 DEF SaveMeeting, SaveTranscript, StoreTyped
  <2>3. CASE MarkProcessing(j) \/ Settle(j)
    BY <2>3 DEF MarkProcessing, Settle, PersistStatus, StatusAfter, StoreTyped
  <2>4. CASE SaveIr(j) \/ SaveMom(j) \/ SaveParticipants(j)
    BY <2>0, <2>4 DEF SaveIr, SaveMom, SaveParticipants, StoreTyped
  <2>5. QED
    BY <1>1, <2>1, <2>2, <2>3, <2>4 DEF TaskStep
<1>2. CASE Requests
  BY <1>2 DEF Requests, StartProcessing, StartReprocessing, Spawn, CancelJob,
       store, StoreTyped
<1>3. CASE Crash
  BY <1>3 DEF Crash, store, StoreTyped
<1>4. CASE Recovery
  BY <1>4 DEF Recovery, Start, ListUnfinished, Serve, DeferInterrupted,
       PersistStatus, ResumeJob, CloseJob, store, StoreTyped
<1>5. QED
  BY <1>1, <1>2, <1>3, <1>4 DEF Next

\* Changing fields of a task leaves a task.
LEMMA TaskTyped ==
  ASSUME TasksTyped, NEW j \in Jobs, NEW r \in TaskRecord,
         task' = [task EXCEPT ![j] = r]
  PROVE  TasksTyped'
BY DEF TasksTyped

LEMMA GotoTyped ==
  ASSUME TasksTyped, NEW j \in Jobs, NEW p \in Points, Goto(j, p)
  PROVE  TasksTyped'
BY DEF TasksTyped, TaskRecord, Goto

LEMMA ReturnTyped ==
  ASSUME TasksTyped, NEW j \in Jobs, NEW o \in Outcomes, Return(j, o)
  PROVE  TasksTyped'
<1>1. "finish" \in Points
  BY DEF Points
<1>2. QED
  BY <1>1 DEF TasksTyped, TaskRecord, Return

\* Past "saveMeeting" a task knows its meeting.
Placed ==
  \A j \in Jobs :
    task[j].at \in {"link", "media", "asr", "saveTranscript", "rebegin", "load",
                   "mark"} \cup Enriching
      => task[j].meeting \in Meetings

\* Every await point a task reaches, and every local it sets, is well formed.
LEMMA TasksStep ==
  ASSUME StoreTyped, RecordsTyped, TasksTyped, EngineTyped, Placed, Next
  PROVE  TasksTyped'
<1>0. /\ {"saveMeeting", "link", "media", "asr", "saveTranscript", "begin",
          "rebegin", "load", "mark", "settle", "idle", "chunk", "extract",
          "synthesize", "validate", "saveIr", "render", "saveMom",
          "saveParticipants"} \subseteq Points
      /\ {"ok", "cancelled", "storage", "error"} \subseteq Outcomes
      /\ Idle \in TaskRecord
  BY ConstantsAssumption
     DEF Points, Capturing, Enriching, Outcomes, Idle, TaskRecord
<1>1. ASSUME NEW j \in Jobs, TaskStep(j)
      PROVE  TasksTyped'
  <2>0. task[j] \in TaskRecord
    BY DEF TasksTyped
  <2>1. CASE \/ Begin(j) \/ Link(j) \/ Media(j) \/ SaveTranscript(j)
             \/ Rebegin(j) \/ MarkProcessing(j) \/ Synthesize(j) \/ Validate(j)
             \/ SaveIr(j) \/ Render(j) \/ SaveMom(j) \/ SaveParticipants(j)
             \/ Finish(j)
    <3>1. \/ \E p \in Points : Goto(j, p)
          \/ \E o \in Outcomes : Return(j, o)
      BY <1>0, <2>1
         DEF Begin, Link, Media, SaveTranscript, Rebegin, MarkProcessing,
             Synthesize, Validate, SaveIr, Render, SaveMom, SaveParticipants,
             Finish, CheckCancelThenEnter, Enter, StorageError
    <3>2. QED
      BY <3>1, GotoTyped, ReturnTyped
  <2>2. CASE SaveMeeting(j)
    BY <1>0, <2>0, <2>2, ReturnTyped
       DEF SaveMeeting, StorageError, TasksTyped, TaskRecord
  <2>3. CASE Transcribe(j)
    BY <1>0, <2>0, <2>3, ReturnTyped DEF Transcribe, TasksTyped, TaskRecord
  <2>4. CASE Load(j)
    <3>1. CASE \E o \in Outcomes : Return(j, o)
      BY <3>1, ReturnTyped
    <3>2. CASE task' = [task EXCEPT ![j].at = "mark",
                                    ![j].text = transcript[task[j].meeting]]
               /\ transcript[task[j].meeting] # NoText
               /\ creator[task[j].meeting] # NoJob
               /\ task[j].meeting \in Meetings
      BY <1>0, <2>0, <3>2 DEF StoreTyped, TasksTyped, TaskRecord
    <3>3. task[j].meeting \in Meetings
      BY <2>4 DEF Load, At, Placed
    <3>4. QED
      BY <1>0, <2>4, <3>1, <3>2, <3>3 DEF Load, StorageError
  <2>5. CASE Chunk(j)
    BY <1>0, <2>0, <2>5, GotoTyped, ReturnTyped, ConstantsAssumption
       DEF Chunk, Enter, TasksTyped, TaskRecord
  <2>6. CASE Extract(j)
    BY <1>0, <2>0, <2>6, ReturnTyped
       DEF Extract, TasksTyped, TaskRecord
  <2>7. CASE Settle(j)
    BY <1>0, <2>7, TaskTyped DEF Settle
  <2>8. QED
    BY <1>1, <2>1, <2>2, <2>3, <2>4, <2>5, <2>6, <2>7 DEF TaskStep
<1>2. CASE Requests
  BY <1>0, <1>2, TaskTyped
     DEF Requests, StartProcessing, StartReprocessing, Spawn, CancelJob,
         TasksTyped, TaskRecord
<1>3. CASE Crash
  BY <1>0, <1>3 DEF Crash, TasksTyped
<1>4. CASE Recovery
  <2>1. ASSUME NEW j \in Jobs, ResumeJob(j)
        PROVE  TasksTyped'
    <3>1. row[j].meeting \in Meetings
      BY <2>1 DEF RecordsTyped, JobRecord, ResumeJob, Resumable
    <3>2. [Idle EXCEPT !.at = "rebegin", !.meeting = row[j].meeting]
            \in TaskRecord
      BY <1>0, <3>1 DEF TaskRecord
    <3>3. QED
      BY <2>1, <3>2, TaskTyped DEF ResumeJob
  <2>2. QED
    BY <1>4, <2>1 DEF Recovery, Start, ListUnfinished, Serve, DeferInterrupted,
         CloseJob, TasksTyped
<1>5. QED
  BY <1>1, <1>2, <1>3, <1>4 DEF Next

\* Requests, the crash and recovery keep the rest well typed.
LEMMA EngineStep ==
  ASSUME EngineTyped, Next
  PROVE  EngineTyped'
<1>1. ASSUME NEW j \in Jobs, TaskStep(j)
      PROVE  EngineTyped'
  BY <1>1 DEF TaskStep, Begin, SaveMeeting, Link, Media, Transcribe,
       SaveTranscript, Rebegin, Load, MarkProcessing, Chunk, Extract, Synthesize,
       Validate, SaveIr, Render, SaveMom, SaveParticipants, Finish, Settle,
       TaskFrame, recovery, EngineTyped
<1>2. CASE Requests
  BY <1>2 DEF Requests, StartProcessing, StartReprocessing, Spawn, CancelJob,
       recovery, EngineTyped
<1>3. CASE Crash
  BY <1>3, ConstantsAssumption DEF Crash, EngineTyped
<1>4. CASE Recovery
  BY <1>4 DEF Recovery, Start, ListUnfinished, Serve, DeferInterrupted,
       ResumeJob, CloseJob, RecoveryFrame, EngineTyped
<1>5. QED
  BY <1>1, <1>2, <1>3, <1>4 DEF Next

-----------------------------------------------------------------------------
(* The inductive invariant *)

\* A job captures once: until its run has inserted a meeting no meeting is its
\* own, and until it has stored the transcript that meeting has none.
CaptureInv ==
  /\ \A j \in Jobs :
       /\ j \notin issued \/ task[j].at \in {"begin", "saveMeeting"} =>
            \A m \in Meetings : creator[m] # j
       /\ task[j].at \in {"link", "media", "asr", "saveTranscript"} =>
            /\ creator[task[j].meeting] = j
            /\ transcript[task[j].meeting] = NoText
       /\ task[j].at = "saveTranscript" => task[j].text # NoText
  /\ \A m \in Meetings : creator[m] = NoJob => transcript[m] = NoText

\* A job id that was never handed out is nowhere.
IssuedInv ==
  \A j \in Jobs \ issued :
    task[j].at = "idle" /\ row[j].status = "absent" /\ j \notin unfinished

\* What a task that enriches, or is about to report success, has on disk.
EnrichInv ==
  \A j \in Jobs :
    LET m == task[j].meeting
        succeeded == task[j].at \in {"finish", "settle"} /\ task[j].outcome = "ok"
    IN
    /\ task[j].at \in {"mark"} \cup Enriching => transcript[m] # NoText
    /\ task[j].at \in {"render", "saveMom"} => ir[m] # NoRun
    /\ task[j].at = "saveParticipants" => Enriched(m)
    /\ succeeded => m \in Meetings /\ transcript[m] # NoText /\ Enriched(m)
    /\ succeeded /\ task[j].at = "settle" => job[j].meeting = m

\* What a durable status claims is on disk.
StatusInv ==
  \A m \in Meetings :
    /\ status[m] = "processing" => transcript[m] # NoText
    /\ status[m] = "ready" => transcript[m] # NoText /\ Enriched(m)

IInv ==
  /\ TypeOK
  /\ Placed
  /\ IssuedInv
  /\ CaptureInv
  /\ OneCapturePerJob
  /\ EnrichInv
  /\ StatusInv

LEMMA InvInit == Init => IInv
<1>1. Init => Placed /\ EnrichInv
  BY DEF Init, Idle, Placed, EnrichInv, Enriching
<1>2. Init => IssuedInv
  <2>1. Idle.at = "idle" /\ Absent.status = "absent"
    BY DEF Idle, Absent, NewJob
  <2>2. QED
    BY <2>1 DEF Init, IssuedInv
<1>3. Init => CaptureInv /\ OneCapturePerJob /\ StatusInv
  BY ConstantsAssumption
     DEF Init, Idle, CaptureInv, OneCapturePerJob, StatusInv
<1>4. QED
  BY <1>1, <1>2, <1>3, TypeInit DEF IInv

\* No step takes anything away from notely.db: an inserted meeting keeps its
\* creator, a stored transcript keeps its text, artifacts are only replaced.
LEMMA StoreOnlyGrows ==
  ASSUME IInv, Next, NEW m \in Meetings
  PROVE  /\ creator[m] # NoJob => creator'[m] = creator[m]
         /\ transcript[m] # NoText => transcript'[m] = transcript[m]
         /\ ir[m] # NoRun => ir'[m] # NoRun
         /\ mom[m] # NoRun => mom'[m] # NoRun
<1>0. StoreTyped /\ RecordsTyped /\ TasksTyped /\ CaptureInv /\ NoRun \notin Runs
  BY TypeParts, ConstantsAssumption DEF IInv
<1>1. ASSUME NEW j \in Jobs, TaskStep(j)
      PROVE  /\ creator[m] # NoJob => creator'[m] = creator[m]
             /\ transcript[m] # NoText => transcript'[m] = transcript[m]
             /\ ir[m] # NoRun => ir'[m] # NoRun
             /\ mom[m] # NoRun => mom'[m] # NoRun
  <2>0. RunOf(j) \in Runs
    BY <1>0 DEF RecordsTyped, JobRecord, RunOf, Runs
  <2>1. CASE SaveMeeting(j)
    BY <1>0, <2>1 DEF SaveMeeting, StoreTyped
  <2>2. CASE SaveTranscript(j)
    BY <1>0, <2>2 DEF SaveTranscript, StoreTyped, CaptureInv, At
  <2>3. CASE SaveIr(j) \/ SaveMom(j)
    BY <1>0, <2>0, <2>3 DEF SaveIr, SaveMom, StoreTyped
  <2>4. CASE \/ Begin(j) \/ Link(j) \/ Media(j) \/ Transcribe(j) \/ Rebegin(j)
             \/ Load(j) \/ Chunk(j) \/ Extract(j) \/ Synthesize(j)
             \/ Validate(j) \/ Render(j) \/ Finish(j) \/ MarkProcessing(j)
             \/ SaveParticipants(j) \/ Settle(j)
    BY <2>4 DEF Begin, Link, Media, Transcribe, Rebegin, Load, Chunk, Extract,
         Synthesize, Validate, Render, Finish, MarkProcessing, SaveParticipants,
         Settle, store
  <2>5. QED
    BY <1>1, <2>1, <2>2, <2>3, <2>4 DEF TaskStep
<1>2. CASE Requests
  BY <1>2 DEF Requests, StartProcessing, StartReprocessing, Spawn, CancelJob, store
<1>3. CASE Crash
  BY <1>3 DEF Crash, store
<1>4. CASE Recovery
  BY <1>4 DEF Recovery, Start, ListUnfinished, Serve, DeferInterrupted,
       ResumeJob, CloseJob, store
<1>5. QED
  BY <1>1, <1>2, <1>3, <1>4 DEF Next

\* A step of one task leaves the task and the job of every other alone.
LEMMA OthersAlone ==
  ASSUME RecordsTyped, TasksTyped, NEW j \in Jobs, TaskStep(j),
         NEW i \in Jobs, i # j
  PROVE  task'[i] = task[i] /\ job'[i] = job[i] /\ issued' = issued
<1>1. task'[i] = task[i]
  BY DEF TaskStep, Begin, SaveMeeting, Link, Media, Transcribe,
       SaveTranscript, Rebegin, Load, MarkProcessing, Chunk, Extract, Synthesize,
       Validate, SaveIr, Render, SaveMom, SaveParticipants, Finish, Settle,
       CheckCancelThenEnter, Enter, Goto, Return, StorageError, TasksTyped
<1>2. job'[i] = job[i]
  BY DEF TaskStep, Begin, SaveMeeting, Link, Media, Transcribe,
       SaveTranscript, Rebegin, Load, MarkProcessing, Chunk, Extract, Synthesize,
       Validate, SaveIr, Render, SaveMom, SaveParticipants, Finish, Settle,
       CheckCancelThenEnter, Enter, SetStage, Record, RecordsTyped
<1>3. issued' = issued
  BY DEF TaskStep, Begin, SaveMeeting, Link, Media, Transcribe,
       SaveTranscript, Rebegin, Load, MarkProcessing, Chunk, Extract, Synthesize,
       Validate, SaveIr, Render, SaveMom, SaveParticipants, Finish, Settle,
       TaskFrame
<1>4. QED
  BY <1>1, <1>2, <1>3

LEMMA PlacedStep ==
  ASSUME IInv, Next
  PROVE  Placed'
<1>0. RecordsTyped /\ TasksTyped /\ Placed /\ Idle.at = "idle"
  BY TypeParts DEF IInv, Idle
<1>1. ASSUME NEW j \in Jobs, TaskStep(j)
      PROVE  Placed'
  <2>1. task'[j].at \in {"link", "media", "asr", "saveTranscript", "rebegin",
                         "load", "mark"} \cup Enriching
          => task'[j].meeting \in Meetings
    <3>1. CASE SaveMeeting(j)
      BY <1>0, <3>1 DEF SaveMeeting, StorageError, Return, TasksTyped, TaskRecord,
           Enriching
    <3>2. CASE Settle(j) \/ Begin(j)
      BY <1>0, <3>2 DEF Settle, Begin, Goto, TasksTyped, TaskRecord, Enriching
    <3>3. CASE Link(j) \/ Media(j) \/ Transcribe(j) \/ SaveTranscript(j)
               \/ Rebegin(j) \/ Load(j) \/ MarkProcessing(j) \/ Chunk(j)
               \/ Extract(j) \/ Synthesize(j)
      BY <1>0, <3>3
         DEF Link, Media, Transcribe, SaveTranscript, Rebegin, Load,
             MarkProcessing, Chunk, Extract, Synthesize, CheckCancelThenEnter,
             Enter, Goto, Return, StorageError, At, TasksTyped, TaskRecord,
             Placed, Enriching
    <3>4. CASE Validate(j) \/ SaveIr(j) \/ Render(j) \/ SaveMom(j)
               \/ SaveParticipants(j) \/ Finish(j)
      BY <1>0, <3>4
         DEF Validate, SaveIr, Render, SaveMom, SaveParticipants, Finish, Enter,
             Goto, Return, StorageError, At, TasksTyped, TaskRecord, Placed,
             Enriching
    <3>5. QED
      BY <1>1, <3>1, <3>2, <3>3, <3>4 DEF TaskStep
  <2>2. QED
    BY <1>0, <1>1, <2>1, OthersAlone DEF Placed
<1>2. CASE Requests
  <2>1. ASSUME NEW j \in Jobs, NEW text \in Transcripts \cup {NoText},
               StartProcessing(j, text)
        PROVE  Placed'
    BY <1>0, <2>1 DEF StartProcessing, Spawn, Idle, TasksTyped, Placed, Enriching
  <2>2. ASSUME NEW j \in Jobs, NEW m \in Meetings, StartReprocessing(j, m)
        PROVE  Placed'
    BY <1>0, <2>2 DEF StartReprocessing, Spawn, Idle, TasksTyped, Placed
  <2>3. ASSUME NEW j \in Jobs, CancelJob(j)
        PROVE  Placed'
    BY <1>0, <2>3 DEF CancelJob, Placed
  <2>4. QED
    BY <1>2, <2>1, <2>2, <2>3 DEF Requests
<1>3. CASE Crash
  BY <1>0, <1>3 DEF Crash, Placed, Enriching
<1>4. CASE Recovery
  <2>1. ASSUME NEW j \in Jobs, ResumeJob(j)
        PROVE  Placed'
    <3>1. row[j].meeting \in Meetings
      BY <1>0, <2>1 DEF RecordsTyped, JobRecord, ResumeJob, Resumable
    <3>2. QED
      BY <1>0, <2>1, <3>1 DEF ResumeJob, Placed, Idle, TasksTyped
  <2>2. QED
    BY <1>0, <1>4, <2>1
       DEF Recovery, Start, ListUnfinished, Serve, DeferInterrupted, CloseJob,
           Placed
<1>5. QED
  BY <1>1, <1>2, <1>3, <1>4 DEF Next

LEMMA IssuedStep ==
  ASSUME IInv, Next
  PROVE  IssuedInv'
<1>0. /\ RecordsTyped /\ TasksTyped /\ EngineTyped /\ IssuedInv
      /\ Idle.at = "idle"
  BY TypeParts DEF IInv, Idle
<1>1. ASSUME NEW j \in Jobs, TaskStep(j)
      PROVE  IssuedInv'
  <2>1. task[j].at # "idle"
    BY <1>1 DEF TaskStep, Begin, SaveMeeting, Link, Media, Transcribe,
         SaveTranscript, Rebegin, Load, MarkProcessing, Chunk, Extract,
         Synthesize, Validate, SaveIr, Render, SaveMom, SaveParticipants,
         Finish, Settle, At
  <2>2. j \in issued
    BY <1>0, <2>1 DEF IssuedInv
  <2>3. \A i \in Jobs : i # j => task'[i] = task[i] /\ issued' = issued
    BY <1>0, <1>1, OthersAlone
  <2>4. \A i \in Jobs : i # j => row'[i] = row[i]
    BY <1>0, <1>1
       DEF TaskStep, Begin, SaveMeeting, Link, Media, Transcribe,
           SaveTranscript, Rebegin, Load, MarkProcessing, Chunk, Extract,
           Synthesize, Validate, SaveIr, Render, SaveMom, SaveParticipants,
           Finish, Settle, CheckCancelThenEnter, Enter, SetStage, Record,
           Mirror, RecordsTyped
  <2>5. issued' = issued /\ unfinished' = unfinished
    BY <1>1
       DEF TaskStep, Begin, SaveMeeting, Link, Media, Transcribe,
           SaveTranscript, Rebegin, Load, MarkProcessing, Chunk, Extract,
           Synthesize, Validate, SaveIr, Render, SaveMom, SaveParticipants,
           Finish, Settle, TaskFrame, recovery
  <2>6. QED
    BY <1>0, <2>2, <2>3, <2>4, <2>5 DEF IssuedInv
<1>2. CASE Requests
  BY <1>0, <1>2
     DEF Requests, StartProcessing, StartReprocessing, Spawn, CancelJob, Record,
         Mirror, RecordsTyped, TasksTyped, recovery, IssuedInv
<1>3. CASE Crash
  BY <1>0, <1>3 DEF Crash, IssuedInv
<1>4. CASE Recovery
  <2>1. ASSUME NEW j \in Jobs, ResumeJob(j) \/ CloseJob(j)
        PROVE  IssuedInv'
    BY <1>0, <2>1 DEF ResumeJob, CloseJob, Record, Mirror, RecoveryFrame,
         RecordsTyped, TasksTyped, IssuedInv
  <2>2. QED
    BY <1>0, <1>4, <2>1
       DEF Recovery, Start, ListUnfinished, Serve, DeferInterrupted,
           RecoveryFrame, IssuedInv
<1>5. QED
  BY <1>1, <1>2, <1>3, <1>4 DEF Next

\* The capture of a job stays its own: the heart of OneCapturePerJob and of
\* SourceNeverChanges.
LEMMA CaptureStep ==
  ASSUME IInv, Next
  PROVE  CaptureInv'
<1>0. /\ StoreTyped /\ RecordsTyped /\ TasksTyped /\ EngineTyped
      /\ Placed /\ IssuedInv /\ CaptureInv /\ Idle.at = "idle"
  BY TypeParts DEF IInv, Idle
<1>1. ASSUME NEW j \in Jobs, TaskStep(j)
      PROVE  CaptureInv'
  <2>0. \/ SaveMeeting(j) /\ UNCHANGED transcript
        \/ SaveTranscript(j) /\ UNCHANGED creator
        \/ UNCHANGED <<creator, transcript>>
    BY <1>1
       DEF TaskStep, Begin, SaveMeeting, Link, Media, Transcribe,
           SaveTranscript, Rebegin, Load, MarkProcessing, Chunk, Extract,
           Synthesize, Validate, SaveIr, Render, SaveMom, SaveParticipants,
           Finish, Settle, store
  <2>1. \A m \in Meetings :
          \/ creator'[m] = creator[m]
          \/ creator[m] = NoJob /\ creator'[m] = j /\ task[j].at = "saveMeeting"
    BY <1>0, <2>0 DEF SaveMeeting, At, StoreTyped
  <2>2. \A m \in Meetings :
          \/ transcript'[m] = transcript[m]
          \/ task[j].at = "saveTranscript" /\ m = task[j].meeting
    BY <1>0, <2>0 DEF SaveTranscript, At, StoreTyped
  <2>3. task[j].at = "saveTranscript" => creator[task[j].meeting] = j
    BY <1>0 DEF CaptureInv
  <2>4. \A m \in Meetings : creator'[m] = NoJob => transcript'[m] = NoText
    BY <1>0, <2>1, <2>2, <2>3, ConstantsAssumption DEF CaptureInv
  <2>5. ASSUME NEW i \in Jobs, i # j
        PROVE  /\ i \notin issued' \/ task'[i].at \in {"begin", "saveMeeting"} =>
                    \A m \in Meetings : creator'[m] # i
               /\ task'[i].at \in {"link", "media", "asr", "saveTranscript"} =>
                    /\ creator'[task'[i].meeting] = i
                    /\ transcript'[task'[i].meeting] = NoText
               /\ task'[i].at = "saveTranscript" => task'[i].text # NoText
    <3>1. task'[i] = task[i] /\ issued' = issued
      BY <1>0, <1>1, <2>5, OthersAlone
    <3>2. task[i].at \in {"link", "media", "asr", "saveTranscript"} =>
            /\ creator'[task[i].meeting] = i
            /\ transcript'[task[i].meeting] = NoText
      BY <1>0, <2>1, <2>2, <2>3, <2>5, ConstantsAssumption DEF CaptureInv, Placed
    <3>3. QED
      BY <1>0, <2>1, <2>5, <3>1, <3>2 DEF CaptureInv
  <2>6. /\ j \notin issued' \/ task'[j].at \in {"begin", "saveMeeting"} =>
             \A m \in Meetings : creator'[m] # j
        /\ task'[j].at \in {"link", "media", "asr", "saveTranscript"} =>
             /\ creator'[task'[j].meeting] = j
             /\ transcript'[task'[j].meeting] = NoText
        /\ task'[j].at = "saveTranscript" => task'[j].text # NoText
    <3>1. CASE Begin(j)
      BY <1>0, <3>1 DEF Begin, At, Goto, TaskFrame, store, CaptureInv,
           TasksTyped, TaskRecord
    <3>2. CASE SaveMeeting(j)
      <4>1. ASSUME NEW m \in Meetings, creator[m] = NoJob,
                   creator' = [creator EXCEPT ![m] = j],
                   task' = [task EXCEPT ![j].at = "link", ![j].meeting = m]
            PROVE  /\ task'[j].at = "link" /\ task'[j].meeting = m
                   /\ creator'[m] = j /\ transcript'[m] = NoText
        <5>1. transcript[m] = NoText
          BY <1>0, <4>1 DEF CaptureInv
        <5>2. task'[j].at = "link" /\ task'[j].meeting = m
          BY <1>0, <4>1 DEF TasksTyped, TaskRecord
        <5>3. transcript' = transcript
          BY <3>2 DEF SaveMeeting
        <5>4. QED
          BY <1>0, <4>1, <5>1, <5>2, <5>3 DEF StoreTyped
      <4>2. StorageError(j) => task'[j].at = "finish"
        BY <1>0 DEF StorageError, Return, TasksTyped, TaskRecord
      <4>3. j \in issued /\ issued' = issued
        BY <1>0, <3>2 DEF SaveMeeting, At, IssuedInv, TaskFrame
      <4>4. QED
        BY <3>2, <4>1, <4>2, <4>3 DEF SaveMeeting
    <3>3. CASE Link(j) \/ Media(j) \/ Transcribe(j)
      BY <1>0, <3>3, ConstantsAssumption
         DEF Link, Media, Transcribe, CheckCancelThenEnter, Enter, At, Goto,
             Return, TaskFrame, store, CaptureInv, TasksTyped, TaskRecord
    <3>4. CASE SaveTranscript(j)
      BY <1>0, <3>4 DEF SaveTranscript, StorageError, At, Goto, Return,
           TaskFrame, CaptureInv, TasksTyped, TaskRecord
    <3>5. CASE Rebegin(j) \/ Load(j) \/ MarkProcessing(j) \/ Chunk(j)
               \/ Extract(j) \/ Synthesize(j) \/ Validate(j)
      BY <1>0, <3>5 DEF Rebegin, Load, MarkProcessing, Chunk, Extract,
           Synthesize, Validate, CheckCancelThenEnter, Enter, StorageError, At,
           Goto, Return, TaskFrame, store, CaptureInv, TasksTyped, TaskRecord
    <3>6. CASE SaveIr(j) \/ Render(j) \/ SaveMom(j) \/ SaveParticipants(j)
               \/ Finish(j) \/ Settle(j)
      BY <1>0, <3>6 DEF SaveIr, Render, SaveMom, SaveParticipants, Finish,
           Settle, Enter, StorageError, At, Goto, Return, TaskFrame, store,
           CaptureInv, TasksTyped, TaskRecord
    <3>7. QED
      BY <1>1, <3>1, <3>2, <3>3, <3>4, <3>5, <3>6 DEF TaskStep
  <2>7. QED
    BY <2>4, <2>5, <2>6 DEF CaptureInv
<1>2. CASE Requests
  <2>1. ASSUME NEW j \in Jobs, NEW text \in Transcripts \cup {NoText},
               StartProcessing(j, text)
        PROVE  CaptureInv'
    BY <1>0, <2>1
       DEF StartProcessing, Spawn, Idle, TasksTyped, store, CaptureInv
  <2>2. ASSUME NEW j \in Jobs, NEW m \in Meetings, StartReprocessing(j, m)
        PROVE  CaptureInv'
    BY <1>0, <2>2
       DEF StartReprocessing, Spawn, Idle, TasksTyped, store, CaptureInv
  <2>3. ASSUME NEW j \in Jobs, CancelJob(j)
        PROVE  CaptureInv'
    BY <1>0, <2>3 DEF CancelJob, store, CaptureInv
  <2>4. QED
    BY <1>2, <2>1, <2>2, <2>3 DEF Requests
<1>3. CASE Crash
  BY <1>0, <1>3 DEF Crash, store, CaptureInv
<1>4. CASE Recovery
  <2>1. ASSUME NEW j \in Jobs, ResumeJob(j)
        PROVE  CaptureInv'
    BY <1>0, <2>1 DEF ResumeJob, RecoveryFrame, store, Idle, TasksTyped, CaptureInv
  <2>2. QED
    BY <1>0, <1>4, <2>1
       DEF Recovery, Start, ListUnfinished, Serve, DeferInterrupted, CloseJob,
           RecoveryFrame, store, CaptureInv
<1>5. QED
  BY <1>1, <1>2, <1>3, <1>4 DEF Next

\* Only save_meeting of a fresh meeting inserts a row, and only for a job that
\* has none yet.
LEMMA OneCaptureStep ==
  ASSUME IInv, Next
  PROVE  OneCapturePerJob'
<1>0. StoreTyped /\ CaptureInv /\ OneCapturePerJob
  BY TypeParts DEF IInv
<1>1. ASSUME NEW j \in Jobs, SaveMeeting(j)
      PROVE  OneCapturePerJob'
  <2>1. \A m \in Meetings : creator[m] # j
    BY <1>0, <1>1 DEF SaveMeeting, At, CaptureInv
  <2>2. QED
    BY <1>0, <1>1, <2>1 DEF SaveMeeting, StoreTyped, OneCapturePerJob
<1>2. (\E j \in Jobs : SaveMeeting(j)) \/ UNCHANGED creator
  <2>1. ASSUME NEW j \in Jobs, TaskStep(j)
        PROVE  SaveMeeting(j) \/ UNCHANGED creator
    BY <2>1
       DEF TaskStep, Begin, SaveMeeting, Link, Media, Transcribe,
           SaveTranscript, Rebegin, Load, MarkProcessing, Chunk, Extract,
           Synthesize, Validate, SaveIr, Render, SaveMom, SaveParticipants,
           Finish, Settle, store
  <2>2. Requests \/ Crash \/ Recovery => UNCHANGED creator
    BY DEF Requests, StartProcessing, StartReprocessing, Spawn, CancelJob,
         Crash, Recovery, Start, ListUnfinished, Serve, DeferInterrupted,
         ResumeJob, CloseJob, store
  <2>3. QED
    BY <2>1, <2>2 DEF Next
<1>3. QED
  BY <1>0, <1>1, <1>2 DEF OneCapturePerJob

\* What EnrichInv says of one task.
Grounded(j) ==
  LET m == task[j].meeting
      succeeded == task[j].at \in {"finish", "settle"} /\ task[j].outcome = "ok"
  IN
  /\ task[j].at \in {"mark"} \cup Enriching => transcript[m] # NoText
  /\ task[j].at \in {"render", "saveMom"} => ir[m] # NoRun
  /\ task[j].at = "saveParticipants" => Enriched(m)
  /\ succeeded => m \in Meetings /\ transcript[m] # NoText /\ Enriched(m)
  /\ succeeded /\ task[j].at = "settle" => job[j].meeting = m

LEMMA GroundedAll == EnrichInv <=> \A j \in Jobs : Grounded(j)
BY DEF EnrichInv, Grounded

\* Each artifact a task relies on is there when it gets to the point where it
\* relies on it.
LEMMA GroundedTask ==
  ASSUME IInv, NEW j \in Jobs, TaskStep(j)
  PROVE  Grounded(j)'
<1>0. /\ StoreTyped /\ RecordsTyped /\ TasksTyped /\ Placed /\ CaptureInv
      /\ Grounded(j) /\ Idle.at = "idle"
  BY TypeParts, GroundedAll DEF IInv, Idle
<1>9. task[j] \in TaskRecord /\ RunOf(j) \in Runs /\ NoRun \notin Runs
  BY <1>0, ConstantsAssumption
     DEF TasksTyped, RecordsTyped, JobRecord, RunOf, Runs
<1>1. CASE Begin(j) \/ SaveMeeting(j) \/ Link(j) \/ Media(j) \/ Transcribe(j)
           \/ Rebegin(j)
  <2>1. \/ task'[j].at \in {"saveMeeting", "link", "saveTranscript", "media",
                            "asr", "load"}
        \/ task'[j].at = "finish" /\ task'[j].outcome # "ok"
    BY <1>0, <1>9, <1>1
       DEF Begin, SaveMeeting, Link, Media, Transcribe, Rebegin,
           CheckCancelThenEnter, Enter, StorageError, Goto, Return, TasksTyped,
           TaskRecord
  <2>2. QED
    BY <2>1 DEF Grounded, Enriching
<1>2. CASE SaveTranscript(j)
  <2>1. \/ /\ task'[j].at = "mark" /\ task'[j].meeting = task[j].meeting
           /\ transcript' = [transcript EXCEPT ![task[j].meeting] = task[j].text]
        \/ task'[j].at = "finish" /\ task'[j].outcome # "ok"
    BY <1>0, <1>9, <1>2 DEF SaveTranscript, StorageError, Goto, Return, TasksTyped,
         TaskRecord
  <2>2. task[j].text # NoText /\ task[j].meeting \in Meetings
    BY <1>0, <1>2 DEF SaveTranscript, At, CaptureInv, Placed
  <2>3. QED
    BY <1>0, <2>1, <2>2 DEF Grounded, Enriching, StoreTyped
<1>3. CASE Load(j)
  <2>1. \/ /\ task'[j].at = "mark" /\ task'[j].meeting = task[j].meeting
           /\ transcript[task[j].meeting] # NoText
        \/ task'[j].at = "finish" /\ task'[j].outcome # "ok"
    BY <1>0, <1>9, <1>3 DEF Load, StorageError, Return, TasksTyped, TaskRecord
  <2>2. transcript' = transcript
    BY <1>3 DEF Load, store
  <2>3. QED
    BY <2>1, <2>2 DEF Grounded, Enriching
<1>4. CASE MarkProcessing(j) \/ Chunk(j) \/ Extract(j) \/ Synthesize(j)
           \/ Validate(j)
  <2>1. /\ \/ task'[j].at \in {"chunk", "extract", "synthesize", "validate", "saveIr"}
           \/ task'[j].at = "finish" /\ task'[j].outcome # "ok"
        /\ task'[j].meeting = task[j].meeting
    BY <1>0, <1>9, <1>4
       DEF MarkProcessing, Chunk, Extract, Synthesize, Validate,
           CheckCancelThenEnter, Enter, Goto, Return, At, TasksTyped, TaskRecord
  <2>2. transcript' = transcript /\ transcript[task[j].meeting] # NoText
    BY <1>0, <1>4 DEF MarkProcessing, Chunk, Extract, Synthesize, Validate,
         store, At, Grounded, Enriching
  <2>3. QED
    BY <2>1, <2>2 DEF Grounded, Enriching
<1>5. CASE SaveIr(j) \/ Render(j) \/ SaveMom(j) \/ SaveParticipants(j)
  <2>1. /\ transcript' = transcript /\ transcript[task[j].meeting] # NoText
        /\ task[j].meeting \in Meetings /\ task'[j].meeting = task[j].meeting
    BY <1>0, <1>9, <1>5
       DEF SaveIr, Render, SaveMom, SaveParticipants, Enter, StorageError, Goto,
           Return, store, At, Grounded, Placed, Enriching, TasksTyped, TaskRecord
  <2>2. CASE task'[j].at = "finish" /\ task'[j].outcome # "ok"
    BY <2>2 DEF Grounded, Enriching
  <2>3. CASE SaveIr(j) /\ task'[j].at = "render"
             /\ ir' = [ir EXCEPT ![task[j].meeting] = RunOf(j)]
    BY <1>0, <1>9, <2>1, <2>3 DEF Grounded, StoreTyped
  <2>4. CASE Render(j) /\ task'[j].at = "saveMom"
    BY <1>0, <2>1, <2>4 DEF Render, At, store, Grounded
  <2>5. CASE SaveMom(j) /\ task'[j].at = "saveParticipants"
             /\ mom' = [mom EXCEPT ![task[j].meeting] = RunOf(j)]
    BY <1>0, <1>9, <2>1, <2>5 DEF SaveMom, At, Grounded, Enriched, StoreTyped
  <2>6. CASE SaveParticipants(j) /\ task'[j].at = "finish"
    BY <1>0, <2>1, <2>6 DEF SaveParticipants, At, Grounded, Enriched, Enriching
  <2>7. QED
    BY <1>0, <1>9, <1>5, <2>2, <2>3, <2>4, <2>5, <2>6
       DEF SaveIr, Render, SaveMom, SaveParticipants, Enter, StorageError, Goto,
           Return, TasksTyped, TaskRecord
<1>6. CASE Finish(j)
  <2>1. /\ task'[j].at = "settle" /\ task'[j].meeting = task[j].meeting
        /\ task'[j].outcome = task[j].outcome
        /\ UNCHANGED <<transcript, ir, mom>>
    BY <1>0, <1>9, <1>6 DEF Finish, Goto, store, TasksTyped, TaskRecord
  <2>2. task[j].outcome = "ok" => job'[j].meeting = task[j].meeting
    BY <1>0, <1>6 DEF Finish, Record, RecordsTyped, JobRecord
  <2>3. QED
    BY <1>0, <1>6, <2>1, <2>2 DEF Finish, At, Grounded, Enriched, Enriching
<1>7. CASE Settle(j)
  BY <1>0, <1>7 DEF Settle, Grounded, Enriching, TasksTyped
<1>8. QED
  BY <1>1, <1>2, <1>3, <1>4, <1>5, <1>6, <1>7 DEF TaskStep

LEMMA EnrichStep ==
  ASSUME IInv, Next
  PROVE  EnrichInv'
<1>0. /\ RecordsTyped /\ TasksTyped /\ Placed /\ Idle.at = "idle"
      /\ \A j \in Jobs : Grounded(j)
  BY TypeParts, GroundedAll DEF IInv, Idle
<1>1. ASSUME NEW j \in Jobs,
             \/ task'[j] = task[j] /\ job'[j] = job[j]
             \/ task'[j].at \in {"idle", "begin", "rebegin"}
      PROVE  Grounded(j)'
  <2>1. CASE task'[j].at \in {"idle", "begin", "rebegin"}
    BY <2>1 DEF Grounded, Enriching
  <2>2. CASE task'[j] = task[j] /\ job'[j] = job[j]
    <3>1. CASE task[j].meeting \in Meetings
      BY <1>0, <2>2, <3>1, StoreOnlyGrows DEF Grounded, Enriched
    <3>2. CASE task[j].meeting \notin Meetings
      BY <1>0, <2>2, <3>2 DEF Grounded, Placed, Enriching
    <3>3. QED
      BY <3>1, <3>2
  <2>3. QED
    BY <1>1, <2>1, <2>2
<1>2. ASSUME NEW j \in Jobs, TaskStep(j)
      PROVE  \A i \in Jobs : Grounded(i)'
  <2>1. \A i \in Jobs : i # j => task'[i] = task[i] /\ job'[i] = job[i]
    BY <1>0, <1>2, OthersAlone
  <2>2. Grounded(j)'
    BY <1>2, GroundedTask
  <2>3. QED
    BY <1>1, <2>1, <2>2
<1>3. ASSUME Requests \/ Crash \/ Recovery
      PROVE  \A i \in Jobs :
               \/ task'[i] = task[i] /\ job'[i] = job[i]
               \/ task'[i].at \in {"idle", "begin", "rebegin"}
  <2>1. ASSUME NEW j \in Jobs, NEW text \in Transcripts \cup {NoText},
               StartProcessing(j, text)
        PROVE  \A i \in Jobs :
                 \/ task'[i] = task[i] /\ job'[i] = job[i]
                 \/ task'[i].at \in {"idle", "begin", "rebegin"}
    BY <1>0, <2>1 DEF StartProcessing, Spawn, Record, Idle, TasksTyped, RecordsTyped
  <2>2. ASSUME NEW j \in Jobs, NEW m \in Meetings, StartReprocessing(j, m)
        PROVE  \A i \in Jobs :
                 \/ task'[i] = task[i] /\ job'[i] = job[i]
                 \/ task'[i].at \in {"idle", "begin", "rebegin"}
    BY <1>0, <2>2 DEF StartReprocessing, Spawn, Record, Idle, TasksTyped,
         RecordsTyped
  <2>3. ASSUME NEW j \in Jobs, ResumeJob(j)
        PROVE  \A i \in Jobs :
                 \/ task'[i] = task[i] /\ job'[i] = job[i]
                 \/ task'[i].at \in {"idle", "begin", "rebegin"}
    BY <1>0, <2>3 DEF ResumeJob, Record, Idle, TasksTyped, RecordsTyped
  <2>4. ASSUME Crash
        PROVE  \A i \in Jobs : task'[i].at = "idle"
    BY <1>0, <2>4 DEF Crash
  <2>5. ASSUME NEW j \in Jobs, CancelJob(j) \/ CloseJob(j)
        PROVE  task' = task /\ job' = job
    BY <2>5 DEF CancelJob, CloseJob
  <2>6. Start \/ ListUnfinished \/ Serve \/ (\E m \in Meetings : DeferInterrupted(m))
          => task' = task /\ job' = job
    BY DEF Start, ListUnfinished, Serve, DeferInterrupted
  <2>7. QED
    BY <1>3, <2>1, <2>2, <2>3, <2>4, <2>5, <2>6 DEF Requests, Recovery
<1>4. \A i \in Jobs : Grounded(i)'
  BY <1>1, <1>2, <1>3 DEF Next
<1>5. QED
  BY <1>4 DEF EnrichInv, Grounded

\* The three places that write a status.
LEMMA StatusWriters ==
  ASSUME Next
  PROVE  \/ \E j \in Jobs : MarkProcessing(j) \/ Settle(j)
         \/ \E n \in Meetings : DeferInterrupted(n)
         \/ UNCHANGED status
  <1>1. ASSUME NEW j \in Jobs, TaskStep(j)
        PROVE  MarkProcessing(j) \/ Settle(j) \/ UNCHANGED status
    BY <1>1
       DEF TaskStep, Begin, SaveMeeting, Link, Media, Transcribe,
           SaveTranscript, Rebegin, Load, Chunk, Extract, Synthesize, Validate,
           SaveIr, Render, SaveMom, SaveParticipants, Finish, store
  <1>2. Requests \/ Crash \/ Recovery
          => (\E n \in Meetings : DeferInterrupted(n)) \/ UNCHANGED status
    BY DEF Requests, StartProcessing, StartReprocessing, Spawn, CancelJob,
         Crash, Recovery, Start, ListUnfinished, Serve, ResumeJob, CloseJob, store
  <1>3. QED
    BY <1>1, <1>2 DEF Next

\* A durable status is written in three places, each of which has on disk what
\* the status claims.
LEMMA StatusWrites ==
  ASSUME IInv, Next, NEW m \in Meetings
  PROVE  \/ status'[m] = status[m]
         \/ status'[m] \in {"deferred", "failed"}
         \/ status'[m] = "processing" /\ transcript[m] # NoText
         \/ status'[m] = "ready" /\ transcript[m] # NoText /\ Enriched(m)
<1>0. StoreTyped /\ RecordsTyped /\ TasksTyped /\ \A j \in Jobs : Grounded(j)
  BY TypeParts, GroundedAll DEF IInv
<1>1. ASSUME NEW j \in Jobs, MarkProcessing(j)
      PROVE  \/ status'[m] = status[m]
             \/ status'[m] = "processing" /\ transcript[m] # NoText
  BY <1>0, <1>1 DEF MarkProcessing, At, PersistStatus, Grounded, StoreTyped
<1>2. ASSUME NEW j \in Jobs, Settle(j)
      PROVE  \/ status'[m] = status[m]
             \/ status'[m] \in {"deferred", "failed"}
             \/ status'[m] = "ready" /\ transcript[m] # NoText /\ Enriched(m)
  <2>1. CASE job[j].meeting = m /\ task[j].outcome = "ok"
    BY <1>0, <1>2, <2>1 DEF Settle, At, PersistStatus, StatusAfter, Grounded,
         StoreTyped
  <2>2. CASE task[j].outcome # "ok"
    BY <1>0, <1>2, <2>2 DEF Settle, At, PersistStatus, StatusAfter, StoreTyped
  <2>3. CASE job[j].meeting # m
    BY <1>0, <1>2, <2>3 DEF Settle, At, PersistStatus, StoreTyped
  <2>4. QED
    BY <2>1, <2>2, <2>3
<1>3. ASSUME NEW n \in Meetings, DeferInterrupted(n)
      PROVE  status'[m] = status[m] \/ status'[m] = "deferred"
  BY <1>0, <1>3 DEF DeferInterrupted, PersistStatus, StoreTyped
<1>4. QED
  BY <1>1, <1>2, <1>3, StatusWriters

LEMMA StatusStep ==
  ASSUME IInv, Next
  PROVE  StatusInv'
<1>1. StatusInv
  BY DEF IInv
<1>2. QED
  BY <1>1, StatusWrites, StoreOnlyGrows DEF StatusInv, Enriched

LEMMA InvStep == IInv /\ [Next]_vars => IInv'
<1>1. ASSUME IInv, Next
      PROVE  IInv'
  <2>1. StoreTyped /\ RecordsTyped /\ TasksTyped /\ EngineTyped /\ Placed
    BY <1>1, TypeParts DEF IInv
  <2>2. TypeOK'
    <3>1. StoreTyped' /\ RecordsTyped' /\ TasksTyped' /\ EngineTyped'
      BY <1>1, <2>1, StoreStep, RecordsStep, TasksStep, EngineStep
    <3>2. QED
      BY <3>1 DEF TypeOK, StoreTyped, RecordsTyped, TasksTyped, EngineTyped,
           TaskRecord
  <2>3. QED
    BY <1>1, <2>2, PlacedStep, IssuedStep, CaptureStep, OneCaptureStep,
       EnrichStep, StatusStep DEF IInv
<1>2. ASSUME IInv, UNCHANGED vars
      PROVE  IInv'
  <2>1. TypeOK' /\ Placed' /\ IssuedInv'
    BY <1>2 DEF IInv, TypeOK, Placed, IssuedInv, vars, store, recovery
  <2>2. CaptureInv' /\ OneCapturePerJob'
    BY <1>2 DEF IInv, CaptureInv, OneCapturePerJob, vars, store
  <2>3. EnrichInv' /\ StatusInv'
    BY <1>2 DEF IInv, EnrichInv, StatusInv, Enriched, vars, store
  <2>4. QED
    BY <2>1, <2>2, <2>3 DEF IInv
<1>3. QED
  BY <1>1, <1>2

-----------------------------------------------------------------------------
(* Theorems *)

\* The inductive invariant holds in every reachable state.
THEOREM Invariance == Spec => []IInv
BY InvInit, InvStep, PTL DEF Spec

\* Every variable keeps its type: in particular no job is attempted more than
\* MAX_JOB_ATTEMPTS times over (recover_jobs).
THEOREM TypeCorrect == Spec => []TypeOK
<1>1. IInv => TypeOK
  BY DEF IInv
<1>2. QED
  BY <1>1, Invariance, PTL

\* A meeting marked ready has its transcript, its IR and its MOM on disk, after
\* any interleaving of jobs, crashes and failed writes (finalize).
THEOREM ReadySafe == Spec => []ReadyHasArtifacts
<1>1. IInv => ReadyHasArtifacts
  BY DEF IInv, StatusInv, ReadyHasArtifacts
<1>2. QED
  BY <1>1, Invariance, PTL

\* Retry and startup recovery never create a second meeting for a job
\* (reprocess, recover_jobs).
THEOREM OneCapture == Spec => []OneCapturePerJob
<1>1. IInv => OneCapturePerJob
  BY DEF IInv
<1>2. QED
  BY <1>1, Invariance, PTL

\* A stored transcript is never changed or dropped (run, rerun).
THEOREM SourceStable == Spec => SourceNeverChanges
<1>1. IInv /\ [Next]_vars =>
        [\A m \in Meetings :
           transcript[m] # NoText => transcript'[m] = transcript[m]]_vars
  BY StoreOnlyGrows
<1>2. QED
  BY <1>1, Invariance, PTL DEF Spec, SourceNeverChanges

\* The pipeline implements the library of meetings a user is promised.
THEOREM Refinement == Spec => ImplementsLibrary
<1>1. Init => Library!Init
  BY DEF Init, Library!Init, Enriched
<1>2. IInv /\ [Next]_vars => [Library!Next]_(Library!vars)
  <2>1. ASSUME IInv, Next
        PROVE  Library!Next \/ UNCHANGED Library!vars
    <3>0. /\ StoreTyped /\ RecordsTyped /\ TasksTyped /\ CaptureInv
          /\ \A j \in Jobs : Grounded(j)
      BY <2>1, TypeParts, GroundedAll DEF IInv
    <3>1. ASSUME NEW j \in Jobs, SaveTranscript(j), transcript' # transcript
          PROVE  Library!Next
      <4>1. /\ task[j].meeting \in Meetings /\ task[j].text \in Transcripts
            /\ transcript[task[j].meeting] = NoText
        BY <3>0, <3>1, <2>1
           DEF SaveTranscript, At, CaptureInv, IInv, Placed, TasksTyped, TaskRecord
      <4>2. Library!Capture(task[j].meeting, task[j].text)
        BY <3>1, <4>1 DEF SaveTranscript, Library!Capture, Enriched
      <4>3. QED
        BY <4>1, <4>2 DEF Library!Next
    <3>2. ASSUME NEW j \in Jobs, SaveIr(j) \/ SaveMom(j)
          PROVE  Library!Next \/ UNCHANGED Library!vars
      <4>0. /\ task[j].meeting \in Meetings
            /\ transcript[task[j].meeting] # NoText
        BY <3>0, <3>2, <2>1
           DEF SaveIr, SaveMom, At, IInv, Placed, Enriching, Grounded
      <4>1. PICK m \in Meetings : m = task[j].meeting /\ transcript[m] # NoText
        BY <4>0
      <4>2. \A n \in Meetings : n # m => (Enriched(n))' = Enriched(n)
        BY <3>0, <3>2, <4>1 DEF SaveIr, SaveMom, Enriched, StoreTyped
      <4>3. Enriched(m) => (Enriched(m))'
        BY <4>1, <2>1, StoreOnlyGrows DEF Enriched
      <4>4. UNCHANGED <<transcript, status>>
        BY <3>2 DEF SaveIr, SaveMom
      <4>5. CASE (Enriched(m))' = Enriched(m)
        BY <4>2, <4>4, <4>5 DEF Library!vars
      <4>6. CASE (Enriched(m))' /\ ~Enriched(m)
        <5>1. Library!Publish(m)
          BY <4>1, <4>2, <4>4, <4>6 DEF Library!Publish
        <5>2. QED
          BY <4>1, <5>1 DEF Library!Next
      <4>7. QED
        BY <4>3, <4>5, <4>6 DEF Enriched
    <3>3. ASSUME NEW n \in Meetings, NEW s \in Library!ProcessingState \ {"none"},
                 status' = [status EXCEPT ![n] = s], status'[n] # status[n],
                 UNCHANGED <<transcript, ir, mom>>
          PROVE  Library!Next
      <4>1. /\ s = "processing" => transcript[n] # NoText
            /\ s = "ready" => Enriched(n)
        BY <2>1, <3>0, <3>3, StatusWrites DEF StoreTyped
      <4>2. Library!Mark(n, s)
        BY <3>3, <4>1 DEF Library!Mark, Enriched
      <4>3. QED
        BY <4>2 DEF Library!Next
    <3>4. \/ \E j \in Jobs : SaveTranscript(j)
          \/ \E j \in Jobs : SaveIr(j) \/ SaveMom(j)
          \/ UNCHANGED <<transcript, ir, mom>>
      <4>1. ASSUME NEW j \in Jobs, TaskStep(j)
            PROVE  \/ SaveTranscript(j) \/ SaveIr(j) \/ SaveMom(j)
                   \/ UNCHANGED <<transcript, ir, mom>>
        BY <4>1 DEF TaskStep, Begin, SaveMeeting, Link, Media, Transcribe,
             Rebegin, Load, MarkProcessing, Chunk, Extract, Synthesize,
             Validate, Render, SaveParticipants, Finish, Settle, store
      <4>2. Requests \/ Crash \/ Recovery => UNCHANGED <<transcript, ir, mom>>
        BY DEF Requests, StartProcessing, StartReprocessing, Spawn, CancelJob,
             Crash, Recovery, Start, ListUnfinished, Serve, DeferInterrupted,
             ResumeJob, CloseJob, store
      <4>3. QED
        BY <2>1, <4>1, <4>2 DEF Next
    <3>5. \/ UNCHANGED status
          \/ \E n \in Meetings, s \in Library!ProcessingState \ {"none"} :
               status' = [status EXCEPT ![n] = s] /\ UNCHANGED <<transcript, ir, mom>>
      <4>1. ASSUME NEW j \in Jobs, MarkProcessing(j) \/ Settle(j)
            PROVE  \/ UNCHANGED status
                   \/ \E n \in Meetings, s \in Library!ProcessingState \ {"none"} :
                        /\ status' = [status EXCEPT ![n] = s]
                        /\ UNCHANGED <<transcript, ir, mom>>
        BY <2>1, <3>0, <4>1
           DEF MarkProcessing, Settle, PersistStatus, StatusAfter, At, IInv,
               Placed, RecordsTyped, JobRecord, Library!ProcessingState
      <4>2. ASSUME NEW n \in Meetings, DeferInterrupted(n)
            PROVE  \/ UNCHANGED status
                   \/ /\ status' = [status EXCEPT ![n] = "deferred"]
                      /\ UNCHANGED <<transcript, ir, mom>>
        BY <4>2 DEF DeferInterrupted, PersistStatus
      <4>3. QED
        BY <2>1, <4>1, <4>2, StatusWriters DEF Library!ProcessingState
    <3>6. CASE \E j \in Jobs : SaveTranscript(j)
      BY <3>1, <3>6 DEF SaveTranscript, Library!vars, Enriched
    <3>7. CASE UNCHANGED <<transcript, ir, mom>>
      <4>1. CASE UNCHANGED status
        BY <3>7, <4>1 DEF Library!vars, Enriched
      <4>2. ASSUME NEW n \in Meetings,
                   NEW s \in Library!ProcessingState \ {"none"},
                   status' = [status EXCEPT ![n] = s]
            PROVE  Library!Next \/ UNCHANGED Library!vars
        <5>1. CASE status'[n] # status[n]
          BY <3>3, <3>7, <4>2, <5>1
        <5>2. CASE status'[n] = status[n]
          <6>1. status' = status
            BY <3>0, <4>2, <5>2 DEF StoreTyped
          <6>2. QED
            BY <3>7, <6>1 DEF Library!vars, Enriched
        <5>3. QED
          BY <5>1, <5>2
      <4>3. QED
        BY <3>5, <4>1, <4>2
    <3>8. QED
      BY <3>2, <3>4, <3>6, <3>7
  <2>2. QED
    BY <2>1 DEF Library!vars, vars, store, Enriched
<1>3. QED
  BY <1>1, <1>2, Invariance, PTL DEF Spec, ImplementsLibrary, Library!Spec

-----------------------------------------------------------------------------
(* The invariants of the job queue *)

Open == {"queued", "running"}

\* Nothing of a job is left in memory.
Gone(j) ==
  task[j].at = "idle" /\ job[j].status = "absent" /\ announced[j] = "none"

\* Recovery lists the rows before anything runs, and a row that waits for
\* recovery is open and belongs to a job that is gone.
WaitingInv ==
  /\ engine \in {"down", "statuses"} => \A j \in Jobs : Gone(j)
  /\ unfinished # {} => engine = "queue"
  /\ \A j \in unfinished : Gone(j) /\ row[j].status \in Open

\* A job that runs is open, in memory and on disk, and has announced nothing;
\* what it announced as completed can be read.
Living(j) ==
  /\ j \notin issued => Gone(j)
  /\ task[j].at # "idle" => announced[j] = "none"
  /\ task[j].at \notin {"idle", "settle"} =>
       job[j].status \in Open /\ row[j].status \notin Terminal
  /\ announced[j] = "completed" =>
       /\ task[j].at = "idle"
       /\ job[j].meeting \in Meetings /\ Enriched(job[j].meeting)

QueueInv == WaitingInv /\ \A j \in Jobs : Living(j)

\* The run r has left an artifact.
Wrote(r) == \E m \in Meetings : r \in {ir[m], mom[m], people[m]}

\* Past the last check of the cancel flag.
Committed(j) ==
  \/ task[j].at \in {"render", "saveMom", "saveParticipants"}
  \/ task[j].at \in {"finish", "settle"} /\ task[j].outcome # "cancelled"

\* The row of a job in memory is its mirror, so that a resumed job is on a run
\* of its own; a run leaves nothing before the last check of the cancel flag.
Clean(j) ==
  /\ job[j].status # "absent" => row[j] = job[j]
  /\ \A k \in 0 .. MAX_JOB_ATTEMPTS :
       Wrote(<<j, k>>) => j \in issued /\ k <= row[j].attempts
  /\ task[j].at # "idle" /\ Wrote(RunOf(j)) => Committed(j)
  /\ job[j].status = "cancelled" => ~Wrote(RunOf(j))

CleanInv == \A j \in Jobs : Clean(j)

LEMMA QueueInit == Init => QueueInv /\ CleanInv
<1>1. Idle.at = "idle" /\ Absent.status = "absent"
  BY DEF Idle, Absent, NewJob
<1>2. Init => QueueInv
  BY <1>1 DEF Init, QueueInv, WaitingInv, Gone, Living
<1>4. ASSUME Init, NEW j \in Jobs, NEW k \in 0 .. MAX_JOB_ATTEMPTS
      PROVE  ~Wrote(<<j, k>>)
  <2>1. <<j, k>> # NoRun
    BY ConstantsAssumption DEF Runs
  <2>2. QED
    BY <1>4, <2>1 DEF Init, Wrote
<1>5. QED
  BY <1>1, <1>2, <1>4 DEF Init, CleanInv, Clean

-----------------------------------------------------------------------------
(* Steps of a task *)

\* A step of one job's task touches neither the row nor what another announced.
LEMMA OthersQuiet ==
  ASSUME RecordsTyped, TasksTyped, EngineTyped, NEW j \in Jobs, TaskStep(j),
         NEW i \in Jobs, i # j
  PROVE  row'[i] = row[i] /\ announced'[i] = announced[i]
<1>1. row'[i] = row[i]
  BY DEF TaskStep, Begin, SaveMeeting, Link, Media, Transcribe, SaveTranscript,
       Rebegin, Load, MarkProcessing, Chunk, Extract, Synthesize, Validate,
       SaveIr, Render, SaveMom, SaveParticipants, Finish, Settle,
       CheckCancelThenEnter, Enter, SetStage, Record, Mirror, RecordsTyped
<1>2. announced'[i] = announced[i]
  BY DEF TaskStep, Begin, SaveMeeting, Link, Media, Transcribe, SaveTranscript,
       Rebegin, Load, MarkProcessing, Chunk, Extract, Synthesize, Validate,
       SaveIr, Render, SaveMom, SaveParticipants, Finish, Settle, TaskFrame,
       EngineTyped
<1>3. QED
  BY <1>1, <1>2

\* A task that steps is active and runs while recovery or the server does.
LEMMA StepActive ==
  ASSUME NEW j \in Jobs, TaskStep(j)
  PROVE  /\ task[j].at # "idle" /\ engine \in {"queue", "up"} /\ UNCHANGED recovery
         /\ task[j].at = "settle" => Settle(j)
<1>1. /\ task[j].at # "idle" /\ engine \in {"queue", "up"}
      /\ task[j].at = "settle" => Settle(j)
  BY DEF TaskStep, Begin, SaveMeeting, Link, Media, Transcribe, SaveTranscript,
       Rebegin, Load, MarkProcessing, Chunk, Extract, Synthesize, Validate,
       SaveIr, Render, SaveMom, SaveParticipants, Finish, Settle, At
<1>2. UNCHANGED recovery
  BY DEF TaskStep, Begin, SaveMeeting, Link, Media, Transcribe, SaveTranscript,
       Rebegin, Load, MarkProcessing, Chunk, Extract, Synthesize, Validate,
       SaveIr, Render, SaveMom, SaveParticipants, Finish, Settle, TaskFrame
<1>3. QED
  BY <1>1, <1>2

\* What a step does to its own job: it goes on with it, or it closes it.
GoesOn(j) ==
  /\ task'[j].at \notin {"idle", "settle"}
  /\ \/ UNCHANGED <<job, row>>
     \/ \E r \in JobRecord :
          /\ r.status \in {job[j].status, "running"}
          /\ r.attempts = job[j].attempts
          /\ Record(j, r)
  /\ announced' = announced

LEMMA Recorded ==
  ASSUME RecordsTyped, NEW j \in Jobs, NEW r \in JobRecord, Record(j, r)
  PROVE  /\ job'[j] = r
         /\ row'[j] \in {r, row[j]}
         /\ ~QueueFails => row'[j] = r
BY DEF RecordsTyped, Record, Mirror

LEMMA StagesGoOn ==
  ASSUME RecordsTyped, NEW j \in Jobs, NEW s \in JobStage, SetStage(j, s)
  PROVE  \E r \in JobRecord : /\ r.status = job[j].status
                              /\ r.attempts = job[j].attempts
                              /\ Record(j, r)
<1>1. [job[j] EXCEPT !.stage = s] \in JobRecord
  BY JobFields DEF RecordsTyped
<1>2. /\ [job[j] EXCEPT !.stage = s].status = job[j].status
      /\ [job[j] EXCEPT !.stage = s].attempts = job[j].attempts
  BY DEF RecordsTyped, JobRecord
<1>3. QED
  BY <1>1, <1>2 DEF SetStage

LEMMA RunsGoOn ==
  ASSUME RecordsTyped, TasksTyped, EngineTyped, NEW j \in Jobs, TaskStep(j)
  PROVE  GoesOn(j) \/ Finish(j) \/ Settle(j)
<1>0. job[j] \in JobRecord /\ task[j] \in TaskRecord
  BY DEF RecordsTyped, TasksTyped
<1>1. CASE \/ SaveMeeting(j) \/ Transcribe(j) \/ SaveTranscript(j) \/ Load(j)
           \/ Validate(j) \/ SaveMom(j) \/ SaveParticipants(j)
  BY <1>0, <1>1 DEF SaveMeeting, Transcribe, SaveTranscript, Load, Validate, SaveMom,
       SaveParticipants, StorageError, Goto, Return, TaskFrame, GoesOn, TasksTyped,
       TaskRecord
<1>2. CASE \/ Media(j) \/ MarkProcessing(j) \/ Chunk(j) \/ Extract(j)
           \/ Synthesize(j) \/ SaveIr(j) \/ Render(j)
  <2>1. UNCHANGED <<job, row>> \/ \E s \in JobStage : SetStage(j, s)
    BY <1>2 DEF Media, MarkProcessing, Chunk, Extract, Synthesize, SaveIr,
         Render, CheckCancelThenEnter, Enter, JobStage
  <2>2. announced' = announced
    BY <1>2 DEF Media, MarkProcessing, Chunk, Extract, Synthesize, SaveIr, Render,
         TaskFrame
  <2>3. CASE Media(j) \/ MarkProcessing(j) \/ Synthesize(j) \/ SaveIr(j) \/ Render(j)
    <3>1. \/ \E p \in {"asr", "chunk", "validate", "render", "saveMom"} : Goto(j, p)
          \/ \E o \in Outcomes : Return(j, o)
      BY <2>3 DEF Media, MarkProcessing, Synthesize, SaveIr, Render, Outcomes,
           CheckCancelThenEnter, Enter, StorageError
    <3>2. task'[j].at \notin {"idle", "settle"}
      BY <1>0, <3>1 DEF Goto, Return, TasksTyped, TaskRecord
    <3>3. QED
      BY <2>1, <2>2, <3>2, StagesGoOn DEF GoesOn
  <2>4. CASE Chunk(j)
    <3>1. task'[j].at \notin {"idle", "settle"}
      BY <1>0, <2>4 DEF Chunk, Enter, Goto, Return, TasksTyped, TaskRecord
    <3>2. QED
      BY <2>1, <2>2, <3>1, StagesGoOn DEF GoesOn
  <2>5. CASE Extract(j)
    <3>1. task'[j].at \notin {"idle", "settle"}
      BY <1>0, <2>5 DEF Extract, At, Return, TasksTyped, TaskRecord
    <3>2. QED
      BY <2>1, <2>2, <3>1, StagesGoOn DEF GoesOn
  <2>6. QED
    BY <1>2, <2>3, <2>4, <2>5
<1>3. CASE Begin(j)
  <2>1. /\ [job[j] EXCEPT !.status = "running"] \in JobRecord
        /\ [job[j] EXCEPT !.status = "running"].status = "running"
        /\ [job[j] EXCEPT !.status = "running"].attempts = job[j].attempts
    BY <1>0, JobFields DEF JobStatus, JobRecord
  <2>2. QED
    BY <1>3, <2>1 DEF Begin, Goto, TaskFrame, GoesOn, TasksTyped, TaskRecord
<1>4. CASE Rebegin(j)
  <2>1. LET r == [job[j] EXCEPT !.status = "running", !.meeting = task[j].meeting]
        IN  r \in JobRecord /\ r.status = "running" /\ r.attempts = job[j].attempts
    <3>1. [job[j] EXCEPT !.status = "running"] \in JobRecord
      BY <1>0, JobFields DEF JobStatus
    <3>2. [[job[j] EXCEPT !.status = "running"] EXCEPT !.meeting = task[j].meeting]
            \in JobRecord
      BY <1>0, <3>1, JobFields DEF TaskRecord
    <3>3. QED
      BY <1>0, <3>2 DEF JobRecord
  <2>2. QED
    BY <1>4, <2>1 DEF Rebegin, Goto, TaskFrame, GoesOn, TasksTyped, TaskRecord
<1>5. CASE Link(j)
  <2> DEFINE linked == [job[j] EXCEPT !.meeting = task[j].meeting]
             staged == [linked EXCEPT !.stage = "media"]
  <2>1. linked \in JobRecord
    BY <1>0, JobFields DEF TaskRecord
  <2>2. staged \in JobRecord
    BY <2>1, JobFields DEF JobStage
  <2>3. /\ linked.status = job[j].status /\ linked.attempts = job[j].attempts
        /\ staged.status = job[j].status /\ staged.attempts = job[j].attempts
    BY <1>0 DEF JobRecord
  <2>4. Record(j, linked) \/ Record(j, staged)
    BY <1>5 DEF Link
  <2>5. task'[j].at \notin {"idle", "settle"} /\ announced' = announced
    BY <1>0, <1>5 DEF Link, Goto, Return, TaskFrame, TasksTyped, TaskRecord
  <2>6. QED
    BY <2>1, <2>2, <2>3, <2>4, <2>5 DEF GoesOn
<1>6. QED
  BY <1>1, <1>2, <1>3, <1>4, <1>5 DEF TaskStep

\* What is written as a job's end.
LEMMA Closes ==
  ASSUME RecordsTyped, TasksTyped, EngineTyped, NEW j \in Jobs, Finish(j)
  PROVE  /\ task[j].at = "finish" /\ task'[j].at = "settle"
         /\ task'[j].outcome = task[j].outcome
         /\ announced' = announced
         /\ job'[j].attempts = job[j].attempts
         /\ job'[j].status = "cancelled" => task[j].outcome = "cancelled"
         /\ row'[j] \in {job'[j], row[j]}
         /\ ~QueueFails => row'[j] = job'[j]
<1>1. PICK r \in JobRecord : /\ Record(j, r) /\ r.attempts = job[j].attempts
                             /\ r.status = "cancelled" => task[j].outcome = "cancelled"
  <2>0. job[j] \in JobRecord /\ task[j].meeting \in Meetings \cup {NoMeeting}
    BY DEF RecordsTyped, TasksTyped, TaskRecord
  <2>1. CASE task[j].outcome = "ok"
    <3> DEFINE done == [job[j] EXCEPT !.status = "completed", !.stage = "done",
                                      !.meeting = task[j].meeting]
    <3>1. /\ done \in JobRecord
          /\ done.status = "completed" /\ done.attempts = job[j].attempts
      BY <2>0 DEF JobRecord, JobStatus, JobStage
    <3>2. Record(j, done)
      BY <2>1 DEF Finish
    <3>3. QED
      BY <3>1, <3>2
  <2>2. CASE task[j].outcome # "ok"
    <3>1. \E s \in {"cancelled", "failed"} :
            /\ Record(j, [job[j] EXCEPT !.status = s])
            /\ s = "cancelled" => task[j].outcome = "cancelled"
      BY <2>2 DEF Finish
    <3>2. \A s \in {"cancelled", "failed"} :
            /\ [job[j] EXCEPT !.status = s] \in JobRecord
            /\ [job[j] EXCEPT !.status = s].status = s
            /\ [job[j] EXCEPT !.status = s].attempts = job[j].attempts
      BY <2>0, JobFields DEF JobStatus, JobRecord
    <3>3. QED
      BY <3>1, <3>2
  <2>3. QED
    BY <2>1, <2>2
<1>2. /\ task[j].at = "finish" /\ task'[j].at = "settle"
      /\ task'[j].outcome = task[j].outcome
      /\ announced' = announced
  BY DEF Finish, At, Goto, TaskFrame, TasksTyped, TaskRecord
<1>3. QED
  BY <1>1, <1>2, Recorded

-----------------------------------------------------------------------------
(* The queue *)

LEMMA EnrichedStays ==
  ASSUME IInv, Next, NEW m \in Meetings, Enriched(m)
  PROVE  (Enriched(m))'
BY StoreOnlyGrows DEF Enriched

\* Who neither steps nor is taken up by recovery or a request lives on.
LEMMA LivesOn ==
  ASSUME IInv, Next, NEW i \in Jobs, Living(i), task'[i] = task[i], job'[i] = job[i],
         row'[i] = row[i], announced'[i] = announced[i], i \in issued => i \in issued'
  PROVE  (Living(i))'
<1>1. ASSUME announced[i] = "completed"
      PROVE  job'[i].meeting \in Meetings /\ (Enriched(job[i].meeting))'
  <2>1. PICK m \in Meetings : m = job[i].meeting /\ Enriched(m)
    BY <1>1 DEF Living
  <2>2. (Enriched(m))'
    BY <2>1, EnrichedStays
  <2>3. QED
    BY <2>1, <2>2 DEF Enriched
<1>2. QED
  BY <1>1 DEF Living, Gone

LEMMA QueueTask ==
  ASSUME IInv, QueueInv, NEW j \in Jobs, TaskStep(j)
  PROVE  QueueInv'
<1>0. /\ RecordsTyped /\ TasksTyped /\ EngineTyped /\ EnrichInv /\ IssuedInv /\ Next
      /\ Living(j) /\ task[j].at # "idle" /\ j \in issued /\ UNCHANGED recovery
      /\ engine \in {"queue", "up"}
  BY TypeParts, StepActive DEF IInv, IssuedInv, QueueInv, Next
<1>1. ASSUME NEW i \in Jobs, i # j
      PROVE  /\ task'[i] = task[i] /\ job'[i] = job[i] /\ row'[i] = row[i]
             /\ announced'[i] = announced[i] /\ issued' = issued
  BY <1>0, <1>1, OthersAlone, OthersQuiet
<1>2. WaitingInv'
  <2>1. \A i \in unfinished : i \in Jobs /\ i # j
    BY <1>0 DEF QueueInv, WaitingInv, Gone, EngineTyped
  <2>2. \A i \in unfinished : (Gone(i))' /\ row'[i].status \in Open
    BY <1>1, <2>1 DEF QueueInv, WaitingInv, Gone
  <2>3. QED
    BY <1>0, <2>2 DEF QueueInv, WaitingInv, recovery
<1>3. ASSUME NEW i \in Jobs, i # j PROVE (Living(i))'
  BY <1>0, <1>1, <1>3, LivesOn DEF QueueInv
<1>4. j \in issued'
  BY <1>0 DEF TaskStep, Begin, SaveMeeting, Link, Media, Transcribe, SaveTranscript,
       Rebegin, Load, MarkProcessing, Chunk, Extract, Synthesize, Validate, SaveIr,
       Render, SaveMom, SaveParticipants, Finish, Settle, TaskFrame
<1>5. (Living(j))'
  <2>1. CASE Settle(j)
    <3>1. /\ task'[j].at = "idle" /\ job' = job
          /\ announced'[j] = "completed" =>
               task[j].at = "settle" /\ task[j].outcome = "ok"
      BY <1>0, <2>1 DEF Settle, At, Idle, TasksTyped, EngineTyped
    <3>2. announced'[j] = "completed" =>
            job[j].meeting \in Meetings /\ Enriched(job[j].meeting)
      BY <1>0, <3>1 DEF EnrichInv
    <3>3. QED
      BY <1>0, <1>4, <3>1, <3>2, EnrichedStays DEF Living
  <2>2. CASE Finish(j)
    <3>1. task'[j].at = "settle" /\ announced'[j] = "none"
      BY <1>0, <2>2, Closes DEF Living
    <3>2. QED
      BY <1>4, <3>1 DEF Living
  <2>3. CASE GoesOn(j) /\ task[j].at # "settle"
    <3>1. /\ task'[j].at \notin {"idle", "settle"} /\ announced'[j] = "none"
          /\ job[j].status \in Open /\ row[j].status \notin Terminal
      BY <1>0, <2>3 DEF GoesOn, Living
    <3>2. job'[j].status \in Open /\ row'[j].status \notin Terminal
      <4>1. CASE UNCHANGED <<job, row>>
        BY <3>1, <4>1
      <4>2. CASE ~UNCHANGED <<job, row>>
        <5>1. PICK r \in JobRecord : r.status \in {job[j].status, "running"} /\ Record(j, r)
          BY <2>3, <4>2 DEF GoesOn
        <5>2. QED
          BY <1>0, <3>1, <5>1, Recorded DEF Open, Terminal
      <4>3. QED
        BY <4>1, <4>2
    <3>3. QED
      BY <1>4, <3>1, <3>2 DEF Living
  <2>4. QED
    BY <1>0, <2>1, <2>2, <2>3, RunsGoOn, StepActive
<1>6. QED
  BY <1>2, <1>3, <1>5 DEF QueueInv

LEMMA QueueRequest ==
  ASSUME IInv, QueueInv, Requests
  PROVE  QueueInv'
<1>0. RecordsTyped /\ TasksTyped /\ EngineTyped /\ IssuedInv /\ Next
  BY TypeParts DEF IInv, Next
<1>1. CASE \E j \in Jobs : CancelJob(j)
  <2>1. UNCHANGED <<task, job, row, announced, issued, recovery>>
    BY <1>1 DEF CancelJob
  <2>2. \A i \in Jobs : (Living(i))'
    BY <1>0, <2>1, LivesOn DEF QueueInv
  <2>3. WaitingInv'
    BY <2>1 DEF QueueInv, WaitingInv, Gone, recovery
  <2>4. QED
    BY <2>2, <2>3 DEF QueueInv
<1>2. ASSUME NEW j \in Jobs, NEW kind \in {"process", "reprocess"}, NEW new,
             Spawn(j, kind, new), new.at \in {"begin", "rebegin"}
      PROVE  QueueInv'
  <2>1. /\ engine = "up" /\ unfinished = {} /\ UNCHANGED recovery
        /\ j \notin issued /\ issued' = issued \cup {j} /\ Gone(j)
        /\ announced' = announced
    BY <1>2 DEF Spawn, QueueInv, WaitingInv, Living
  <2>2. /\ NewJob(kind, "queued") \in JobRecord
        /\ NewJob(kind, "queued").status = "queued"
    BY ConstantsAssumption DEF NewJob, JobRecord, JobStatus, JobStage
  <2>3. job'[j].status = "queued" /\ row'[j].status \in {"queued", "absent"}
    BY <1>0, <1>2, <2>1, <2>2, Recorded DEF Spawn, IssuedInv
  <2>4. (Living(j))'
    BY <1>0, <1>2, <2>1, <2>3 DEF Spawn, Living, Gone, Open, Terminal, TasksTyped
  <2>5. ASSUME NEW i \in Jobs, i # j PROVE (Living(i))'
    <3>1. /\ task'[i] = task[i] /\ job'[i] = job[i] /\ row'[i] = row[i]
          /\ i \in issued => i \in issued'
      BY <1>0, <1>2, <2>1, <2>5 DEF Spawn, Record, Mirror, RecordsTyped, TasksTyped
    <3>2. QED
      BY <1>0, <2>1, <3>1, LivesOn DEF QueueInv
  <2>6. WaitingInv'
    BY <2>1 DEF WaitingInv, recovery
  <2>7. QED
    BY <2>4, <2>5, <2>6 DEF QueueInv
<1>3. CASE \E j \in Jobs, text \in Transcripts \cup {NoText} : StartProcessing(j, text)
  BY <1>2, <1>3 DEF StartProcessing, Idle
<1>4. CASE \E j \in Jobs, m \in Meetings : StartReprocessing(j, m)
  BY <1>2, <1>4 DEF StartReprocessing, Idle
<1>5. QED
  BY <1>1, <1>3, <1>4 DEF Requests

LEMMA QueueRecovery ==
  ASSUME IInv, QueueInv, Recovery
  PROVE  QueueInv'
<1>0. RecordsTyped /\ TasksTyped /\ EngineTyped /\ IssuedInv /\ Next
  BY TypeParts DEF IInv, Next
<1>1. CASE \/ Start \/ ListUnfinished \/ Serve \/ \E m \in Meetings : DeferInterrupted(m)
  <2>1. UNCHANGED <<task, job, row, announced, issued>>
    BY <1>1 DEF Start, ListUnfinished, Serve, DeferInterrupted, RecoveryFrame
  <2>2. \A i \in Jobs : (Living(i))'
    BY <1>0, <2>1, LivesOn DEF QueueInv
  <2>3. WaitingInv'
    BY <1>1, <2>1 DEF Start, ListUnfinished, Serve, DeferInterrupted, QueueInv,
         WaitingInv, Gone, Open
  <2>4. QED
    BY <2>2, <2>3 DEF QueueInv
<1>2. ASSUME NEW j \in Jobs, ResumeJob(j) PROVE QueueInv'
  <2> DEFINE r == [row[j] EXCEPT !.attempts = @ + 1, !.status = "queued",
                                 !.kind = "reprocess"]
  <2>1. /\ engine = "queue" /\ j \in unfinished /\ Gone(j) /\ row[j].status \in Open
        /\ engine' = engine /\ unfinished' = unfinished \ {j}
        /\ announced' = announced /\ issued' = issued /\ j \in issued
    BY <1>0, <1>2 DEF ResumeJob, RecoveryFrame, QueueInv, WaitingInv, IssuedInv
  <2>2. /\ \A i \in Jobs \ {j} : task'[i] = task[i] /\ job'[i] = job[i] /\ row'[i] = row[i]
        /\ task'[j].at = "rebegin"
    BY <1>0, <1>2 DEF ResumeJob, Record, Mirror, RecordsTyped, TasksTyped, Idle
  <2>3. job'[j].status \in Open /\ row'[j].status \in Open
    <3>1. job'[j] = r /\ row'[j] \in {r, row[j]}
      BY <1>0, <1>2 DEF ResumeJob, Record, Mirror, RecordsTyped
    <3>2. r.status = "queued"
      BY <1>0 DEF RecordsTyped, JobRecord
    <3>3. QED
      BY <2>1, <3>1, <3>2 DEF Open
  <2>4. (Living(j))'
    BY <2>1, <2>2, <2>3 DEF Living, Gone, Open, Terminal
  <2>5. \A i \in Jobs \ {j} : (Living(i))'
    BY <1>0, <2>1, <2>2, LivesOn DEF QueueInv
  <2>6. WaitingInv'
    BY <1>0, <2>1, <2>2 DEF QueueInv, WaitingInv, Gone, EngineTyped
  <2>7. QED
    BY <2>4, <2>5, <2>6 DEF QueueInv
<1>3. ASSUME NEW j \in Jobs, CloseJob(j) PROVE QueueInv'
  <2>1. /\ engine = "queue" /\ Gone(j)
        /\ engine' = engine /\ unfinished' = unfinished \ {j}
        /\ UNCHANGED <<job, task, announced, issued>>
    BY <1>3 DEF CloseJob, RecoveryFrame, QueueInv, WaitingInv
  <2>2. \A i \in Jobs \ {j} : row'[i] = row[i]
    BY <1>0, <1>3 DEF CloseJob, Mirror, RecordsTyped
  <2>3. (Living(j))'
    BY <2>1 DEF Living, Gone
  <2>4. \A i \in Jobs \ {j} : (Living(i))'
    BY <1>0, <2>1, <2>2, LivesOn DEF QueueInv
  <2>5. WaitingInv'
    BY <1>0, <2>1, <2>2 DEF QueueInv, WaitingInv, Gone, EngineTyped
  <2>6. QED
    BY <2>3, <2>4, <2>5 DEF QueueInv
<1>4. QED
  BY <1>1, <1>2, <1>3 DEF Recovery

LEMMA QueueStep == IInv /\ QueueInv /\ [Next]_vars => QueueInv'
<1>1. CASE IInv /\ QueueInv /\ Crash
  <2>1. /\ engine' = "down" /\ unfinished' = {}
        /\ \A j \in Jobs : (Gone(j))'
    BY <1>1 DEF Crash, Gone, Idle, Absent, NewJob
  <2>2. \A j \in Jobs : (Living(j))'
    BY <2>1 DEF Gone, Living
  <2>3. QED
    BY <2>1, <2>2 DEF QueueInv, WaitingInv
<1>2. CASE QueueInv /\ UNCHANGED vars
  BY <1>2 DEF QueueInv, WaitingInv, Living, Gone, Enriched, vars, store, recovery
<1>3. QED
  BY <1>1, <1>2, QueueTask, QueueRequest, QueueRecovery DEF Next

-----------------------------------------------------------------------------
(* The artifacts of a run *)

\* A step of a task writes artifacts of its own run only, and none before it is
\* past the last check of the cancel flag.
LEMMA WritesItsRun ==
  ASSUME StoreTyped, RecordsTyped, TasksTyped, NEW j \in Jobs, TaskStep(j)
  PROVE  /\ \A r \in Runs : (Wrote(r))' => Wrote(r) \/ r = RunOf(j)
         /\ task'[j].at # "idle" => (Committed(j))' \/ ~Committed(j)
         /\ ~Committed(j) => UNCHANGED <<ir, mom, people>> \/ (Committed(j))'
<1>0. task[j] \in TaskRecord
  BY DEF TasksTyped
<1>1. CASE \/ Begin(j) \/ SaveMeeting(j) \/ Link(j) \/ Media(j) \/ Transcribe(j)
           \/ SaveTranscript(j) \/ Rebegin(j) \/ Load(j) \/ Chunk(j) \/ Extract(j)
           \/ Synthesize(j) \/ Validate(j) \/ MarkProcessing(j)
  <2>1. UNCHANGED <<ir, mom, people>>
    BY <1>1 DEF Begin, SaveMeeting, Link, Media, Transcribe, SaveTranscript, Rebegin,
         Load, Chunk, Extract, Synthesize, Validate, MarkProcessing, store
  <2>2. ~Committed(j)
    BY <1>1 DEF Begin, SaveMeeting, Link, Media, Transcribe, SaveTranscript, Rebegin,
         Load, Chunk, Extract, Synthesize, Validate, MarkProcessing, At, Committed
  <2>3. QED
    BY <2>1, <2>2 DEF Wrote
<1>2. CASE SaveIr(j)
  <2>1. (Committed(j))'
    BY <1>0, <1>2 DEF SaveIr, Enter, StorageError, Goto, Return, Committed, TasksTyped,
         TaskRecord
  <2>2. \A m \in Meetings : ir'[m] \in {ir[m], RunOf(j)}
    BY <1>2 DEF SaveIr, StoreTyped
  <2>3. QED
    BY <1>2, <2>1, <2>2 DEF SaveIr, Wrote
<1>3. CASE SaveMom(j)
  <2>1. (Committed(j))'
    BY <1>0, <1>3 DEF SaveMom, StorageError, Goto, Return, Committed, TasksTyped, TaskRecord
  <2>2. \A m \in Meetings : mom'[m] \in {mom[m], RunOf(j)}
    BY <1>3 DEF SaveMom, StoreTyped
  <2>3. QED
    BY <1>3, <2>1, <2>2 DEF SaveMom, Wrote
<1>4. CASE SaveParticipants(j)
  <2>1. (Committed(j))'
    BY <1>0, <1>4 DEF SaveParticipants, StorageError, Return, Committed, TasksTyped, TaskRecord
  <2>2. \A m \in Meetings : people'[m] \in {people[m], RunOf(j)}
    BY <1>4 DEF SaveParticipants, StoreTyped
  <2>3. QED
    BY <1>4, <2>1, <2>2 DEF SaveParticipants, Wrote
<1>5. CASE Render(j)
  <2>1. (Committed(j))' /\ UNCHANGED <<ir, mom, people>>
    BY <1>0, <1>5 DEF Render, Enter, Goto, Committed, TasksTyped, TaskRecord, store
  <2>2. QED
    BY <2>1 DEF Wrote
<1>6. CASE Finish(j)
  <2>1. /\ task[j].at = "finish" /\ task'[j].at = "settle"
        /\ task'[j].outcome = task[j].outcome
        /\ UNCHANGED <<ir, mom, people>>
    BY <1>0, <1>6 DEF Finish, At, Goto, TasksTyped, TaskRecord, store
  <2>2. QED
    BY <2>1 DEF Wrote, Committed
<1>7. CASE Settle(j)
  BY <1>0, <1>7 DEF Settle, Idle, Wrote, TasksTyped
<1>8. QED
  BY <1>1, <1>2, <1>3, <1>4, <1>5, <1>6, <1>7 DEF TaskStep

\* Whose run writes nothing, and whose records stay, stays clean.
LEMMA StaysClean ==
  ASSUME RecordsTyped, NEW i \in Jobs, Clean(i), task'[i] = task[i], job'[i] = job[i],
         row'[i] = row[i], i \in issued => i \in issued',
         \A k \in 0 .. MAX_JOB_ATTEMPTS : (Wrote(<<i, k>>))' => Wrote(<<i, k>>)
  PROVE  (Clean(i))'
<1>1. RunOf(i)' = RunOf(i)
  BY DEF RunOf
<1>2. (Wrote(RunOf(i)))' => Wrote(RunOf(i))
  <2>1. PICK k \in 0 .. MAX_JOB_ATTEMPTS : k = job[i].attempts
    BY DEF RecordsTyped, JobRecord
  <2>2. RunOf(i) = <<i, k>> /\ RunOf(i)' = <<i, k>>
    BY <2>1 DEF RunOf
  <2>3. QED
    BY <2>2 DEF Wrote
<1>3. QED
  BY <1>2 DEF Clean, Committed

LEMMA CleanTask ==
  ASSUME IInv, QueueInv, CleanInv, ~QueueFails, NEW j \in Jobs, TaskStep(j)
  PROVE  CleanInv'
<1>0. /\ StoreTyped /\ RecordsTyped /\ TasksTyped /\ EngineTyped /\ Living(j) /\ Clean(j)
      /\ task[j].at # "idle" /\ j \in issued
  BY TypeParts, StepActive DEF IInv, IssuedInv, QueueInv, CleanInv
<1>1. \A r \in Runs : (Wrote(r))' => Wrote(r) \/ r = RunOf(j)
  BY <1>0, WritesItsRun
<1>2. ASSUME NEW i \in Jobs, i # j PROVE (Clean(i))'
  <2>1. \A k \in 0 .. MAX_JOB_ATTEMPTS : (Wrote(<<i, k>>))' => Wrote(<<i, k>>)
    BY <1>1, <1>2 DEF Runs, RunOf
  <2>2. /\ task'[i] = task[i] /\ job'[i] = job[i] /\ issued' = issued
        /\ row'[i] = row[i]
    BY <1>0, <1>2, OthersAlone, OthersQuiet
  <2>3. QED
    BY <1>0, <2>1, <2>2, StaysClean DEF CleanInv
<1>3. j \in issued'
  BY <1>0 DEF TaskStep, Begin, SaveMeeting, Link, Media, Transcribe, SaveTranscript,
       Rebegin, Load, MarkProcessing, Chunk, Extract, Synthesize, Validate, SaveIr,
       Render, SaveMom, SaveParticipants, Finish, Settle, TaskFrame
<1>4. PICK n \in 0 .. MAX_JOB_ATTEMPTS : n = job[j].attempts
  BY <1>0 DEF RecordsTyped, JobRecord
<1>5. CASE Settle(j)
  <2>1. /\ job' = job /\ row' = row /\ UNCHANGED <<ir, mom, people>>
        /\ task'[j].at = "idle"
    BY <1>0, <1>5 DEF Settle, Idle, TasksTyped
  <2>2. QED
    BY <1>0, <1>2, <1>3, <2>1 DEF CleanInv, Clean, Wrote, RunOf
<1>6. CASE ~Settle(j)
  <2>1. /\ task[j].at \notin {"idle", "settle"}
        /\ job[j].status \in Open /\ row[j] = job[j]
    BY <1>0, <1>6, StepActive DEF Living, Clean, Open
  <2>2. /\ job'[j].attempts = n /\ row'[j] = job'[j]
        /\ job'[j].status = "cancelled" => Finish(j) /\ ~Committed(j)
    <3>1. CASE Finish(j)
      BY <1>0, <1>4, <3>1, Closes DEF Committed
    <3>2. CASE GoesOn(j)
      <4>1. CASE UNCHANGED <<job, row>>
        BY <1>4, <2>1, <4>1 DEF Open
      <4>2. CASE ~UNCHANGED <<job, row>>
        <5>1. PICK r \in JobRecord : /\ r.status \in {job[j].status, "running"}
                                     /\ r.attempts = job[j].attempts /\ Record(j, r)
          BY <3>2, <4>2 DEF GoesOn
        <5>2. QED
          BY <1>0, <1>4, <2>1, <5>1, Recorded DEF Open
      <4>3. QED
        BY <4>1, <4>2
    <3>3. QED
      BY <1>0, <1>6, <3>1, <3>2, RunsGoOn
  <2>3. /\ RunOf(j) = <<j, n>> /\ RunOf(j)' = <<j, n>> /\ <<j, n>> \in Runs
    BY <1>4, <2>2 DEF RunOf, Runs
  <2>4. \A k \in 0 .. MAX_JOB_ATTEMPTS : (Wrote(<<j, k>>))' => k <= row'[j].attempts
    <3>1. ASSUME NEW k \in 0 .. MAX_JOB_ATTEMPTS, (Wrote(<<j, k>>))'
          PROVE  k <= n
      <4>1. <<j, k>> \in Runs
        BY DEF Runs
      <4>2. Wrote(<<j, k>>) \/ <<j, k>> = <<j, n>>
        BY <1>1, <2>3, <3>1, <4>1
      <4>3. QED
        BY <1>0, <1>4, <2>1, <4>2 DEF Clean
    <3>2. QED
      BY <2>2, <3>1
  <2>5. task'[j].at # "idle" /\ (Wrote(<<j, n>>))' => (Committed(j))'
    <3>1. UNCHANGED <<ir, mom, people>> /\ (Wrote(<<j, n>>))' => Wrote(<<j, n>>)
      BY DEF Wrote
    <3>2. Wrote(<<j, n>>) => Committed(j)
      BY <1>0, <2>3 DEF Clean
    <3>3. QED
      BY <1>0, <3>1, <3>2, WritesItsRun
  <2>6. job'[j].status = "cancelled" => ~(Wrote(<<j, n>>))'
    <3>1. ASSUME Finish(j), ~Committed(j) PROVE ~(Wrote(<<j, n>>))'
      <4>1. UNCHANGED <<ir, mom, people>> /\ ~Wrote(<<j, n>>)
        BY <1>0, <2>3, <3>1 DEF Finish, Clean, store
      <4>2. QED
        BY <4>1 DEF Wrote
    <3>2. QED
      BY <2>2, <3>1
  <2>7. (Clean(j))'
    BY <1>3, <2>2, <2>3, <2>4, <2>5, <2>6 DEF Clean
  <2>8. QED
    BY <1>2, <2>7 DEF CleanInv
<1>7. QED
  BY <1>5, <1>6

LEMMA CleanOthers ==
  ASSUME IInv, QueueInv, CleanInv, ~QueueFails, Requests \/ Crash \/ Recovery
  PROVE  CleanInv'
<1>0. /\ StoreTyped /\ RecordsTyped /\ TasksTyped /\ EngineTyped
      /\ UNCHANGED <<ir, mom, people>>
  <2>1. UNCHANGED <<ir, mom, people>>
    BY DEF Requests, StartProcessing, StartReprocessing, Spawn, CancelJob, Crash, Recovery,
         Start, ListUnfinished, Serve, DeferInterrupted, ResumeJob, CloseJob, store
  <2>2. QED
    BY <2>1, TypeParts DEF IInv
<1>1. \A r \in Runs : (Wrote(r))' <=> Wrote(r)
  BY <1>0 DEF Wrote
<1>2. \A i \in Jobs : \A k \in 0 .. MAX_JOB_ATTEMPTS : (Wrote(<<i, k>>))' <=> Wrote(<<i, k>>)
  BY <1>1 DEF Runs
<1>3. ASSUME NEW j \in Jobs, NEW new, NEW kind \in {"process", "reprocess"},
             Spawn(j, kind, new), new.at \in {"begin", "rebegin"}
      PROVE  CleanInv'
  <2>1. j \notin issued /\ issued' = issued \cup {j}
    BY <1>3 DEF Spawn
  <2>2. ASSUME NEW i \in Jobs, i # j PROVE (Clean(i))'
    <3>1. task'[i] = task[i] /\ job'[i] = job[i] /\ row'[i] = row[i]
      BY <1>0, <1>3, <2>2 DEF Spawn, Record, Mirror, RecordsTyped, TasksTyped
    <3>2. QED
      BY <1>0, <1>2, <2>1, <3>1, StaysClean DEF CleanInv
  <2>3. /\ job'[j] = NewJob(kind, "queued") /\ row'[j] = job'[j]
        /\ RunOf(j)' = <<j, 0>> /\ job'[j].status = "queued"
    BY <1>0, <1>3 DEF Spawn, Record, Mirror, RecordsTyped, NewJob, RunOf
  <2>4. \A k \in 0 .. MAX_JOB_ATTEMPTS : ~(Wrote(<<j, k>>))'
    BY <1>2, <2>1 DEF CleanInv, Clean
  <2>5. ~(Wrote(<<j, 0>>))'
    BY <2>4, ConstantsAssumption
  <2>6. (Clean(j))'
    BY <2>3, <2>4, <2>5 DEF Clean, Wrote
  <2>7. QED
    BY <2>2, <2>6 DEF CleanInv
<1>4. CASE Requests
  <2>1. CASE \E j \in Jobs : CancelJob(j)
    <3>1. UNCHANGED <<task, job, row, issued>>
      BY <2>1 DEF CancelJob
    <3>2. QED
      BY <1>0, <1>2, <3>1, StaysClean DEF CleanInv
  <2>2. CASE \E j \in Jobs, text \in Transcripts \cup {NoText} : StartProcessing(j, text)
    BY <1>3, <2>2 DEF StartProcessing, Idle
  <2>3. CASE \E j \in Jobs, m \in Meetings : StartReprocessing(j, m)
    BY <1>3, <2>3 DEF StartReprocessing, Idle
  <2>4. QED
    BY <1>4, <2>1, <2>2, <2>3 DEF Requests
<1>5. CASE Crash
  <2>1. /\ \A j \in Jobs : job'[j].status = "absent" /\ task'[j].at = "idle"
        /\ row' = row /\ issued' = issued
    BY <1>5 DEF Crash, Absent, NewJob, Idle
  <2>2. QED
    BY <1>2, <2>1 DEF CleanInv, Clean
<1>6. CASE \/ Start \/ ListUnfinished \/ Serve \/ \E m \in Meetings : DeferInterrupted(m)
  <2>1. UNCHANGED <<task, job, row, issued>>
    BY <1>6 DEF Start, ListUnfinished, Serve, DeferInterrupted, RecoveryFrame
  <2>2. QED
    BY <1>0, <1>2, <2>1, StaysClean DEF CleanInv
<1>7. ASSUME NEW j \in Jobs, ResumeJob(j) PROVE CleanInv'
  <2> DEFINE r == [row[j] EXCEPT !.attempts = @ + 1, !.status = "queued",
                                 !.kind = "reprocess"]
  <2>1. \A i \in Jobs \ {j} : task'[i] = task[i] /\ job'[i] = job[i] /\ row'[i] = row[i]
    BY <1>0, <1>7 DEF ResumeJob, Record, Mirror, RecordsTyped, TasksTyped
  <2>2. issued' = issued
    BY <1>7 DEF ResumeJob, RecoveryFrame
  <2>3. \A i \in Jobs \ {j} : (Clean(i))'
    BY <1>0, <1>2, <2>1, <2>2, StaysClean DEF CleanInv
  <2>4. job'[j] = r /\ row'[j] = r
    BY <1>0, <1>7 DEF ResumeJob, Record, Mirror, RecordsTyped
  <2>5. PICK n \in 0 .. MAX_JOB_ATTEMPTS : n = row[j].attempts + 1
    BY <1>0, <1>7, ConstantsAssumption DEF ResumeJob, WithinBudget, RecordsTyped, JobRecord
  <2>6. r.attempts = n /\ r.status = "queued"
    BY <1>0, <2>5 DEF RecordsTyped, JobRecord
  <2>7. \A k \in 0 .. MAX_JOB_ATTEMPTS :
          (Wrote(<<j, k>>))' => j \in issued' /\ k <= row[j].attempts
    BY <1>2, <2>2 DEF CleanInv, Clean
  <2>8. row[j].attempts \in Nat
    BY <1>0 DEF RecordsTyped, JobRecord
  <2>9. ~(Wrote(<<j, n>>))' /\ RunOf(j)' = <<j, n>>
    BY <2>4, <2>5, <2>6, <2>7, <2>8 DEF RunOf
  <2>10. /\ \A k \in 0 .. MAX_JOB_ATTEMPTS :
              (Wrote(<<j, k>>))' => j \in issued' /\ k <= row'[j].attempts
         /\ ~(Wrote(RunOf(j)))'
    BY <2>4, <2>5, <2>6, <2>7, <2>8, <2>9 DEF Wrote
  <2>11. QED
    BY <2>3, <2>4, <2>10 DEF CleanInv, Clean
<1>8. ASSUME NEW j \in Jobs, CloseJob(j) PROVE CleanInv'
  <2>1. UNCHANGED <<task, job, issued>> /\ Gone(j)
    BY <1>8 DEF CloseJob, RecoveryFrame, QueueInv, WaitingInv
  <2>2. \A i \in Jobs \ {j} : row'[i] = row[i]
    BY <1>0, <1>8 DEF CloseJob, Mirror, RecordsTyped
  <2>3. \A i \in Jobs \ {j} : (Clean(i))'
    BY <1>0, <1>2, <2>1, <2>2, StaysClean DEF CleanInv
  <2>4. row'[j].attempts = row[j].attempts
    BY <1>0, <1>8 DEF CloseJob, Mirror, RecordsTyped, JobRecord
  <2>5. (Clean(j))'
    BY <1>2, <2>1, <2>4 DEF CleanInv, Clean, Gone
  <2>6. QED
    BY <2>3, <2>5 DEF CleanInv
<1>9. QED
  BY <1>4, <1>5, <1>6, <1>7, <1>8 DEF Recovery

LEMMA CleanStep ==
  ~QueueFails /\ IInv /\ QueueInv /\ CleanInv /\ [Next]_vars => CleanInv'
<1>1. CASE CleanInv /\ UNCHANGED vars
  BY <1>1 DEF CleanInv, Clean, Wrote, Committed, RunOf, vars, store
<1>2. QED
  BY <1>1, CleanTask, CleanOthers DEF Next

-----------------------------------------------------------------------------
(* Theorems about the queue *)

\* The queue's own invariant, with failing databases and any number of crashes.
THEOREM QueueInvariant == Spec => [](IInv /\ QueueInv)
<1>1. Init => IInv /\ QueueInv
  BY InvInit, QueueInit
<1>2. IInv /\ QueueInv /\ [Next]_vars => (IInv /\ QueueInv)'
  BY InvStep, QueueStep
<1>3. QED
  BY <1>1, <1>2, PTL DEF Spec

\* A client that is told a job completed finds the minutes of its meeting
\* (engine_summary_service.dart), whatever jobs overlap and writes fail.
THEOREM CompletedReadable == Spec => []CompletedIsReadable
<1>1. QueueInv => CompletedIsReadable
  BY ConstantsAssumption DEF QueueInv, Living, CompletedIsReadable
<1>2. QED
  BY <1>1, QueueInvariant, PTL

\* No late step of a task, no request and no recovery writes a closed row of
\* jobs.db again (jobs.rs, recover_jobs).
THEOREM ClosedStaysClosed == Spec => ClosedRowsStayClosed
<1>1. IInv /\ QueueInv /\ [Next]_vars =>
        [\A j \in Jobs : row[j].status \in Terminal => row'[j] = row[j]]_vars
  <2> SUFFICES ASSUME IInv, QueueInv, Next, NEW j \in Jobs, row[j].status \in Terminal
               PROVE  row'[j] = row[j]
    OBVIOUS
  <2>0. RecordsTyped /\ TasksTyped /\ EngineTyped /\ IssuedInv
    BY TypeParts DEF IInv
  <2>1. ASSUME NEW i \in Jobs, TaskStep(i) PROVE row'[j] = row[j]
    <3>1. CASE i # j
      BY <2>0, <2>1, <3>1, OthersQuiet
    <3>2. CASE i = j
      <4>1. Settle(j)
        BY <2>1, <3>2, StepActive DEF QueueInv, Living
      <4>2. QED
        BY <4>1 DEF Settle
    <3>3. QED
      BY <3>1, <3>2
  <2>2. CASE Requests
    <3>1. j \in issued
      BY <2>0 DEF IssuedInv, Terminal
    <3>2. QED
      BY <2>0, <2>2, <3>1 DEF Requests, StartProcessing, StartReprocessing, Spawn,
           CancelJob, Record, Mirror, RecordsTyped
  <2>3. CASE Recovery
    <3>1. j \notin unfinished
      BY DEF QueueInv, WaitingInv, Open, Terminal
    <3>2. QED
      BY <2>0, <2>3, <3>1 DEF Recovery, Start, ListUnfinished, Serve, DeferInterrupted,
           ResumeJob, CloseJob, Record, Mirror, RecordsTyped
  <2>4. QED
    BY <2>1, <2>2, <2>3 DEF Next, Crash
<1>2. QED
  BY <1>1, QueueInvariant, PTL DEF Spec, ClosedRowsStayClosed

\* A run that ends as cancelled has left nothing behind (check_cancel), when
\* jobs.db does not fail: if a write is lost there, a resumed job counts the
\* attempt before again, and its run cannot be told from that one.
THEOREM CancelledIsClean == ASSUME ~QueueFails PROVE Spec => []CancelledLeavesNoArtifact
<1>1. Init => CleanInv
  BY QueueInit
<1>2. IInv /\ QueueInv /\ CleanInv /\ [Next]_vars => CleanInv'
  BY CleanStep
<1>3. CleanInv => CancelledLeavesNoArtifact
  BY DEF CleanInv, Clean, Wrote, CancelledLeavesNoArtifact
<1>4. QED
  BY <1>1, <1>2, <1>3, QueueInvariant, PTL DEF Spec

=============================================================================
