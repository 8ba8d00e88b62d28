------------------------------ MODULE Pipeline ------------------------------
(***************************************************************************)
(* The meeting pipeline of notely-engine: the orchestrator that captures a *)
(* meeting and enriches it, the job registry and its durable mirror        *)
(* (jobs.db), the meeting store (notely.db), and startup recovery.         *)
(*                                                                         *)
(* An action is the code between two awaits, or between two durable        *)
(* writes: a crash, a cancellation or a step of another job can fall       *)
(* between any two actions.  Meetings and transcripts are opaque; the      *)
(* output of the language model is represented by the run (job, attempt)   *)
(* that produced it, since two runs on one transcript may disagree.        *)
(***************************************************************************)
EXTENDS Integers

CONSTANTS
  Jobs,              \* job identifiers (fresh UUIDs, never reused)
  Meetings,          \* meeting identifiers (fresh UUIDs, never reused)
  Transcripts,       \* raw transcripts
  ChunksOf,          \* transcript -> how many chunks preprocess::prepare cuts
  NoJob, NoMeeting, NoText, NoRun,
  MAX_JOB_ATTEMPTS,  \* recover_jobs: how often a job is resumed
  StoreFails,        \* BOOLEAN: an access to notely.db may return an error
  QueueFails,        \* BOOLEAN: an access to jobs.db may return an error
  MaxCrashes         \* bound on the crashes of a behaviour

\* Runs of the enrichment: a job and its attempt number.
Runs == Jobs \X (0 .. MAX_JOB_ATTEMPTS)

ASSUME ConstantsAssumption ==
  /\ NoJob \notin Jobs /\ NoMeeting \notin Meetings
  /\ NoText \notin Transcripts /\ NoRun \notin Runs
  /\ ChunksOf \in [Transcripts -> Nat]
  /\ MAX_JOB_ATTEMPTS \in Nat /\ MaxCrashes \in Nat
  /\ StoreFails \in BOOLEAN /\ QueueFails \in BOOLEAN

VARIABLES
  \* notely.db
  creator,     \* meeting -> job whose run inserted the row, or NoJob: no row
  transcript,  \* meeting -> transcript artifact, or NoText
  ir, mom,     \* meeting -> run that wrote the artifact, or NoRun
  people,      \* meeting -> run whose participants the row carries, or NoRun
  status,      \* meeting -> ProcessingState of its status artifact, or "none"
  \* jobs.db
  row,         \* job -> the job as last persisted
  \* the engine process
  engine,      \* "down", recovering "statuses", recovering "queue", or "up"
  interrupted, \* recover_interrupted: meetings still to be marked deferred
  unfinished,  \* recover_jobs: rows still to be resumed or closed
  job,         \* JobRegistry: job -> the job in memory
  cancel,      \* job -> its CancelFlag
  task,        \* job -> the spawned task that runs it
  announced,   \* job -> the terminal event broadcast for it, or "none"
  \* bookkeeping of the model
  issued,      \* job ids already handed out
  crashes

store == <<creator, transcript, ir, mom, people, status>>
recovery == <<engine, interrupted, unfinished>>
vars == <<store, row, recovery, job, cancel, task, announced, issued, crashes>>

-----------------------------------------------------------------------------
(* Jobs *)

JobStatus == {"queued", "running", "completed", "failed", "cancelled"}
Terminal  == {"completed", "failed", "cancelled"}
JobStage  == {"created", "media", "transcription", "chunking", "extraction",
              "synthesis", "validation", "rendering", "storing", "done"}

\* A Job record; status "absent" stands for "no entry".
JobRecord ==
  [kind : {"process", "reprocess"}, status : JobStatus \cup {"absent"},
   stage : JobStage, meeting : Meetings \cup {NoMeeting},
   attempts : 0 .. MAX_JOB_ATTEMPTS]

NewJob(kind, s) ==
  [kind |-> kind, status |-> s, stage |-> "created",
   meeting |-> NoMeeting, attempts |-> 0]

Absent == NewJob("process", "absent")

\* The run a job is on: what marks the artifacts it writes.
RunOf(j) == <<j, job[j].attempts>>

\* JobRegistry::persist: best effort, an error is logged and swallowed.
Mirror(j, r) ==
  \/ row' = [row EXCEPT ![j] = r]
  \/ QueueFails /\ UNCHANGED row

\* JobRegistry::update, reinsert and create: the entry in memory, then its row.
Record(j, r) ==
  /\ job' = [job EXCEPT ![j] = r]
  /\ Mirror(j, r)

SetStage(j, stage) == Record(j, [job[j] EXCEPT !.stage = stage])

-----------------------------------------------------------------------------
(* The spawned task of a job *)

\* Where a task awaits.  "finish" and "settle" are the two writes of finalize.
Capturing == {"begin", "saveMeeting", "link", "media", "asr", "saveTranscript"}
Enriching == {"chunk", "extract", "synthesize", "validate", "saveIr",
              "render", "saveMom", "saveParticipants"}
Points == {"idle", "rebegin", "load", "mark", "finish", "settle"}
            \cup Capturing \cup Enriching

\* How run/rerun returned: Ok, Err(Cancelled), Err(Storage), or another error.
Outcomes == {"pending", "ok", "cancelled", "storage", "error"}

\* Locals of a task: the meeting, the transcript, the chunks left to extract.
Idle == [at |-> "idle", meeting |-> NoMeeting, text |-> NoText, left |-> 0,
         outcome |-> "pending"]

Active(j) == task[j].at # "idle"

At(j, point) == engine \in {"queue", "up"} /\ task[j].at = point

Goto(j, point) == task' = [task EXCEPT ![j].at = point]

\* run/rerun returns: finalize is next.
Return(j, outcome) ==
  task' = [task EXCEPT ![j].at = "finish", ![j].outcome = outcome]

\* The synchronous code before the next await: enter a stage (one row write).
Enter(j, point, stage) == Goto(j, point) /\ SetStage(j, stage)

\* check_cancel(cancel)?; then enter the next stage.
CheckCancelThenEnter(j, point, stage) ==
  \/ /\ cancel[j]
     /\ Return(j, "cancelled")
     /\ UNCHANGED <<job, row>>
  \/ ~cancel[j] /\ Enter(j, point, stage)

\* A write to notely.db returned an error: the ? operator.
StorageError(j) == StoreFails /\ Return(j, "storage")

TaskFrame == UNCHANGED <<recovery, cancel, announced, issued, crashes>>

-----------------------------------------------------------------------------
(* run: capture a new meeting *)

\* jobs.update(|j| j.status = Running)
Begin(j) ==
  /\ At(j, "begin")
  /\ Record(j, [job[j] EXCEPT !.status = "running"])
  /\ Goto(j, "saveMeeting")
  /\ UNCHANGED store /\ TaskFrame

\* store.save_meeting of a fresh Meeting.
SaveMeeting(j) ==
  /\ At(j, "saveMeeting")
  /\ \/ \E m \in Meetings :
          /\ creator[m] = NoJob
          /\ creator' = [creator EXCEPT ![m] = j]
          /\ task' = [task EXCEPT ![j].at = "link", ![j].meeting = m]
     \/ StorageError(j) /\ UNCHANGED creator
  /\ UNCHANGED <<transcript, ir, mom, people, status, job, row>> /\ TaskFrame

\* Mutation of Link: the meeting id is not mirrored to jobs.db.
LinkInMemoryOnly(j) ==
  /\ At(j, "link") /\ task[j].text # NoText
  /\ job' = [job EXCEPT ![j].meeting = task[j].meeting]
  /\ Goto(j, "saveTranscript")
  /\ UNCHANGED <<store, row>> /\ TaskFrame

\* The meeting id reaches the job; check_cancel; a transcript is saved as it
\* is, a recording goes through media (stage) and ASR first.
Link(j) ==
  /\ At(j, "link")
  /\ LET linked == [job[j] EXCEPT !.meeting = task[j].meeting] IN
       \/ cancel[j] /\ Record(j, linked) /\ Return(j, "cancelled")
       \/ /\ ~cancel[j] /\ task[j].text # NoText
          /\ Record(j, linked) /\ Goto(j, "saveTranscript")
       \/ /\ ~cancel[j] /\ task[j].text = NoText
          /\ Record(j, [linked EXCEPT !.stage = "media"]) /\ Goto(j, "media")
  /\ UNCHANGED store /\ TaskFrame

\* media.extract_audio
Media(j) ==
  /\ At(j, "media")
  /\ \/ CheckCancelThenEnter(j, "asr", "transcription")
     \/ Return(j, "error") /\ UNCHANGED <<job, row>>
  /\ UNCHANGED store /\ TaskFrame

\* asr.transcribe
Transcribe(j) ==
  /\ At(j, "asr")
  /\ \/ \E t \in Transcripts :
          task' = [task EXCEPT ![j].at = "saveTranscript", ![j].text = t]
     \/ Return(j, "error")
  /\ UNCHANGED <<store, job, row>> /\ TaskFrame

\* Mutation of SaveTranscript: an error is logged and the run goes on.
SaveTranscriptBestEffort(j) ==
  /\ At(j, "saveTranscript")
  /\ \/ transcript' = [transcript EXCEPT ![task[j].meeting] = task[j].text]
     \/ StoreFails /\ UNCHANGED transcript
  /\ Goto(j, "mark")
  /\ UNCHANGED <<creator, ir, mom, people, status, job, row>> /\ TaskFrame

\* store.save_transcript: from here on the capture is safe.
SaveTranscript(j) ==
  /\ At(j, "saveTranscript")
  /\ \/ /\ transcript' = [transcript EXCEPT ![task[j].meeting] = task[j].text]
        /\ Goto(j, "mark")
     \/ StorageError(j) /\ UNCHANGED transcript
  /\ UNCHANGED <<creator, ir, mom, people, status, job, row>> /\ TaskFrame

-----------------------------------------------------------------------------
(* rerun: enrich a stored meeting again (retry and resumption) *)

\* jobs.update(|j| Running, meeting_id)
Rebegin(j) ==
  /\ At(j, "rebegin")
  /\ Record(j, [job[j] EXCEPT !.status = "running",
                              !.meeting = task[j].meeting])
  /\ Goto(j, "load")
  /\ UNCHANGED store /\ TaskFrame

\* store.get_meeting and store.get_transcript; a missing one is a Storage error.
Load(j) ==
  /\ At(j, "load")
  /\ LET m == task[j].meeting IN
       \/ /\ creator[m] # NoJob /\ transcript[m] # NoText
          /\ task' = [task EXCEPT ![j].at = "mark", ![j].text = transcript[m]]
       \/ /\ creator[m] = NoJob \/ transcript[m] = NoText
          /\ Return(j, "storage")
       \/ StorageError(j)
  /\ UNCHANGED <<store, job, row>> /\ TaskFrame

-----------------------------------------------------------------------------
(* enrich and analyze *)

\* store.save_processing_status, best effort.
PersistStatus(m, s) ==
  \/ status' = [status EXCEPT ![m] = s]
  \/ StoreFails /\ UNCHANGED status

\* persist_status(processing); check_cancel; stage(Chunking)
MarkProcessing(j) ==
  /\ At(j, "mark")
  /\ PersistStatus(task[j].meeting, "processing")
  /\ CheckCancelThenEnter(j, "chunk", "chunking")
  /\ UNCHANGED <<creator, transcript, ir, mom, people>> /\ TaskFrame

\* preprocess::prepare; an empty transcript needs no extraction.
Chunk(j) ==
  /\ At(j, "chunk")
  /\ LET total == ChunksOf[task[j].text] IN
       \/ cancel[j] /\ Return(j, "cancelled") /\ UNCHANGED <<job, row>>
       \/ ~cancel[j] /\ total = 0 /\ Enter(j, "validate", "validation")
       \/ /\ ~cancel[j] /\ total > 0
          /\ task' = [task EXCEPT ![j].at = "extract", ![j].left = total]
          /\ SetStage(j, "extraction")
  /\ UNCHANGED store /\ TaskFrame

\* ai.extract_chunk, with check_cancel before the next chunk or the synthesis.
Extract(j) ==
  /\ At(j, "extract")
  /\ \/ /\ ~cancel[j] /\ task[j].left > 1
        /\ task' = [task EXCEPT ![j].left = @ - 1]
        /\ UNCHANGED <<job, row>>
     \/ /\ ~cancel[j] /\ task[j].left <= 1
        /\ task' = [task EXCEPT ![j].at = "synthesize", ![j].left = 0]
        /\ SetStage(j, "synthesis")
     \/ cancel[j] /\ Return(j, "cancelled") /\ UNCHANGED <<job, row>>
     \/ Return(j, "error") /\ UNCHANGED <<job, row>>
  /\ UNCHANGED store /\ TaskFrame

\* ai.synthesize
Synthesize(j) ==
  /\ At(j, "synthesize")
  /\ \/ CheckCancelThenEnter(j, "validate", "validation")
     \/ Return(j, "error") /\ UNCHANGED <<job, row>>
  /\ UNCHANGED store /\ TaskFrame

\* validation::validate; the fixed IR of an empty transcript always passes.
Validate(j) ==
  /\ At(j, "validate")
  /\ \/ Goto(j, "saveIr")
     \/ ChunksOf[task[j].text] > 0 /\ Return(j, "error")
  /\ UNCHANGED <<store, job, row>> /\ TaskFrame

\* Mutation of SaveIr: an error is logged and the run goes on.
SaveIrBestEffort(j) ==
  /\ At(j, "saveIr")
  /\ \/ ir' = [ir EXCEPT ![task[j].meeting] = RunOf(j)]
     \/ StoreFails /\ UNCHANGED ir
  /\ Enter(j, "render", "rendering")
  /\ UNCHANGED <<creator, transcript, mom, people, status>> /\ TaskFrame

\* store.save_meeting_ir, then stage(Rendering).  No check_cancel from here on.
SaveIr(j) ==
  /\ At(j, "saveIr")
  /\ \/ /\ ir' = [ir EXCEPT ![task[j].meeting] = RunOf(j)]
        /\ Enter(j, "render", "rendering")
     \/ StorageError(j) /\ UNCHANGED <<ir, job, row>>
  /\ UNCHANGED <<creator, transcript, mom, people, status>> /\ TaskFrame

\* Mutation of Render: one more check_cancel, after the IR was stored.
RenderChecked(j) ==
  /\ At(j, "render")
  /\ CheckCancelThenEnter(j, "saveMom", "storing")
  /\ UNCHANGED store /\ TaskFrame

\* markdown::render_with_title, then stage(Storing)
Render(j) ==
  /\ At(j, "render")
  /\ Enter(j, "saveMom", "storing")
  /\ UNCHANGED store /\ TaskFrame

\* Mutation of SaveMom: an error is logged and the run goes on.
SaveMomBestEffort(j) ==
  /\ At(j, "saveMom")
  /\ \/ mom' = [mom EXCEPT ![task[j].meeting] = RunOf(j)]
     \/ StoreFails /\ UNCHANGED mom
  /\ Goto(j, "saveParticipants")
  /\ UNCHANGED <<creator, transcript, ir, people, status, job, row>> /\ TaskFrame

\* store.save_mom
SaveMom(j) ==
  /\ At(j, "saveMom")
  /\ \/ /\ mom' = [mom EXCEPT ![task[j].meeting] = RunOf(j)]
        /\ Goto(j, "saveParticipants")
     \/ StorageError(j) /\ UNCHANGED mom
  /\ UNCHANGED <<creator, transcript, ir, people, status, job, row>> /\ TaskFrame

\* meeting.participants = ir.participants; store.save_meeting
SaveParticipants(j) ==
  /\ At(j, "saveParticipants")
  /\ \/ /\ people' = [people EXCEPT ![task[j].meeting] = RunOf(j)]
        /\ Return(j, "ok")
     \/ StorageError(j) /\ UNCHANGED people
  /\ UNCHANGED <<creator, transcript, ir, mom, status, job, row>> /\ TaskFrame

-----------------------------------------------------------------------------
(* finalize *)

\* The terminal state of the job, in memory and in its row.
Finish(j) ==
  /\ At(j, "finish")
  /\ LET o == task[j].outcome IN
       \/ /\ o = "ok"
          /\ Record(j, [job[j] EXCEPT !.status = "completed", !.stage = "done",
                                      !.meeting = task[j].meeting])
       \/ o = "cancelled" /\ Record(j, [job[j] EXCEPT !.status = "cancelled"])
       \/ o \in {"storage", "error"}
          /\ Record(j, [job[j] EXCEPT !.status = "failed"])
  /\ Goto(j, "settle")
  /\ UNCHANGED store /\ TaskFrame

\* The durable ProcessingStatus an outcome leaves.
StatusAfter(outcome) ==
  CASE outcome = "ok"      -> "ready"
    [] outcome = "storage" -> "failed"
    [] OTHER               -> "deferred"

\* persist_status, when the job got as far as a meeting, and the terminal event.
Settle(j) ==
  /\ At(j, "settle")
  /\ LET m == job[j].meeting
         o == task[j].outcome
     IN  /\ \/ m # NoMeeting /\ PersistStatus(m, StatusAfter(o))
            \/ m = NoMeeting /\ UNCHANGED status
         /\ announced' = [announced EXCEPT
                            ![j] = IF o = "ok" THEN "completed" ELSE "failed"]
  /\ task' = [task EXCEPT ![j] = Idle]
  /\ UNCHANGED <<creator, transcript, ir, mom, people, row, recovery, job,
                 cancel, issued, crashes>>

-----------------------------------------------------------------------------
(* Requests *)

\* jobs.create and tokio::spawn, common to both requests.
Spawn(j, kind, new) ==
  /\ engine = "up"
  /\ j \in Jobs \ issued
  /\ issued' = issued \cup {j}
  /\ Record(j, NewJob(kind, "queued"))
  /\ task' = [task EXCEPT ![j] = new]
  /\ UNCHANGED <<store, recovery, cancel, announced, crashes>>

\* Bound: ids never run out in the code, so a capture begins only while there
\* is one in Meetings for it and for every capture still to insert its own.
IdLeftFor(j) ==
  LET waiting == {k \in Jobs : task[k].at \in {"begin", "saveMeeting"}} \cup {j}
      free    == {m \in Meetings : creator[m] = NoJob}
  IN  \E id \in [waiting -> free] :
        \A k, l \in waiting : id[k] = id[l] => k = l

\* Request::ProcessMeeting with a transcript, or (text = NoText) a recording.
StartProcessing(j, text) ==
  /\ IdLeftFor(j)
  /\ Spawn(j, "process", [Idle EXCEPT !.at = "begin", !.text = text])

\* Request::ReprocessMeeting, which any listed meeting can be asked for.
StartReprocessing(j, m) ==
  /\ creator[m] # NoJob
  /\ Spawn(j, "reprocess", [Idle EXCEPT !.at = "rebegin", !.meeting = m])

\* Request::CancelJob: only the in-memory flag.
CancelJob(j) ==
  /\ engine = "up"
  /\ job[j].status # "absent" /\ ~cancel[j]
  /\ cancel' = [cancel EXCEPT ![j] = TRUE]
  /\ UNCHANGED <<store, row, recovery, job, task, announced, issued, crashes>>

-----------------------------------------------------------------------------
(* Crash, restart and recovery *)

\* The process dies: everything in memory is gone.
Crash ==
  /\ engine # "down" /\ crashes < MaxCrashes
  /\ crashes' = crashes + 1
  /\ engine' = "down" /\ interrupted' = {} /\ unfinished' = {}
  /\ job' = [j \in Jobs |-> Absent]
  /\ cancel' = [j \in Jobs |-> FALSE]
  /\ task' = [j \in Jobs |-> Idle]
  /\ announced' = [j \in Jobs |-> "none"]
  /\ UNCHANGED <<store, row, issued>>

RecoveryFrame == UNCHANGED <<cancel, announced, issued, crashes>>

\* Engine::new, and recover_interrupted lists the statuses.
Start ==
  /\ engine = "down"
  /\ engine' = "statuses"
  /\ \/ interrupted' = {m \in Meetings : status[m] = "processing"}
     \/ StoreFails /\ interrupted' = {}
  /\ UNCHANGED <<store, row, unfinished, job, task>> /\ RecoveryFrame

\* recover_interrupted, one row.
DeferInterrupted(m) ==
  /\ engine = "statuses" /\ m \in interrupted
  /\ interrupted' = interrupted \ {m}
  /\ PersistStatus(m, "deferred")
  /\ UNCHANGED <<creator, transcript, ir, mom, people, row, engine, unfinished,
                 job, task>>
  /\ RecoveryFrame

\* Mutation of ListUnfinished: every row that is not completed is taken.
ListNotCompleted ==
  /\ engine = "statuses" /\ interrupted = {}
  /\ engine' = "queue"
  /\ unfinished' = {j \in Jobs : row[j].status \notin {"absent", "completed"}}
  /\ UNCHANGED <<store, row, interrupted, job, task>> /\ RecoveryFrame

\* recover_jobs: JobStore::list_unfinished.
ListUnfinished ==
  /\ engine = "statuses" /\ interrupted = {}
  /\ engine' = "queue"
  /\ \/ unfinished' = {j \in Jobs : row[j].status \in {"queued", "running"}}
     \/ QueueFails /\ unfinished' = {}
  /\ UNCHANGED <<store, row, interrupted, job, task>> /\ RecoveryFrame

Resumable(j) ==
  /\ row[j].meeting # NoMeeting
  /\ transcript[row[j].meeting] # NoText

\* Mutation of WithinBudget: one attempt too many.
WithinBudgetOrEqual(j) == row[j].attempts <= MAX_JOB_ATTEMPTS

WithinBudget(j) == row[j].attempts < MAX_JOB_ATTEMPTS

\* Mutations of ResumeJob: the capture is resumed where it was, in ASR; a
\* process job is run from its beginning.
ResumeFrom(j, point) ==
  /\ engine = "queue" /\ j \in unfinished
  /\ Resumable(j) /\ WithinBudget(j)
  /\ unfinished' = unfinished \ {j}
  /\ Record(j, [row[j] EXCEPT !.attempts = @ + 1, !.status = "queued"])
  /\ task' = [task EXCEPT ![j] = [Idle EXCEPT !.at = point,
                                              !.meeting = row[j].meeting]]
  /\ UNCHANGED <<store, engine, interrupted>> /\ RecoveryFrame
ResumeInAsr(j)     == ResumeFrom(j, "asr")
ResumeFromStart(j) == ResumeFrom(j, "begin")

\* recover_jobs: the row is requeued and a reprocess task is spawned for it.
\* Rows are taken in any order, which includes the code's creation order.
ResumeJob(j) ==
  /\ engine = "queue" /\ j \in unfinished
  /\ Resumable(j) /\ WithinBudget(j)
  /\ unfinished' = unfinished \ {j}
  /\ Record(j, [row[j] EXCEPT !.attempts = @ + 1, !.status = "queued",
                              !.kind = "reprocess"])
  /\ task' = [task EXCEPT ![j] = [Idle EXCEPT !.at = "rebegin",
                                              !.meeting = row[j].meeting]]
  /\ UNCHANGED <<store, engine, interrupted>> /\ RecoveryFrame

\* Mutation of CloseJob: the row is skipped, not closed.
SkipJob(j) ==
  /\ engine = "queue" /\ j \in unfinished
  /\ ~Resumable(j) \/ ~WithinBudget(j) \/ StoreFails
  /\ unfinished' = unfinished \ {j}
  /\ UNCHANGED <<store, row, engine, interrupted, job, task>> /\ RecoveryFrame

\* recover_jobs: a row over its budget, or without a transcript (or with one
\* that cannot be read), is closed as failed; only the row is written.
CloseJob(j) ==
  /\ engine = "queue" /\ j \in unfinished
  /\ ~Resumable(j) \/ ~WithinBudget(j) \/ StoreFails
  /\ unfinished' = unfinished \ {j}
  /\ Mirror(j, [row[j] EXCEPT !.status = "failed"])
  /\ UNCHANGED <<store, engine, interrupted, job, task>> /\ RecoveryFrame

\* Recovery is over: the listener is bound and requests are served.
Serve ==
  /\ engine = "queue" /\ unfinished = {}
  /\ engine' = "up"
  /\ UNCHANGED <<store, row, interrupted, unfinished, job, task>>
  /\ RecoveryFrame

-----------------------------------------------------------------------------
Init ==
  /\ creator    = [m \in Meetings |-> NoJob]
  /\ transcript = [m \in Meetings |-> NoText]
  /\ ir         = [m \in Meetings |-> NoRun]
  /\ mom        = [m \in Meetings |-> NoRun]
  /\ people     = [m \in Meetings |-> NoRun]
  /\ status     = [m \in Meetings |-> "none"]
  /\ row        = [j \in Jobs |-> Absent]
  /\ engine = "down" /\ interrupted = {} /\ unfinished = {}
  /\ job        = [j \in Jobs |-> Absent]
  /\ cancel     = [j \in Jobs |-> FALSE]
  /\ task       = [j \in Jobs |-> Idle]
  /\ announced  = [j \in Jobs |-> "none"]
  /\ issued = {} /\ crashes = 0

\* One step of the spawned task of j.
TaskStep(j) ==
  \/ Begin(j) \/ SaveMeeting(j) \/ Link(j) \/ Media(j) \/ Transcribe(j)
  \/ SaveTranscript(j) \/ Rebegin(j) \/ Load(j) \/ MarkProcessing(j)
  \/ Chunk(j) \/ Extract(j) \/ Synthesize(j) \/ Validate(j) \/ SaveIr(j)
  \/ Render(j) \/ SaveMom(j) \/ SaveParticipants(j) \/ Finish(j) \/ Settle(j)

Requests ==
  \E j \in Jobs :
    \/ \E text \in Transcripts \cup {NoText} : StartProcessing(j, text)
    \/ \E m \in Meetings : StartReprocessing(j, m)
    \/ CancelJob(j)

Recovery ==
  \/ Start \/ ListUnfinished \/ Serve
  \/ \E m \in Meetings : DeferInterrupted(m)
  \/ \E j \in Jobs : ResumeJob(j) \/ CloseJob(j)

Next == Requests \/ Crash \/ Recovery \/ \E j \in Jobs : TaskStep(j)

Spec == Init /\ [][Next]_vars

\* The runtime polls every spawned task until it ends, the engine is started
\* again after a crash, and startup runs to the end.  Requests, cancellations
\* and crashes are never owed.
Fairness ==
  /\ \A j \in Jobs : WF_vars(TaskStep(j))
  /\ WF_vars(Recovery)

FairSpec == Spec /\ Fairness

-----------------------------------------------------------------------------
(* Correctness *)

TypeOK ==
  /\ creator \in [Meetings -> Jobs \cup {NoJob}]
  /\ transcript \in [Meetings -> Transcripts \cup {NoText}]
  /\ ir \in [Meetings -> Runs \cup {NoRun}]
  /\ mom \in [Meetings -> Runs \cup {NoRun}]
  /\ people \in [Meetings -> Runs \cup {NoRun}]
  /\ status \in [Meetings ->
                  {"none", "processing", "ready", "deferred", "failed"}]
  /\ row \in [Jobs -> JobRecord]
  /\ engine \in {"down", "statuses", "queue", "up"}
  /\ interrupted \subseteq Meetings /\ unfinished \subseteq Jobs
  /\ job \in [Jobs -> JobRecord]
  /\ cancel \in [Jobs -> BOOLEAN]
  /\ task \in [Jobs -> [at : Points, meeting : Meetings \cup {NoMeeting},
                        text : Transcripts \cup {NoText}, left : Nat,
                        outcome : Outcomes]]
  /\ announced \in [Jobs -> {"none", "completed", "failed"}]
  /\ issued \subseteq Jobs /\ crashes \in 0 .. MaxCrashes

\* Both derived artifacts of a meeting can be read.
Enriched(m) == ir[m] # NoRun /\ mom[m] # NoRun

\* What a user sees of the store: the abstract library of meetings.
Library == INSTANCE MeetingLibrary WITH
  source  <- transcript,
  minutes <- [m \in Meetings |-> Enriched(m)],
  state   <- status

\* The pipeline, with its crashes, retries and failing writes, only ever takes
\* the library through the steps MeetingLibrary allows: a source is written
\* once, minutes come after it, and "ready" and "processing" are announced only
\* when what they claim is on disk (orchestrator.rs: run, enrich, finalize;
\* lib.rs: recover_interrupted).
ImplementsLibrary == Library!Spec

\* ProcessingState::Ready means "derived artifacts (IR, MOM) are available"
\* (processing.rs): after any crash, retry or overlap of jobs, a ready meeting
\* has its transcript, its IR and its MOM.
ReadyHasArtifacts ==
  \A m \in Meetings :
    status[m] = "ready" => transcript[m] # NoText /\ Enriched(m)

\* The client learns of JobCompleted and fetches the minutes at once
\* (engine_summary_service.dart): they are readable by then.
CompletedIsReadable ==
  \A j \in Jobs :
    announced[j] = "completed" =>
      job[j].meeting # NoMeeting /\ Enriched(job[j].meeting)

\* Retry and resumption "never create a second meeting" (orchestrator.rs,
\* reprocess; lib.rs, recover_jobs): a job inserts at most one meeting, over
\* all its attempts.
OneCapturePerJob ==
  \A m, n \in Meetings :
    creator[m] # NoJob /\ creator[m] = creator[n] => m = n

\* A stored transcript is the source of truth: no later run, retry, resumption
\* or recovery changes or drops it (orchestrator.rs, run and rerun).
SourceNeverChanges ==
  [][\A m \in Meetings :
       transcript[m] # NoText => transcript'[m] = transcript[m]]_vars

\* Cancellation is checked between stages and chunks: a run that ends as
\* cancelled has left no artifact behind (orchestrator.rs, check_cancel).
CancelledLeavesNoArtifact ==
  \A j \in Jobs :
    job[j].status = "cancelled" =>
      \A m \in Meetings : RunOf(j) \notin {ir[m], mom[m], people[m]}

\* A row of jobs.db that reached a terminal state is closed: neither a late
\* step of a task nor recovery writes it again (jobs.rs, lib.rs recover_jobs).
ClosedRowsStayClosed ==
  [][\A j \in Jobs :
       row[j].status \in Terminal => row'[j] = row[j]]_vars

\* Every persisted job is eventually closed, through crashes: it is run to its
\* end, or resumed, or failed by recovery (healthy databases).
QueueDrains ==
  \A j \in Jobs :
    row[j].status \in {"queued", "running"} ~> row[j].status \in Terminal

\* A captured transcript is eventually surfaced with a settled status: the
\* window between save_transcript and persist_status(processing) is closed by
\* the resumption of the job (healthy databases, budget not exhausted).
CapturesSettle ==
  \A m \in Meetings :
    transcript[m] # NoText ~> status[m] \in {"ready", "deferred", "failed"}

\* "all writes upsert, so it is safe to re-run" (orchestrator.rs:299); the MOM
\* is rendered from the Meeting IR.  Does not hold when two jobs re-run one
\* meeting at once: the last IR and the last MOM can come from different runs.
ReadyArtifactsAgree ==
  \A m \in Meetings :
    status[m] = "ready" /\ ~(\E j \in Jobs : Active(j)) => ir[m] = mom[m]
=============================================================================
