# Notely: a TLA+ model

Notely is a local-first notes app. A Flutter desktop app (`src/apps/desktop/lib`) edits a vault of
Markdown notes and records meetings; a Rust engine (`src/engine/src`), reached over a local TCP
connection, turns meetings into minutes and searches the vault. This directory models the parts of both
that keep state under concurrency and failure, and the algorithms that decide what the minutes and
answers say. TLC checks them on small instances; TLAPS proves the core for every instance.

Run from this directory, for example: `tlc -workers 2 -config pipeline_overlap.cfg MCPipeline` for a run
of the table below, `tlapm PipelineProofs.tla` for proofs. `PROJECT.json` maps every definition to the
source lines it stands for, and lists runs, mutants, findings, hazards and theorems. Definitions whose
comment begins with "Mutation of" or "Mutant of" are the faults the properties are tested against, and
are used nowhere else.

## The system

| Component | State it keeps | Operations | What is hard | What makes it correct |
|---|---|---|---|---|
| **Pipeline and job queue** (`pipeline/orchestrator.rs`, `jobs.rs`, `job_store.rs`, `lib.rs`) | job registry in memory, its mirror `jobs.db`, cancel flags, one spawned task per job | process, reprocess, cancel, startup recovery | overlapping jobs on a meeting, writes that fail one by one, crashes between durable writes, bounded resumption | ready and completed tell the truth; one capture per job; the source never changes; every job closes |
| **Meeting store** (`storage/database.rs`, `domain/processing.rs`) | `notely.db`: meetings, transcript, IR, MOM, processing status | upserts, list | none of its writes are grouped in a transaction | what `MeetingLibrary` promises |
| **Vault index** (`search/index.rs`, `lib.rs` search/ask) | `search.db`: chunks, sources and fingerprints, vectors | sync before each query, hybrid retrieval, background embedding | notes edited while they are read; statements that commit one at a time; vectors stored long after the read; one index for all vaults | a search sees the vault as it is; embedding heals itself |
| **Intelligence** (`preprocess/`, `ai/`, `search/chunker.rs`, `search/qa.rs`, ranking in `search/index.rs`) | analyses and questions in progress | chunk, extract, repair, ground, merge, validate, render; retrieve, fuse, answer | a model that answers anything; answers shared between meetings; notes that change under a question | nothing lost in chunking; evidence and owners grounded; citations of the notes |
| **LLM result cache** (`llm/cache.rs`, `llm/provider.rs`, `config.rs`) | `llm_cache.db`: key to response | generate | concurrent misses, other models after a restart | invisible to its callers |
| **Engine link** (`ipc/server.rs`, `engine_client.dart`, `engine_summary_service.dart`) | connections and their queues, pending requests, reconnection, handshake | request, event, reconnect, await a job | lagging event streams, timeouts, late answers, crashes, another version | an answer belongs to its question; the client comes back |
| **Inbox** (`inbox_state.dart`) | the list of captures | refresh, retry | overlapping refreshes | shows the store, eventually |
| **Note editor** (`editor_state.dart`, `workspace_shell.dart`, `explorer_state.dart`, `file_tree.dart`, `listening_state.dart`) | open path, buffer, dirty and loading flags, two timers | type, autosave, switch, title sync, rename, delete, insert a summary | state read before an `await` and used after it | nothing typed is lost; no note gets another note's text |
| **Meeting session** (`meeting_session_manager.dart`, `listening_state.dart`, audio, transcript and companion services) | runtime state, awaiting and active meeting, seen and dismissed keys; the listening session; microphone, transcript, window | detect, prompt, track, finalise; start, pause, stop, summarise, close | calls suspended at an `await` that others overtake | one tracked meeting; microphone and window follow the session |
| **Ask panel, explorer, stash, watcher** | conversations, tree, recent stashes | ask, refresh, switch | answers to deleted chats, overlapping refreshes | not modelled |
| **Model providers, media, addresses and paths, widgets, native shells** | none of interest | HTTP, processes, formatting, drawing | external failure | not modelled beyond what may come of a call |

Interactions: the app sends requests to the engine and gets one response each, plus a broadcast of
events. A process or reprocess request is answered with a job id at once; the spawned task writes
the store and the job rows and broadcasts its end. Search and Ask sync the index in the request and
spawn the embedding pass beside it. The index and the editor share only the vault's files; analyses and
questions share the runtime and its cache. A summary ties the parts together: the listening controller
submits a transcript, waits for a job event, fetches the minutes and writes them into the open note.

## Modules

| Module | Models |
|---|---|
| `MeetingLibrary` | the abstract promise to the user: a source is stored once and stays; minutes come only after a source; "ready" needs minutes, "processing" needs a source |
| `Pipeline` | the engine's half of a capture; implements `MeetingLibrary` |
| `VaultIndex` | the search index, its sync, its retrieval and the embedding pass, while notes change |
| `EngineConfig` | the variables that decide which model answers |
| `LlmService` | the abstract provider: an answer was given by the runtime to this request and model |
| `LlmCache` | the two runtimes with the cache in front of them; implements `LlmService` |
| `Words` | containment and prefixes of words, where the engine compares characters |
| `Preparation` | cleaning of a transcript and its partition into chunks with context |
| `Extraction`, `Synthesis` | what Rust makes of a model's answers: grounding, merging, reconciliation, validation, rendering |
| `Analysis` | a run of the two passes over one meeting, each with its repair |
| `Passages` | cutting notes into passages; lexical and dense ranking, reciprocal rank fusion |
| `Answering` | a search or a question: retrieval, prompt, answer or fallback, while notes change |
| `Intelligence` | composes `Analysis` and `Answering` over one `LlmCache` in one process that may restart |
| `EngineLink` | client, connections, broadcast and the two users of the link; engine crashes and restarts |
| `NoteEditor` | the open note and everything that touches it |
| `MeetingSession` | composes the listening session, the meeting manager, microphone, transcript and window |
| `MCPipeline`, `MCVaultIndex`, `MCNoteEditor`, `MCIntelligence` | the small instances for TLC |
| `PipelineProofs`, `VaultProofs`, `FoldProofs`, `AnalysisProofs`, `AskProofs`, `EditorProofs`, `SessionProofs`, `LinkProofs` | theorems |

How state and actions correspond to the code, where it is not evident:

`Pipeline`: one action is the code between two awaits or between two durable writes. `TaskStep` is one
step of a job's task, in the order of `run` (`Begin`, `SaveMeeting`, `Link`, `Media`, `Transcribe`,
`SaveTranscript`, `MarkProcessing`), of `rerun` (`Rebegin`, `Load`, `MarkProcessing`), of `enrich`
(`Chunk`, `Extract` once per chunk, `Synthesize`, `Validate`, `SaveIr`, `Render`, `SaveMom`,
`SaveParticipants`), and of `finalize` (`Finish` for the job and its event, `Settle` for the status).
`StartProcessing`, `StartReprocessing` and `CancelJob` are the requests; `Crash`, `Start`,
`DeferInterrupted`, `ListUnfinished`, `ResumeJob`, `CloseJob` and `Serve` the life of the process. `job`
is the registry in memory, `row` its mirror on disk, which may lag (`Mirror`). Only a listed meeting is
processed again: ids are fresh UUIDs that a client knows from the list, and an unknown one, which
`lib.rs:232` accepts too, ends in `Load` with an error. What the language model
produces is represented by the run that produced it, (job, attempt), so that artifacts of two runs can be
told apart.

`VaultIndex`: `sync_vault_blocking` statement by statement under the connection mutex (`SyncBegin` to
`SyncEnd`), the retrieval, and the embedding pass (`PassCount` to `PassEnd`), which takes the mutex only
to list and to store. A note's rows are represented by the text they were cut from. `WriteNote` and
`DeleteNote`, at any moment, are the editor, the explorer or any other program. `IndexFails` lets any
statement fail, `EmbedFails` the embedder, `SameSecond` lets two writes share an mtime. Embedding is on
(a model is configured).

The intelligence modules take a text to be a sequence of words, a note a sequence of lines. `Analysis`
and `Answering` look a request up and ask the runtime in separate steps, so that concurrent misses and
restarts fall in between; the operators of `Preparation`, `Extraction`, `Synthesis` and `Passages` are the
pure code in between. Deadlines are handled as owners are, and decisions, topics, questions and risks
alike: one of each stands for all; an owner is a single word. Where the code compares strings character by
character (the owner guard, similarity, prefix terms) `Words` says which words begin, end and contain which, as
a parameter; so are the lengths of the embedding models' vectors and which vectors are alike. `Answering` takes the index as one value per note (the lines last
indexed, and last embedded): how it is kept is `VaultIndex`.

`EngineLink`: a connection has the queue of requests to the engine, the response in the engine's hands,
the lines on the way back and the feed of events, which drops its oldest event when it is full. Requests
carry, besides their id, a serial number that only properties read. Of a job there remains what is visible
on the link; `Pipeline` says how it runs. The requests that touch no state of the link (search, ask,
cancel, job status) go the way of those modelled. A connection that is dead shows through the socket's
callbacks; that a write to it may throw first (`ipc/engine_client.dart:332`) is left out.

`NoteEditor`: Dart callbacks run to their next `await`; a *task* is a call suspended there. A text is the
note it belongs to, a revision, and the path its first line asks for. A listener that is notified re-arms
the title timer (`NotifyIf`). `raced` records that a write overlapped with an edit, a switch or a
relocation, or that two relocations overlapped.

`MeetingSession`: a *call* is an asynchronous function suspended at an await of a platform channel, the
engine or the cancellation of a subscription; the bag `calls` holds them, and any of them may be the next
to go on. The recorder may throw when it is started, paused or resumed (`StartFails`, `PauseFails`,
`ResumeFails`), and nothing catches that: the rest of the call is never done. `capture.lacks` records what the
session goes without since, its transcript, its window, or a pause, and the properties exempt that and
no more. `races` records which kinds of calls have overtaken one another: operations on the audio, two
summaries, tracking and finalising, tracking during a review. Properties that hold only without some of
these races name them; what the races do is told under "Further disagreements".

## Runs

The retry budget is the code's 3; constants not mentioned are at their smallest. CHECK_DEADLOCK is off
where the system may really stop: all jobs done and no request, nothing open and the bound on edits used
up, nothing recorded, an incompatible engine.

| Run | Instance | Shows |
|---|---|---|
| `pipeline_overlap` | 2 jobs, 1 meeting, notely.db fails, 1 crash | `ReadyHasArtifacts`, `CompletedIsReadable`, `CancelledLeavesNoArtifact`, `ClosedRowsStayClosed` |
| `pipeline_recovery` | 1 job, 2 meetings (symmetric), 2 transcripts (0 and 2 chunks), both databases fail, 4 crashes | `TypeOK`, `OneCapturePerJob`, `SourceNeverChanges`, `ImplementsLibrary` |
| `pipeline_settle` | 2 jobs, 1 meeting, 1 crash, healthy databases | `QueueDrains`, `CapturesSettle` |
| `vault_fresh` | 1 request at a time, a vault of 2 notes and an empty one, an empty and a non-empty text, 3 edits, embedder fails | `FreshSearchIsExact`, `VectorsInLockstep`, `EmbeddingsCatchUp` |
| `vault_two` | 2 requests (symmetric), 1 vault, 1 note, 3 texts of which one is unreadable, 3 edits, statements fail, 1 crash | `PresentNotesAreExact` |
| `intelligence` | 1 analysis and 2 requests at a time, 3 recordings, 2 notes, 4 configurations; all transcripts of up to 3 segments out of 4 and all notes of up to 5 lines for the chunkers; the mixes of `MCBudgets` | `ChunksPartition`, `PassagesPartition`, `EvidenceIsOwn`, `MinutesAreGrounded`, `RepeatIsFree`, `CitationsAreCurrent`, `CitationsAreRelevant`, `ImplementsService`, `TasksEnd` |
| `link` | 2 tasks (submissions, retries, resumed jobs), 1 fault (crash or timeout), event buffer of 2, engines of the same and another version | `RepliesAreOwn`, `PendingIsServed`, `SummaryIsOwn`, `IncompatibleIsFinal`, `Reconnects`, `SummaryEnds`, `InboxCatchesUp` |
| `editor_all` | 2 notes, 2 suspended calls (symmetric), 2 edits, all operations, writes fail | `TypeOK`, `CleanMeansSaved`, `DirtyIsScheduled` |
| `editor_races` | 2 notes, 3 suspended calls, 2 edits, open and delete, healthy disk | `NotesNeverMix`, `EditsReachDisk` |
| `session` | 2 meetings, 2 starts, 2 calls suspended when the user acts, the recorder throws, at most 1 kind of race or fault behind the user when he acts again | `CaptureFollowsSession`, `CompanionFollowsTracking`, `ReviewIsKept`, `TrackingIsExclusive`, `DismissedStaysQuiet` |

The bounds. Two jobs are enough for an overlap: a third adds no new pair, and every property of the store
relates at most two runs. In `pipeline_overlap`, `pipeline_settle` and `pipeline_mixed` the single meeting
id makes the second job a retry of what the first one captured. Ids are fresh UUIDs, so they must not run
out in the model: a capture begins only while one is left for it (`IdLeftFor`). Four crashes exhaust the
retry budget of 3, the only counter of the queue. `CapturesSettle` and `QueueDrains` are checked with one
crash: with more than three the budget is spent, and a meeting whose job is closed before its first status
write keeps none ("No status" below).

Three edits let a note be written, changed and deleted, or changed twice around one sync. A request on the
empty vault of `vault_fresh` prunes all the notes of the other, which the next request there indexes again.

In `intelligence` the recordings have the same words at other times, so that a cached answer may be asked
for on behalf of another meeting; the four configurations differ in runtime, model and embedder, one of them
by the legacy variable, and of the three embedders two have vectors of one length, so that a restart may leave
vectors that can be compared with the new model's and ones that cannot. The question's term begins a
longer word in one note, and finds a passage of the other by its title alone. The budgets `MaxChars = 6` and
`NoteChars = 4` are met exactly by some of the chunkers' inputs, exceeded by a single segment or paragraph in
others, and shared by several. `MCBudgets` pairs what can interact (two analyses and a restart, two requests with an
edit or a restart, an analysis and a request, failing databases) and leaves the rest out for size.

In `link` two tasks are two overlapping jobs, or a submission and its retry; a buffer of two is full after
one job, so that lag happens; one fault is a crash with its reconnection and another handshake, or a request
that times out and is answered later. A client that has stopped runs its timeouts out without counting.

Two suspended calls are a race of two; `editor_races` has three, for a write that is late by two switches.
`editor_all` has no free path besides the notes' own, so renames follow deletions there; `EditorProofs`
has no such bound. In `session` two starts are a session and the next one, two suspended calls a race
between them; a call that goes on may suspend more.

The violations, each a disagreement between the code and what its own comments say (details in
`PROJECT.json`, findings):

| Run | What happens |
|---|---|
| `pipeline_mixed` | a retry that overlaps the capture (or another retry) leaves the IR of one run beside the MOM of the other |
| `editor_switch` | one call suspended at a time: an edit made while the switch to another note writes the note it leaves is dropped by that switch (an edit during an autosave is lost likewise, by a switch within 800 ms) |

## Fairness

`Pipeline`: weak fairness of each task's steps (the tokio runtime polls a spawned task until it ends; every
await in it returns, with an error if need be) and of recovery (the engine is started again after a crash,
and startup is sequential code). Requests, cancellations and crashes are never owed.

`VaultIndex`: strong fairness of each handler and of the pass. Both wait for a mutex that is free again and
again, and weak fairness would let the other side take it every time; the runtime does not promise this in
so many words, but holders release it after a bounded number of statements. The embedder is reached again
and again, and the user keeps searching, because only a search starts a pass. `EmbeddingsCatchUp` is about
a user who keeps to one vault, as each sync prunes the other vaults.

`Intelligence`: the executor runs what is ready, and the runtime answers, as every call to it has a
timeout. Nothing is assumed of the user, of restarts and of embedding.

`EngineLink`: the client's event loop and its timers, the engine's connection tasks and jobs run. Nothing is
assumed of the user, and of the engine neither that it stops nor that it starts: `Reconnects` speaks of an
engine that stays up.

`NoteEditor`: every suspended file operation returns and a running save timer fires. Typing and clicking are
never owed. `MeetingSession` has safety properties only, and no fairness.

## Proofs

Each holds for every value of the constants that the named assumptions admit; the model-checked instance
is one of them.

| Module | Theorem | States |
|---|---|---|
| `PipelineProofs` | `TypeCorrect`, `ReadySafe`, `OneCapture`, `SourceStable` | `TypeOK`, `ReadyHasArtifacts`, `OneCapturePerJob`, `SourceNeverChanges` |
| | `Refinement` | `Pipeline` implements `MeetingLibrary` |
| | `CompletedReadable`, `ClosedStaysClosed` | `CompletedIsReadable`, `ClosedRowsStayClosed` |
| | `CancelledIsClean` | `CancelledLeavesNoArtifact`, when jobs.db does not fail |
| `VaultProofs` | `PresentAreExact` | `PresentNotesAreExact`, with distinct mtimes, in one vault, or in several without failures and with one search at a time |
| | `FreshAreExact` | `FreshSearchIsExact`, without failures and unreadable notes, and one search at a time if there are several vaults |
| | `VectorsKept` | `VectorsInLockstep`, without failures and crashes |
| `AnalysisProofs` | `CacheIsSound` | every row of the cache was said by a runtime to the request of its key |
| | `CacheIsTransparent` | `Intelligence` with its cache implements `LlmService` |
| | `EvidenceOwn`, `RepeatFree`, `MinutesGrounded` | `EvidenceIsOwn`, `RepeatIsFree`, `MinutesAreGrounded` |
| | `TranscriptsPartitioned` | `ChunksPartition`; `TranscriptPartitioned` says it of every transcript |
| `AskProofs` | `NotesPartitioned` | `PassagesPartition`; `NoteCovered` says it of every note |
| | `CitationsCurrent`, `CitationsRelevant` | `CitationsAreCurrent`, `CitationsAreRelevant` |
| `EditorProofs` | `EditorTyped`, `DirtyNeverForgotten`, `CleanIsSaved` | `TypeOK`, `DirtyIsScheduled`, `CleanMeansSaved` |
| | `NeverMixed` | `NotesNeverMix`, without renames and summaries |
| `SessionProofs` | `DismissedNeverNagged`, `TrackingNeverStolen` | `DismissedStaysQuiet`, `TrackingIsExclusive` |
| | `CaptureFollows`, `ReviewKept`, `CompanionFollows` | `CaptureFollowsSession`, `ReviewIsKept`, `CompanionFollowsTracking` |
| `LinkProofs` | `RepliesOwn`, `RefusedForGood`, `SummaryOfOwnJob`, `PendingServed` | `RepliesAreOwn`, `IncompatibleIsFinal`, `SummaryIsOwn`, `PendingIsServed` |

**Pipeline**, from `ConstantsAssumption` alone (the sentinels are no ids, chunk counts and bounds are
naturals). None of the invariants is inductive by itself. `IInv` adds: `Placed` (a task is where its job's
kind allows, and has the meeting and text it needs there), `IssuedInv` (ids not handed out are unused),
`CaptureInv` (a job that is still to insert a meeting has inserted none, and a meeting still to get its
transcript has none), `EnrichInv` (a task past a store step works on a meeting whose transcript, then IR,
then MOM are stored) and `StatusInv` (ready and processing are backed by the store). The key fact is
`StoreOnlyGrows`: no action takes an artifact away, so what one task relies on survives every step of the
others (`OthersAlone`). Refinement maps a step to `Capture`, `Publish`, `Mark` or a stutter.

**Job queue**, on top of `IInv`. `QueueInv` says of recovery that nothing runs before the rows are listed and
that a row that waits is open and its job gone (`WaitingInv`), and of each job that it is open in memory and on
disk as long as it runs, announces nothing before its end, and what it announced can be read (`Living`).
`CleanInv` adds for `CancelledIsClean` that a job's row mirrors it, so that a resumed job gets a run of its own,
and that a run has written nothing before the last check of its flag (`Committed`). If a write to jobs.db is
lost, a resumed job repeats the number of its last attempt, and its run cannot be told from that one: hence
the assumption `~QueueFails`, also made by `pipeline_overlap`.

**VaultIndex**, from `ConstantsAssumption`, `SentinelsAssumption` and `DistinctTimes` (`SameSecond` is FALSE).
A fresh search finds a note stamped with its fingerprint; the invariant `Inv` says why that is enough:
`Stamped` (a note stamped with its current fingerprint has its rows), which survives because mtimes only
grow, so an edit un-stamps a note for good; `Working` (the note a sync is at is not stamped, and what the
sync knows of it is current unless the note changed); `Absent` (a note the sync did not find is gone or not
stamped, so pruning breaks nothing); `Listed` (in a quiet vault every readable note is still to do or
stamped), which becomes `Synced` at the end of a sync; and `MutexHeld`, which keeps the syncs apart. A
handler without the mutex only relies on stamped notes, and nobody touches those (`OutsideSound`).
`PresentAreExact` needs `Orderly`: one vault, or no failures and one search at a time; see "One index" and
"A prune cut short". `FreshAreExact` is the other inclusion too, no row but those. Its invariant `Tidy` says
that a note without stamp and without a sync at work on it has no rows (`Rowless`), and what a sync has found,
stamped and pruned so far (`Found`, `Exact`, `Later`); it needs that no statement fails and nothing crashes
(`Unfailing`), and that every note can be read (`Legible`): see "Torn rows" and "Unreadable notes". For
`VectorsKept` the invariant `InStep` says of each note with vectors of its own fingerprint that they are of
its text (`Embedded`), and of the pass that what it took is still the note's unless the note changed (`Taken`).

**Cache**, from `BlankAssumption`, `CallersAssumption` and `RuntimeAssumption` (a runtime answers with texts,
and a call record is told from no call). The invariant `RowsWereSaid` says that a row's text was said to
the request its key stands for, with the model resolved; the key resolves the default model just as the
provider does, so a restart with another model makes other keys. A hit then is an earlier answer of the
abstract service, a miss with its row one new answer, and restarts, edits and failing databases stutter.

**Analyses**, from the assumptions of the cache. `AnalysisInv` says that a run that waits asks for exactly
what it is at, that a reply it holds was said to that request, and that each of its findings is what some
runtime said, stamped with the chunk of that number in its own meeting (`Heard`). `EvidenceOwn` follows from
it and from what `StampProvenance` does to an answer (`StampedIsOwn`), if an answer that parses has the
fields of `ChunkFindings` (`FormAssumption`). For `RepeatFree`, the rows of the cache are read as a path:
`Trail` says that they answer every chunk's request, if need be its repair, and then the synthesis, and `IrOf`
is the IR at the end. What was kept has its trail (`KeptIsTrail`), every run follows the rows (`Follows`), and
a run that knows of a kept IR has the whole trail before it (`Free`). Trails stay because rows are only added:
with a working cache and no request answered in two ways, a miss that overwrites a row writes the same
(`CacheExtends`). `ErrorAssumption` says that an error of a runtime is not one of the texts that do not parse.

`MinutesGrounded` has two halves. `GroundInv`, on top of `AnalysisInv`, says that a run has no more findings than
chunks, and that the IR of a run that ended well was reconciled from an answer some runtime gave and from the
run's own findings. The rest is about the operators, for sequences of any length (`FoldProofs`): the prepared
chunks hold segments of the transcript (`ChunksHoldSegments`), a stamped item always has evidence
(`StampedHasEvidence`), merging keeps every piece of it (`MergedEvidence`), what a similar finding supports gets
evidence of the findings and nothing else (`AttachedEvidence`), an owner is stated by a finding about the very
action or occurs in the transcript (`OwnerIsKnown`), and every
speaker joins the participants (`SpeakersListed`, `SpeakersJoin`). It assumes that a consolidated answer that
parses has the fields of `MeetingIr` (`IrAssumption`) and that the archives hold transcripts
(`ArchivesAssumption`).

The folds are recursive functions, and the library's induction theorems cannot be used for them. `FoldProofs` goes
another way: `WFMin` gives every set of naturals a least element, hence `Upward` (a set that holds 0 and goes on from
k - 1 to k holds every k up to n); with it functions with the equations of `FlattenSeq` and `FoldLeft` exist
(`Unrolls`, `Folds`), and every such function goes from one element to the next (`Flattened`, `FoldGoesUp`). To
the provers SelectSeq means nothing, so `Among` writes the filters of the code with FlattenSeq.

`TranscriptsPartitioned` comes from `MaxCharsAssumption` and `TranscriptsAssumption` (the inputs are sequences of
segments whose times are numbers; the budget is a natural) and uses the same facts. Its first half is what `Normalize` returns:
filtering keeps the places of the segments in order (`AmongPlaces`); inserting one more segment behind those
that start no later keeps the list ordered by start and then by place (`InsertedPlaces`, hence `SortedIsStable`); and
a list of a set in a total order is the one `Ordered` gives (`OrderedOnce`), so the result is the property's
own definition of the order (`NormalizedOrder`). Its second half is what `Ranges` returns: `Tiled` holds of the
ranges so far together with the one in hand, that they follow on one another from the first segment to the last one
seen, that each fits the budget or is one segment, and that each but the last would burst with the next segment
(`FirstRange`, `AnotherRange`, `LongerRange`, hence `RangesTile`). Sizes are differences of one running count
(`WeighedBetween`), and the slices along such ranges join to the whole (`SlicesJoin`). The budget of 1 that the code
puts in place of 0 makes no difference, since a segment with words and its newline has at least two characters
(`NormalizedWords`).

**Passages and citations**, from `NoteCharsAssumption` and `DocumentsAssumption` (a note is a sequence of lines
of words), and `VaultAssumption`, `QuestionAssumption` and `RelatedAssumption` (there are finitely many notes, a
question is a sequence of words, limits are naturals, and so is how alike two vectors are, whichever of the
configured models they are of). `OrderedSet` says that `Ordered` enumerates a
finite set in a total order; from it come the paragraphs (`ParagraphsOfNote`) and the ranking (`BestAreRanked`).
Gathering paragraphs is a fold: `Gathering` holds after each of them, that the chunks so far are runs of whole
paragraphs, in their order and within the budget or single, that each begins with a paragraph for which the one
before had no room (`Overfills`), and that the size in hand is that of the chunk in hand,
whose blank lines count nothing (`ParagraphSize`). For the citations `Found` says what a ranking returns (good
passages, each place once, none left out below the limit); `LexicalHits` (a term begins a word of the title
or body: `HitBy`) and `DenseHits` (the vectors are of one length and alike: `Alike`) say so of the two rankings
and `FusedHold` of their fusion, in whatever order it comes out: a place known to both keeps the indexed text, so
another text is cited only when the lexical list was full. `AskInv` says that a request that waits has seen what is
on the disk, and what is indexed unless a database failed, and that one that has its passages cites them by the
snapshot of the index it was answered from; edits and other requests change the index, not the snapshot.

**Editor**, from `ConstantsAssumption` and `NoFileAssumption`. `Inv` holds types, what each suspended call
carries (`Equipped`), that only an open note is dirty, and `DirtyIsScheduled`. `CleanMeansSaved` needs
`CleanInv`: without a race every write under way is of what the editor shows, to the open path
(`WritesAreCurrent`); and as long as writes and relocations keep apart (`Apart`) a path just moved from or
deleted is free (`Vacated`), and the clean open note is on disk, or will be found under its new path when
the relocation that is under way is over (`OpenIsSaved`). `NeverMixed` has `Homed`: every file, the editor and
every write under way hold the text of the note they are named after.

**Session**, from `NoneAssumption`. What a step may do to the manager is one of six things (`Effect`):
it leaves the meetings alone, begins to finalise, prompts, tracks, declines, or ends a finalisation. Over these, `SessionInv`
says that a prompted meeting is not the active one and none is prompted while one is tracked, that dismissed
meetings are neither, and that nothing is finalising a tracked meeting unless the two overlapped.
`CaptureFollows` and `CompanionFollows` speak of the moments when nothing is suspended; their invariants say
what each suspended call still owes. `CaptureInv` has `SummaryKeeps` (who may end the session, and that it is
in review) and `AudioKeeps` (microphone, script and subscription are what the state says, up to the one
operation on the audio that is suspended, and to what the session lacks since the recorder threw); `CompanionInv` has `CompanionKeeps`, the same for the window, its
timer and the capture of the tracked meeting.

**Link**, from `CapacityAssumption` (the event channel holds something). `LinkInv` says that each request on
its way, in the engine's hands, answered or waited for carries as its id the serial number of its send, on
every connection there was; ids are never given out twice, so a late answer finds its own request or none.
`SocketIsOpen` adds that a refused client has neither socket nor timer. For the summary, `SummaryInv` adds
that a completion on its way names the meeting of its job (`EventsOwn`, which needs that a job's meeting,
once set, stays: `JobsGrow`), that what the summary awaits of the engine is one request, its own
(`SummaryAwaits`), and that a result heard while no foreign event was is of a job with its serial
(`SummaryOwn`). For `PendingServed`, `ServedInv` adds that each request waited for on a live connection is on
its way, in hand, being answered or answered (`Served`), and that a client without a connection waits for
nothing (`NoneLeft`).

Only model-checked: everything under fairness (the provers do not reach ENABLED).

## Further disagreements

The modules also show the following; they explain why a property above is restricted, and no run is kept
for them. Paths are below `src/engine/src` or `src/apps/desktop/lib`.

Pipeline and index:

- *Deferred without a source.* A recording that fails in media or ASR, or is cancelled there, is marked
  "deferred" (`pipeline/orchestrator.rs:180`) though `domain/processing.rs:70` says "the source is safe"; a
  retry of it can only fail. So `MeetingLibrary` promises no source for "deferred".
- *No status.* A crash between the meeting row and its first status (`pipeline/orchestrator.rs:215`) leaves a
  meeting without status when its job cannot be resumed; clients take it for ready (`domain/processing.rs:20`).
- *Torn rows.* Rows of a new note are committed before its fingerprint (`search/index.rs:371`); after a crash
  or error in between, and if the note is then deleted, no sync prunes them. So `PresentNotesAreExact` speaks
  of the notes that are there.
- *A prune cut short.* A sync prunes the notes of all other vaults (`search/index.rs:383`), rows first. When it is cut
  short before the source's row goes, the notes stay stamped: back in their own vault they count as unchanged,
  and are not found until they are edited. So `PresentNotesAreExact` is checked for one vault,
  and proved for one vault or, for several, while no statement fails and one search runs at a time.
- *Orphaned vectors.* Vectors of a note that is deleted and pruned while they are computed are stored and
  never pruned (`search/index.rs:498`), though `search/index.rs:185` promises "a real, citable chunk of the vault".
- *Interrupted vectors.* Old vectors are deleted and new ones inserted in separate transactions
  (`search/index.rs:498`). A note that a pass stamped ahead of its indexing can lose them for good when a second
  run is cut short. So `VectorsInLockstep` is checked without crashes and failing statements.
- *Unreadable notes* keep their old rows (`search/index.rs:383`), against the comment at line 368.
- *One index.* A request on another vault between the sync and the retrieval of a first one prunes what the
  first is about to read (`search/index.rs:383`). So `FreshSearchIsExact` is checked with one request at a time.
- *One second.* Two writes of one size within a second have one fingerprint (`search/index.rs:324`), and the second
  is not indexed: `SameSecond` is FALSE in the runs.
- *Stale vectors.* An edited note may be found by its old vectors until it is embedded again, and a change of the
  embedding model embeds no note again (`search/index.rs:454`). No vector carries the name of its model, and only lengths
  are compared (`search/index.rs:618`): vectors of another model of the same length count as if they were
  comparable.

Intelligence:

- *Bad answers are cached.* The text is stored before it is parsed: when an extraction and its repair are both
  malformed, every retry fails without asking the runtime; a blank answer to a question is cached too
  (`llm/cache.rs:3-11`).
- *Evidence of the model.* `ai/synthesis.rs:5-6` says that evidence is "not trusted from the synthesis model", but an
  item that no finding resembles keeps the model's own; quotes of a finding are stamped with the chunk they are
  said to come from, whether or not the words occur there. So `EvidenceIsOwn` is about places, and
  `MinutesAreGrounded` about owners and what was attached.
- *Places of the model.* `ai/extraction.rs:5-7` has Rust stamp evidence with chunk and timestamps, "so findings are
  always traceable"; but a start, end or chunk that the model gives with a quote is kept as it is (line 93), and the
  schema asks for start and end. So `EvidenceIsOwn` excludes quotes that a model gave a place.
- *Owners inside words.* `ai/synthesis.rs:7-8` says that "the model may not invent" owners, but any owner passes whose
  letters somebody's words contain (line 177): in the instance "al" is kept because of "also". So `MinutesAreGrounded` asks for an occurrence,
  be it inside a word.
- *Blank owners.* A blank owner from the synthesis keeps the finding's owner from being recovered; an invented one
  is dropped, not replaced.
- *Ties* of the rank fusion come out in the order of a HashMap: a repeated question may cite in another order
  and miss the cache.

Link and inbox:

- *Foreign results.* A summary takes the first terminal event of any job for its own
  (`services/meeting/engine_summary_service.dart:66`), and shows another meeting's minutes: `SummaryIsOwn` excludes
  `foreign` events.
- *Captured twice.* When the answer to getMom or processMeeting is lost after the engine stored the meeting, Review
  can be retried, and captures again, though `features/listening/listening_state.dart:191` says "never re-submit".
- *Lost terminal events.* A lagging receiver loses any event, although `ipc/server.rs:101` only thinks of progress
  ticks: the inbox stays stale (`InboxCatchesUp` excludes `lagged`), and the summary is deferred after five minutes.
- *A socket that outlives its client.* `dispose` during the await of `_connect` leaves it live
  (`ipc/engine_client.dart:460`); requests pending at an incompatible verdict wait for their timeouts.
- *Offline inbox.* It keeps its list with an error; the comment (`features/inbox/inbox_state.dart:75`) has it
  "degrade to an empty list".

Editor:

- *Summary over edits.* The text composed from what the note held before replaces what was typed or opened while the
  engine worked (`features/listening/listening_state.dart:186`;
  `services/meeting/engine_summary_service.dart:120`: "Preserve the user's existing note").
- *Title sync* reads the open path again after saving (`features/workspace/workspace_shell.dart:257`), and may rename
  a note opened in between to the title of the one before.
- *The rename window.* An autosave between a rename on disk and `handlePathMoved`
  (`features/explorer/explorer_state.dart:354`) writes the old path again. For the same reason a late write can land
  in a path that another note was renamed into: `NotesNeverMix` is checked without renames and summaries.

Session (`features/listening/listening_state.dart`, `features/meetings/meeting_session_manager.dart`):

- *Microphone.* `stop` that overtakes a `start` waiting for permission leaves it on; a quick pause and resume leave
  the capture paused; the late cancellation of a subscription in `stop` takes the next session's.
- *A recorder that throws.* When it does while it is started (`services/audio/meeting_audio_service.dart:134`), the session
  is listening without its transcript (`listening_state.dart:119-120`), and a tracked meeting gets no window
  (`meeting_session_manager.dart:199-202`); while it is paused (line 157), the session counts as paused and goes on
  recording, against `listening_state.dart:13`, "only capture is suspended"; while it is resumed (line 162), the transcript stays paused.
- *Two summaries.* A double tap on Summarise without an open note runs two; the second ends a session begun since,
  against `listening_state.dart:13`, "Stop moves to a Review state that retains the transcript".
- *Tracking after the end.* `_startTracking` goes on after `_finalize`: the window floats, and refreshes, with nothing
  tracked. What is accepted while finalising is undone by it.
- *Tracking in review* has no capture, against `meeting_session_manager.dart:14`.
- *Prompts.* A superseded prompt cannot be accepted any more, and its meeting stays seen; the prompt of a meeting
  that ended is never cleared; a window shown from the settings gets no timer.

Hazards too particular for the list in `PROJECT.json`: two retries of one item from the inbox
(`features/inbox/inbox_state.dart:99`), an answer that arrives when its chat was deleted or its stash switched
(`features/ask/ask_state.dart:233`).

## Not modelled

The ask panel, the explorer's tree, the stash and the file watcher: each awaits one call at a time and shows
what came; what they do to the open note is in `NoteEditor`, the engine's half of a question in `Answering`.
In `NoteEditor`, folders, line endings, and moves that replace a file. Model providers, ffmpeg and the speech
recognisers are external processes, whose failure and whose answers the models allow at every call. Of the
configuration and the rendering what no property is about: addresses, paths, layout. Widgets and
native shells draw. The schema migrations, logging and the pruning of old jobs keep no promise to the user.

## Plan

Done: all modules above, and a theorem for every safety property. Left, in order:

1. The composition of `MeetingSession` with `NoteEditor` through the summary.
2. Folders and moves that replace a file; the ask panel's conversations.
