----------------------------- MODULE Intelligence -----------------------------
(* The engine's intelligence: analyses of meetings and questions to the vault *)
(* run concurrently in one process over one runtime and one result cache, and *)
(* the process may be restarted with another configuration at any time.       *)
EXTENDS Analysis, Answering

CONSTANTS Budgets,        \* bound: how often each thing of Costly may happen, and
                          \* whether the databases may fail
          Transcripts,    \* inputs of the chunking of transcripts
          Documents       \* inputs of the chunking of notes

ASSUME CallersAssumption == Runs \cup Askers \subseteq Callers /\ Runs \cap Askers = {}
ASSUME DocumentsAssumption == \A d \in Documents : d \in Seq(Seq(WordsOf(d)))
ASSUME TranscriptsAssumption == \A t \in Transcripts : IsTranscript(t)

VARIABLE left             \* what is left of the budget

vars == <<llmVars, analysisVars, answeringVars, left>>

Costly == {"analyses", "requests", "edits", "embeddings", "restarts"}
Spend(what) == left[what] > 0 /\ left' = [left EXCEPT ![what] = @ - 1]

Init == /\ LlmInit /\ AnalysisInit /\ AnsweringInit
        /\ left \in Budgets
        /\ faulty \in left.faulty

\* A task is not tied to a slot: it takes a free one.
FreeRuns == {c \in Runs : analysis[c].at \notin Working}
FreeAskers == {c \in Askers : asked[c].at \notin Pending}
Slot(free) == CHOOSE c \in free : TRUE

BeginAnalysis == /\ Spend("analyses")
                 /\ FreeRuns # {}
                 /\ \E m \in Meetings : Analyze(Slot(FreeRuns), m)
                 /\ UNCHANGED answeringVars

BeginRequest ==
  /\ Spend("requests")
  /\ FreeAskers # {}
  /\ \E kind \in {"ask", "search"}, q \in Questions :
       AskVault(Slot(FreeAskers), kind, q)
  /\ UNCHANGED analysisVars

\* The runtime's answer to a caller, be it a run or a question.
Respond(c) == Infer(c) /\ UNCHANGED <<analysisVars, answeringVars, left>>

Analyzing(c) == AnalysisStep(c) /\ UNCHANGED <<answeringVars, left>>
Asking(c) == AskStep(c) /\ UNCHANGED <<analysisVars, left>>

EditNote == /\ Spend("edits")
            /\ \E n \in Notes : Edit(n)
            /\ UNCHANGED analysisVars

EmbedNote == /\ Spend("embeddings")
             /\ \E n \in Notes : Embed(n)
             /\ UNCHANGED analysisVars

RestartEngine == Spend("restarts") /\ Restart /\ AnalysisLost /\ AsksLost

\* A step of a task within the process; the runtime's answer to some caller.
TaskStep == (\E c \in Runs : Analyzing(c)) \/ (\E c \in Askers : Asking(c))
RuntimeStep == \E c \in Callers : Respond(c)

Next == \/ BeginAnalysis \/ BeginRequest \/ EditNote \/ EmbedNote \/ RestartEngine
        \/ TaskStep \/ RuntimeStep

\* When a TaskStep is enabled: somebody works and does not wait for the runtime.
Ready(c) == call[c] = NoCall \/ Received(c)
TaskReady == \/ \E c \in Runs : analysis[c].at \in Working /\ Ready(c)
             \/ \E c \in Askers : asked[c].at \in Pending /\ Ready(c)

\* The executor runs what is ready, which is WF_vars(TaskStep) with its ENABLED
\* spelt out; the runtime answers, since every call has a timeout.  Nothing is
\* assumed of the user, of restarts and of the embedding of notes.
Spec == /\ Init /\ [][Next]_vars
        /\ []<>~TaskReady \/ []<><<TaskStep>>_vars
        /\ WF_vars(RuntimeStep)

------------------------------------------------------------------------------
(* Properties *)

\* preprocess: the chunks hold the cleaned segments that have words, in the order
\* of their starts and for equal starts in that of the recording; each is within
\* the character budget or of one segment, and none could have taken the next
\* one's first segment.
Partitioned(t) ==
  LET prepared == Prepare(t)
      chunks == prepared.chunks
      spoken == {i \in DOMAIN t : ToSet(t[i].text) \ {Gap} # {}}
      Earlier(i, j) == LET x == Cleaned(t[i]).start  y == Cleaned(t[j]).start
                       IN  x < y \/ (x = y /\ i < j)
      order == Ordered(spoken, {p \in spoken \X spoken : Earlier(p[1], p[2])})
      all == FlattenSeq([i \in DOMAIN chunks |-> chunks[i].segments])
  IN  /\ all = prepared.normalized
      /\ all = [k \in DOMAIN order |-> Cleaned(t[order[k]])]
      /\ \A i \in DOMAIN all : 0 <= all[i].start /\ all[i].start <= all[i].end
      /\ \A i \in DOMAIN chunks :
           LET segs == chunks[i].segments
               size == FoldLeft(LAMBDA n, s : n + SegLen(s), 0, segs)
           IN  /\ segs # <<>>
               /\ size <= MaxChars \/ Len(segs) = 1
               /\ i < Len(chunks) =>
                    size + SegLen(chunks[i + 1].segments[1]) > MaxChars

\* The chunking depends on no state: it is checked in the initial ones.
ChunksPartition == left \in Budgets => \A t \in Transcripts : Partitioned(t)

\* search/chunker: every line of a note that is not blank is in the line range of
\* exactly one passage, no passage begins or ends with a blank line, a passage is
\* within the budget or a single paragraph, and none could have taken the first
\* paragraph of the next one.
Covered(d) ==
  LET ranges == ChunkRanges(d)
      Holds(r, i) == r[1] <= i /\ i <= r[2]
  IN  /\ \A i \in DOMAIN d : d[i] # <<>> =>
           Cardinality({k \in DOMAIN ranges : Holds(ranges[k], i)}) = 1
      /\ \A k \in DOMAIN ranges :
           /\ d[ranges[k][1]] # <<>> /\ d[ranges[k][2]] # <<>>
           /\ \/ Chars(d, ranges[k][1], ranges[k][2]) <= NoteChars
              \/ \A i \in ranges[k][1] .. ranges[k][2] : d[i] # <<>>
      /\ \A j, k \in DOMAIN ranges : j < k => ranges[j][2] < ranges[k][1]
      /\ \A k \in DOMAIN ranges : k > 1 =>
           \E last \in ranges[k][1] .. ranges[k][2] :
             /\ \A i \in ranges[k][1] .. last : d[i] # <<>>
             /\ Chars(d, ranges[k - 1][1], last) > NoteChars

PassagesPartition == left \in Budgets => \A d \in Documents : Covered(d)

\* The times of a chunk: its own and those of its segments.
TimesOf(chunk) ==
  {<<chunk.start, chunk.end>>} \cup {<<s.start, s.end>> : s \in ToSet(chunk.segments)}

\* The evidence as the models gave it with their findings.
Told == UNION {AllEvidence(x[2]) :
                 x \in {x \in said : x[1].pass = "extract" /\ x[2] \notin Unparsable}}

\* ai/extraction: the evidence of a run's findings points to the chunk of its own
\* meeting that it was found in, and to times of that chunk, also when the answer
\* came from the cache and was given for another meeting with the same words; if it
\* was not the model that gave the quote a chunk or a time.
EvidenceIsOwn ==
  \A c \in Runs : analysis[c].at = "done" =>
    \A i \in DOMAIN analysis[c].findings :
      LET chunk == Chunks(analysis[c].meeting)[i]
      IN  \A e \in AllEvidence(analysis[c].findings[i]) :
            /\ \/ e.chunk = chunk.id
               \/ \E g \in Told : g.quote = e.quote /\ g.chunk = e.chunk /\ g.chunk # NoChunk
            /\ \/ <<e.start, e.end>> \in TimesOf(chunk)
               \/ \E g \in Told : g.quote = e.quote /\ {g.start, g.end} # {NoTime}

\* ai/synthesis and renderer: an action item of the minutes is given only to an
\* owner that a finding about this very action states or whose name occurs in the
\* transcript, at least inside a word; an item that a finding supports has its
\* evidence from this run's findings and nothing else, and a speaker that such
\* evidence names, unless the model named him, is listed as a participant.
MinutesAreGrounded ==
  \A c \in Runs : analysis[c].at = "done" /\ analysis[c].ir # EmptyIr(Notice) =>
    LET a == analysis[c]
        merged == FromChunks(a.findings)
        minutes == Minutes(a.ir)
        Supported(item, found) ==
          SimilarTo(item, found) # <<>> =>
            \A e \in ToSet(item.evidence) :
              /\ e \in AllEvidence(merged)
              /\ \/ e.speaker \in {NoSpeaker} \cup minutes.people
                 \/ \E g \in Told : g.quote = e.quote /\ g.speaker = e.speaker
    IN  /\ \A row \in minutes.actions :
             \/ row[2] = NoOwner
             \/ Occurs(row[2], Segs(a.meeting))
             \/ \E f \in ToSet(merged.actions) :
                  f.owner = row[2] /\ Similar(row[1], f.text)
        /\ \A item \in ToSet(a.ir.claims) : Supported(item, merged.claims)
        /\ \A item \in ToSet(a.ir.actions) : Supported(item, merged.actions)

AnsweredOnce == \A x, y \in said : x[1] = y[1] => x = y

\* llm/cache: an analysis of a meeting that was analysed with success before, by
\* the same configuration, does not ask the runtime and ends with the same IR --
\* after a restart too, and whatever ran in between, provided that the cache's
\* database works and that no two concurrent misses got different answers.
RepeatIsFree ==
  \A c \in Runs :
    /\ analysis[c].at \in Working \cup {"done", "failed"}
    /\ analysis[c].again # {} /\ ~faulty /\ AnsweredOnce
    => /\ call[c] = NoCall \/ call[c].at = "done"
       /\ analysis[c].at # "failed"
       /\ analysis[c].at = "done" => analysis[c].ir \in analysis[c].again

Finished == {c \in Askers : asked[c].at = "done"}

\* search: when the embedded notes are the indexed ones, every passage that is
\* cited was on the disk at some time since the question was asked, also when
\* the note is edited while the question is being answered.
CitationsAreCurrent ==
  \A c \in Finished :
    LET a == asked[c]
        Current(n) == a.index.vectors[n] # NoVectors =>
                        a.index.vectors[n].lines = a.index.rows[n]
    IN  ~faulty /\ (\A n \in Notes : Current(n)) =>
          \A p \in ToSet(a.citations) :
            \E s \in a.seen : s[1] = p.path /\ p \in ToSet(PassagesOf(p.path, s[2]))

\* search: a passage is cited once, and only if a word of its body or its title
\* begins with a term of the question, or if its stored vector has as many
\* components as the question's and is like it; where the two rankings know a
\* place by different text, the indexed one is cited.
CitationsAreRelevant ==
  \A c \in Finished :
    LET a == asked[c]
        Hit(p) == \E t \in FtsTokens(a.question) : Finds(t, p)
        Near(p) ==
          LET stored == a.index.vectors[p.path]
          IN  /\ stored # NoVectors
              /\ Dimension(stored.model) = Dimension(a.index.model)
              /\ Related(VectorOf(a.index.model, <<a.question>>),
                         VectorOf(stored.model, p.body)) > 0
    IN  /\ \A i, j \in DOMAIN a.citations :
             KeyOf(a.citations[i]) = KeyOf(a.citations[j]) => i = j
        /\ \A p \in ToSet(a.citations) :
             \/ Hit(p) /\ p \in ToSet(PassagesOf(p.path, a.index.rows[p.path]))
             \/ /\ Near(p)
                /\ \A q \in ToSet(PassagesOf(p.path, a.index.rows[p.path])) :
                     q # p /\ KeyOf(q) = KeyOf(p) /\ Hit(q) =>
                       Len(a.citations) = (IF a.kind = "ask" THEN TopK ELSE SearchLimit)

\* llm/: to its callers the provider with the cache is one that answers every
\* request with a text a runtime produced for exactly that request and model.
ImplementsService == Service!Spec

\* Every analysis and every question comes to an end: a text that does not parse
\* is repaired once, and a runtime that fails ends the run or is done without.
TasksEnd ==
  /\ \A c \in Runs : analysis[c].at \in Working ~> analysis[c].at \notin Working
  /\ \A c \in Askers : asked[c].at \in Pending ~> asked[c].at \notin Pending
==============================================================================
