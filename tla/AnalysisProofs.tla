---------------------------- MODULE AnalysisProofs ----------------------------
(***************************************************************************)
(* Proofs about the result cache and the analyses of meetings that use it, *)
(* for every set of callers, runs, meetings, transcripts, questions,       *)
(* environments and texts, any number of edits and restarts, and every     *)
(* interleaving: to its callers the provider with the cache is the plain   *)
(* service of LlmService; the evidence of a run's findings is that of its  *)
(* own meeting; the analysis of a meeting that was analysed before is      *)
(* served from the cache, with the same result; the minutes are grounded   *)
(* in the findings and the transcript; and the chunks of a transcript are  *)
(* the whole of it, cut as the budget wants it.                            *)
(***************************************************************************)
EXTENDS Intelligence, FoldProofs


-----------------------------------------------------------------------------
(* What the steps of the engine do to the provider *)

\* A caller has its reply and goes on.
Taken(c) == Received(c) /\ Drop(c) /\ UNCHANGED <<config, cache, said, faulty>>

LlmNext == \/ \E c \in Callers : (\E req : Lookup(c, req)) \/ Infer(c) \/ Taken(c)
           \/ Restart
           \/ UNCHANGED llmVars

\* Analyses and questions touch the provider only by looking a request up, by
\* taking a reply, by the runtime's answer and by a restart.
LEMMA StepsOfTheProvider == [Next]_vars => LlmNext
<1> USE CallersAssumption
<1>1. ASSUME NEW c \in Runs, Analyzing(c) PROVE LlmNext
  <2>1. CASE Generate(c)
    BY <2>1 DEF Generate, LlmNext
  <2>2. CASE GenerateFails(c) \/ Repair(c) \/ Extracted(c) \/ Synthesized(c)
    <3>1. Taken(c)
      BY <2>2 DEF GenerateFails, Repair, Extracted, Synthesized, Taken
    <3>2. QED
      BY <3>1 DEF LlmNext
  <2>3. QED
    BY <1>1, <2>1, <2>2 DEF Analyzing, AnalysisStep
<1>2. ASSUME NEW c \in Askers, Asking(c) PROVE LlmNext
  <2>1. CASE Retrieve(c)
    BY <2>1 DEF Retrieve, LlmNext
  <2>2. CASE AskModel(c)
    BY <2>2 DEF AskModel, LlmNext
  <2>3. CASE ReceiveAnswer(c)
    BY <2>3 DEF ReceiveAnswer, LlmNext, Taken
  <2>4. QED
    BY <1>2, <2>1, <2>2, <2>3 DEF Asking, AskStep
<1>3. CASE RuntimeStep
  BY <1>3 DEF RuntimeStep, Respond, LlmNext
<1>4. CASE RestartEngine
  BY <1>4 DEF RestartEngine, LlmNext
<1>5. CASE BeginAnalysis
  BY <1>5 DEF BeginAnalysis, Analyze, LlmNext
<1>6. CASE BeginRequest
  BY <1>6 DEF BeginRequest, AskVault, LlmNext
<1>7. CASE EditNote \/ EmbedNote
  BY <1>7 DEF EditNote, EmbedNote, Edit, Embed, LlmNext
<1>8. CASE UNCHANGED vars
  BY <1>8 DEF vars, LlmNext
<1>9. QED
  BY <1>1, <1>2, <1>3, <1>4, <1>5, <1>6, <1>7, <1>8 DEF Next, TaskStep

-----------------------------------------------------------------------------
(* The inductive invariant *)

\* Whatever is asked, a runtime answers with a text, and a call is no NoCall.
RuntimeAssumption ==
  /\ \A req : Replies(req) \subseteq Texts
  /\ \A req, reply : NoCall \notin {Service!Waiting(req), Service!Returned(req, reply)}

\* Every row of the cache is an answer that a runtime gave to the very request
\* that the row's key stands for.
RowsWereSaid == \A k \in DOMAIN cache : cache[k] \in Texts /\ <<k, cache[k]>> \in said

CallsByCaller == call = [c \in Callers |-> call[c]]

LlmInv == RowsWereSaid /\ CallsByCaller

\* The key holds the model by which the request is served: both resolve a model
\* that is not named against the default of the selected runtime.
LEMMA KeyHoldsModel ==
  ASSUME NEW req
  PROVE  CacheKey(req) = Service!Served(req) /\ Served(req) = Service!Served(req)
<1>1. CASE config.provider = "mlx"
  BY <1>1 DEF CacheKey, Served, MlxServes, Service!Served, OrElse, ActiveModel,
              Service!OrElse, Service!ActiveModel
<1>2. CASE config.provider # "mlx"
  BY <1>2 DEF CacheKey, Served, OllamaServes, Service!Served, OrElse, ActiveModel,
              Service!OrElse, Service!ActiveModel
<1>3. QED
  BY <1>1, <1>2

\* What a runtime answers, if not an error, is a text.
LEMMA AnswersAreTexts ==
  ASSUME RuntimeAssumption, NEW req, NEW reply \in Generated(req), reply # LlmError
  PROVE  reply \in Texts
BY BlankAssumption DEF RuntimeAssumption, Generated, MlxGenerate, OllamaGenerate

LEMMA InvInit == Init => LlmInv
BY DEF Init, LlmInit, LlmInv, RowsWereSaid, CallsByCaller, NoRows

\* A row that is written carries the answer of this very moment.
LEMMA RowWritten ==
  ASSUME RowsWereSaid, NEW k, NEW t \in Texts,
         said' = said \cup {<<k, t>>}, cache' = Put(cache, k, t)
  PROVE  RowsWereSaid'
<1>1. SUFFICES ASSUME NEW q \in DOMAIN cache'
               PROVE  cache'[q] \in Texts /\ <<q, cache'[q]>> \in said'
  BY DEF RowsWereSaid
<1>2. /\ q \in {k} \cup DOMAIN cache
      /\ cache'[q] = IF q = k THEN t ELSE cache[q]
  BY <1>1 DEF Put
<1>3. QED
  BY <1>2 DEF RowsWereSaid

LEMMA InvStep ==
  ASSUME RuntimeAssumption, LlmInv, LlmNext
  PROVE  LlmInv'
<1> USE DEF LlmInv
<1>1. ASSUME NEW c \in Callers, (\E req : Lookup(c, req)) \/ Taken(c)
      PROVE  LlmInv'
  <2>1. UNCHANGED <<cache, said>>
    BY <1>1 DEF Lookup, Taken
  <2>2. CallsByCaller'
    BY <1>1 DEF Lookup, Taken, Drop, CallsByCaller
  <2>3. QED
    BY <2>1, <2>2 DEF RowsWereSaid
<1>2. ASSUME NEW c \in Callers, Infer(c)
      PROVE  LlmInv'
  <2> DEFINE req == call[c].req
  <2>1. PICK reply \in Generated(req) :
           /\ call' = [call EXCEPT ![c] = [at |-> "done", req |-> req, reply |-> reply]]
           /\ IF reply = LlmError THEN UNCHANGED <<cache, said>>
              ELSE /\ said' = said \cup {<<Served(req), reply>>}
                   /\ \/ cache' = Put(cache, CacheKey(req), reply)
                      \/ UNCHANGED cache
    BY <1>2 DEF Infer
  <2>2. CallsByCaller'
    BY <2>1 DEF CallsByCaller
  <2>3. CASE UNCHANGED cache
    BY <2>1, <2>2, <2>3 DEF RowsWereSaid
  <2>4. CASE /\ reply # LlmError
             /\ said' = said \cup {<<Served(req), reply>>}
             /\ cache' = Put(cache, CacheKey(req), reply)
    <3>1. reply \in Texts
      BY <2>1, <2>4, AnswersAreTexts
    <3>2. CacheKey(req) = Served(req)
      BY KeyHoldsModel
    <3>3. RowsWereSaid'
      BY <2>4, <3>1, <3>2, RowWritten
    <3>4. QED
      BY <2>2, <3>3
  <2>5. QED
    BY <2>1, <2>3, <2>4
<1>3. CASE Restart
  BY <1>3 DEF Restart, RowsWereSaid, CallsByCaller
<1>4. CASE UNCHANGED llmVars
  BY <1>4 DEF llmVars, RowsWereSaid, CallsByCaller
<1>5. QED
  BY <1>1, <1>2, <1>3, <1>4 DEF LlmNext

-----------------------------------------------------------------------------
(* The refinement *)

LEMMA SameConfiguration == ASSUME NEW env PROVE FromEnv(env) = Service!FromEnv(env)
BY DEF FromEnv, Provider, Spellings, OrElse, Service!FromEnv, Service!Provider,
       Service!Spellings, Service!OrElse

LEMMA StartsAsService == Init => Service!Init
BY SameConfiguration DEF Init, LlmInit, Service!Init

\* A miss is a wait for the runtime, a hit an answer that was given before.
LEMMA LookupIsAsk ==
  ASSUME RuntimeAssumption, LlmInv, NEW c \in Callers, NEW req, Lookup(c, req)
  PROVE  Service!Ask(c)
<1>1. c \in DOMAIN call
  BY DEF LlmInv, CallsByCaller
<1>2. CASE call' = [call EXCEPT ![c] = [at |-> "infer", req |-> req]]
  <2>1. call'[c] = Service!Waiting(req) /\ call'[c].req = req
    BY <1>1, <1>2 DEF Service!Waiting
  <2>2. call'[c] # NoCall
    BY <2>1 DEF RuntimeAssumption
  <2>3. QED
    BY <1>2, <2>1, <2>2 DEF Lookup, Service!Ask, Service!Waiting
<1>3. CASE /\ CacheKey(req) \in DOMAIN cache
           /\ call' = [call EXCEPT ![c] = [at |-> "done", req |-> req,
                                           reply |-> cache[CacheKey(req)]]]
  <2> DEFINE t == cache[CacheKey(req)]
  <2>1. t \in Texts /\ <<Service!Served(req), t>> \in said
    BY <1>3, KeyHoldsModel DEF LlmInv, RowsWereSaid
  <2>2. call'[c] = Service!Returned(req, t) /\ call'[c].req = req
    BY <1>1, <1>3 DEF Service!Returned
  <2>3. call'[c] # NoCall
    BY <2>2 DEF RuntimeAssumption
  <2>4. QED
    BY <1>3, <2>1, <2>2, <2>3 DEF Lookup, Service!Ask, Service!Returned
<1>4. QED
  BY <1>2, <1>3 DEF Lookup

LEMMA InferIsAnswer ==
  ASSUME RuntimeAssumption, NEW c \in Callers, Infer(c)
  PROVE  Service!Answer(c)
<1> DEFINE req == call[c].req
<1>1. PICK reply \in Generated(req) :
         /\ call' = [call EXCEPT ![c] = [at |-> "done", req |-> req, reply |-> reply]]
         /\ IF reply = LlmError THEN UNCHANGED said
            ELSE said' = said \cup {<<Served(req), reply>>}
  BY DEF Infer
<1>2. call' = [call EXCEPT ![c] = Service!Returned(@.req, reply)]
  BY <1>1 DEF Service!Returned
<1>3. CASE reply = LlmError
  BY <1>1, <1>2, <1>3 DEF Infer, Service!Answer
<1>4. CASE reply # LlmError
  <2>1. reply \in Texts
    BY <1>4, AnswersAreTexts
  <2>2. said' = said \cup {<<Service!Served(req), reply>>}
    BY <1>1, <1>4, KeyHoldsModel
  <2>3. QED
    BY <1>2, <2>1, <2>2 DEF Infer, Service!Answer
<1>5. QED
  BY <1>3, <1>4

LEMMA ServiceStep ==
  ASSUME RuntimeAssumption, LlmInv, LlmNext
  PROVE  [Service!Next]_(Service!vars)
<1>1. ASSUME NEW c \in Callers, NEW req, Lookup(c, req) PROVE Service!Next
  BY <1>1, LookupIsAsk DEF Service!Next
<1>2. ASSUME NEW c \in Callers, Infer(c) PROVE Service!Next
  BY <1>2, InferIsAnswer DEF Service!Next
<1>3. ASSUME NEW c \in Callers, Taken(c) PROVE Service!Next
  BY <1>3 DEF Taken, Received, Drop, Service!Take, Service!Next
<1>4. CASE Restart
  BY <1>4, SameConfiguration DEF Restart, Service!Restart, Service!Next
<1>5. CASE UNCHANGED llmVars
  BY <1>5 DEF llmVars, Service!vars
<1>6. QED
  BY <1>1, <1>2, <1>3, <1>4, <1>5 DEF LlmNext

\* llm/cache: every row of the cache is, at all times and across restarts with
\* other models, an answer given to the very request its key stands for.
THEOREM CacheIsSound == ASSUME RuntimeAssumption PROVE Spec => []RowsWereSaid
<1>1. LlmInv /\ [Next]_vars => LlmInv'
  BY StepsOfTheProvider, InvStep
<1>2. LlmInv => RowsWereSaid
  BY DEF LlmInv
<1>3. QED
  BY <1>1, <1>2, InvInit, PTL DEF Spec

\* llm/: the provider with the cache implements the plain one, for all the
\* analyses, questions and restarts that may go on at once.
THEOREM CacheIsTransparent == ASSUME RuntimeAssumption PROVE Spec => ImplementsService
<1>1. LlmInv /\ [Next]_vars => LlmInv'
  BY StepsOfTheProvider, InvStep
<1>2. LlmInv /\ [Next]_vars => [Service!Next]_(Service!vars)
  BY StepsOfTheProvider, ServiceStep
<1>3. QED
  BY <1>1, <1>2, InvInit, StartsAsService, PTL DEF Spec, ImplementsService, Service!Spec


-----------------------------------------------------------------------------
(* A run and its requests, as functions of the configuration and transcripts *)

ChunksOf(rw, m) == PreparedOf[rw[m]].chunks
SegsOf(rw, m) == PreparedOf[rw[m]].normalized

\* What the run asks for next, with or without the reminder.
Asked(cfg, rw, a, reminded) ==
  LET chunk == ChunksOf(rw, a.meeting)[Len(a.findings) + 1]
  IN  IF a.at = "extract"
      THEN [pass |-> "extract", model |-> cfg.extraction, title |-> TitleOf[a.meeting],
            id |-> chunk.id, prompt |-> PromptText(chunk), reminded |-> reminded]
      ELSE [pass |-> "synthesize", model |-> cfg.synthesis, title |-> TitleOf[a.meeting],
            findings |-> FromChunks(a.findings), reminded |-> reminded]

\* The key of a request; it is the request that is served, too.
KeyIn(cfg, req) == [req EXCEPT !.model = OrElse(@, ActiveModel(cfg))]

IsRun(a) ==
  /\ a = [at |-> a.at, meeting |-> a.meeting, findings |-> a.findings,
          reminded |-> a.reminded, ir |-> a.ir, again |-> a.again]
  /\ a.at \in Working \cup {"done", "failed"}
  /\ a.reminded \in BOOLEAN
  /\ IsSeq(a.findings)

LEMMA RequestIsAsked == ASSUME NEW a PROVE Request(a) = Asked(config, raw, a, a.reminded)
BY DEF Request, ExtractionRequest, SynthesisRequest, Asked, Chunk, Chunks, ChunksOf

LEMMA KeysAreServed ==
  ASSUME NEW req
  PROVE  CacheKey(req) = KeyIn(config, req) /\ Served(req) = KeyIn(config, req)
BY KeyHoldsModel DEF CacheKey, KeyIn

-----------------------------------------------------------------------------
(* What a run knows: an inductive invariant *)

\* The findings are what a runtime told of such a chunk, stamped with this one.
Heard(sd, f, chunk) ==
  \E x \in sd : /\ x[1].pass = "extract" /\ x[2] \notin Unparsable
                /\ f = StampProvenance(x[2], chunk)

\* Run a, whose call is w: it asks for what it is at, and a reply was said.
Asks(cfg, rw, sd, a, w) ==
  w # NoCall => /\ a.at \in Working
                /\ w.req = Asked(cfg, rw, a, a.reminded)
                /\ w.at = "done" /\ w.reply # LlmError =>
                     <<KeyIn(cfg, w.req), w.reply>> \in sd

\* The findings so far are of the chunks of the meeting, in their order.
Hears(rw, sd, a) ==
  a.at # "idle" => \A i \in 1 .. Len(a.findings) :
                      Heard(sd, a.findings[i], ChunksOf(rw, a.meeting)[i])

RunOk(cfg, rw, sd, a, w) ==
  /\ a = NoRun \/ IsRun(a)
  /\ Asks(cfg, rw, sd, a, w)
  /\ Hears(rw, sd, a)

RunsByName == analysis = [c \in Runs |-> analysis[c]]
RunsOk == \A c \in Runs : RunOk(config, raw, said, analysis[c], call[c])
NoErrorKept == \A k \in DOMAIN cache : cache[k] # LlmError
SaidByRuntimes == \A x \in said : x[2] \in {Blank} \cup Replies(x[1])

AnalysisInv == LlmInv /\ RunsByName /\ RunsOk /\ NoErrorKept /\ SaidByRuntimes

LEMMA AnalysisInvInit == Init => AnalysisInv
<1> SUFFICES ASSUME Init PROVE AnalysisInv
  OBVIOUS
<1>1. /\ RunsByName
      /\ \A c \in Runs : analysis[c] = NoRun /\ call[c] = NoCall
  BY CallersAssumption DEF Init, AnalysisInit, LlmInit, RunsByName
<1>2. RunsOk
  BY <1>1 DEF RunsOk, RunOk, Asks, Hears, NoRun
<1>3. NoErrorKept /\ SaidByRuntimes
  BY DEF Init, LlmInit, NoRows, NoErrorKept, SaidByRuntimes
<1>4. QED
  BY <1>1, <1>2, <1>3, InvInit DEF AnalysisInv

-----------------------------------------------------------------------------
(* What a step does to a run *)

\* The step is one of another caller, or of a note.
Aside(c) == analysis'[c] = analysis[c] /\ call'[c] = call[c]

Moves(c) == \/ \E m \in Meetings : Analyze(c, m)
            \/ AnalysisStep(c)
            \/ Infer(c) /\ UNCHANGED <<analysis, kept>>

\* Every step but a restart concerns at most one run, be it as the caller that the
\* runtime answers; the others go on with what they had.
LEMMA StepsOfARun ==
  ASSUME RunsByName, CallsByCaller, [Next]_vars, NEW c \in Runs
  PROVE  /\ raw' = raw
         /\ \/ Restart /\ AnalysisLost
            \/ config' = config /\ (Aside(c) \/ Moves(c))
<1> USE CallersAssumption DEF RunsByName, CallsByCaller
<1>1. CASE BeginAnalysis
  <2>1. PICK m \in Meetings : Analyze(Slot(FreeRuns), m)
    BY <1>1 DEF BeginAnalysis
  <2>2. CASE c = Slot(FreeRuns)
    BY <2>1, <2>2 DEF Moves, Analyze, llmVars
  <2>3. CASE c # Slot(FreeRuns)
    BY <2>1, <2>3 DEF Aside, Analyze, llmVars
  <2>4. QED
    BY <2>2, <2>3
<1>2. ASSUME NEW d \in Runs, Analyzing(d)
      PROVE  raw' = raw /\ config' = config /\ (Aside(c) \/ Moves(c))
  <2>1. AnalysisStep(d)
    BY <1>2 DEF Analyzing
  <2>2. /\ raw' = raw /\ config' = config
        /\ d # c => call'[c] = call[c] /\ analysis'[c] = analysis[c]
    <3>1. CASE Generate(d)
      BY <3>1 DEF Generate, Lookup, analysisVars
    <3>2. CASE GenerateFails(d)
      BY <3>2 DEF GenerateFails, Drop, Become
    <3>3. CASE Repair(d)
      BY <3>3 DEF Repair, Drop, Become
    <3>4. CASE Extracted(d)
      BY <3>4 DEF Extracted, Drop, Become
    <3>5. CASE Synthesized(d)
      BY <3>5 DEF Synthesized, Drop, Become
    <3>6. QED
      BY <2>1, <3>1, <3>2, <3>3, <3>4, <3>5 DEF AnalysisStep
  <2>3. QED
    BY <2>1, <2>2 DEF Aside, Moves
<1>3. ASSUME NEW d \in Askers, Asking(d)
      PROVE  raw' = raw /\ config' = config /\ Aside(c)
  <2>1. analysis' = analysis /\ raw' = raw
    BY <1>3 DEF Asking, analysisVars
  <2>2. config' = config /\ call'[c] = call[c]
    <3>1. d # c
      OBVIOUS
    <3>2. CASE Retrieve(d)
      BY <3>1, <3>2 DEF Retrieve, llmVars
    <3>3. CASE AskModel(d)
      BY <3>1, <3>3 DEF AskModel, Lookup
    <3>4. CASE ReceiveAnswer(d)
      BY <3>1, <3>4 DEF ReceiveAnswer, Drop
    <3>5. QED
      BY <1>3, <3>2, <3>3, <3>4 DEF Asking, AskStep
  <2>3. QED
    BY <2>1, <2>2 DEF Aside
<1>4. ASSUME NEW d \in Callers, Respond(d)
      PROVE  raw' = raw /\ config' = config /\ (Aside(c) \/ Moves(c))
  <2>1. UNCHANGED <<raw, analysis, kept>> /\ Infer(d)
    BY <1>4 DEF Respond, analysisVars
  <2>2. config' = config /\ (d # c => call'[c] = call[c])
    BY <2>1 DEF Infer
  <2>3. QED
    BY <2>1, <2>2 DEF Aside, Moves
<1>5. CASE RestartEngine
  BY <1>5 DEF RestartEngine, AnalysisLost
<1>6. CASE BeginRequest
  BY <1>6 DEF BeginRequest, AskVault, analysisVars, llmVars, Aside
<1>7. CASE EditNote \/ EmbedNote
  BY <1>7 DEF EditNote, EmbedNote, Edit, Embed, analysisVars, llmVars, Aside
<1>8. CASE UNCHANGED vars
  BY <1>8 DEF vars, analysisVars, llmVars, Aside
<1>9. QED
  BY <1>1, <1>2, <1>3, <1>4, <1>5, <1>6, <1>7, <1>8 DEF Next, TaskStep, RuntimeStep

-----------------------------------------------------------------------------
(* The invariant is kept *)

LEMMA RunsByNameKept == RunsByName /\ [Next]_vars => RunsByName'
<1> SUFFICES ASSUME RunsByName, [Next]_vars PROVE RunsByName'
  OBVIOUS
<1> USE DEF RunsByName
<1>1. ASSUME NEW d, NEW m, Analyze(d, m) PROVE RunsByName'
  BY <1>1 DEF Analyze
<1>2. ASSUME NEW d, AnalysisStep(d) PROVE RunsByName'
  BY <1>2 DEF AnalysisStep, Generate, GenerateFails, Repair, Extracted, Synthesized,
              Become, analysisVars
<1>3. CASE UNCHANGED analysis
  BY <1>3
<1>4. CASE AnalysisLost
  BY <1>4 DEF AnalysisLost
<1>5. QED
  BY <1>1, <1>2, <1>3, <1>4
     DEF Next, BeginAnalysis, BeginRequest, EditNote, EmbedNote, RestartEngine, TaskStep,
         RuntimeStep, Analyzing, Asking, Respond, analysisVars, vars

\* What was said stays said; a row that is written is neither an error nor made up.
LEMMA ProviderKept ==
  ASSUME LlmNext, NoErrorKept, SaidByRuntimes
  PROVE  /\ said \subseteq said' /\ faulty' = faulty
         /\ NoErrorKept' /\ SaidByRuntimes'
<1>1. ASSUME UNCHANGED <<cache, said, faulty>>
      PROVE  said \subseteq said' /\ faulty' = faulty /\ NoErrorKept' /\ SaidByRuntimes'
  BY <1>1 DEF NoErrorKept, SaidByRuntimes
<1>2. ASSUME NEW c \in Callers, Infer(c)
      PROVE  said \subseteq said' /\ faulty' = faulty /\ NoErrorKept' /\ SaidByRuntimes'
  <2> DEFINE req == call[c].req
  <2>1. PICK reply \in Generated(req) :
           IF reply = LlmError THEN UNCHANGED <<cache, said>>
           ELSE /\ said' = said \cup {<<Served(req), reply>>}
                /\ cache' = Put(cache, CacheKey(req), reply) \/ UNCHANGED cache
    BY <1>2 DEF Infer
  <2>2. faulty' = faulty
    BY <1>2 DEF Infer
  <2>3. CASE reply = LlmError
    BY <2>1, <2>2, <2>3, <1>1
  <2>4. CASE reply # LlmError
    <3>1. reply \in {Blank} \cup Replies(Served(req))
      BY <2>1, <2>4 DEF Generated, MlxGenerate, OllamaGenerate, Served
    <3>2. SaidByRuntimes'
      <4>1. said' = said \cup {<<Served(req), reply>>}
        BY <2>1, <2>4
      <4>2. QED
        BY <4>1, <3>1 DEF SaidByRuntimes
    <3>3. ASSUME NEW key, cache' = Put(cache, key, reply) PROVE NoErrorKept'
      BY <2>4, <3>3 DEF NoErrorKept, Put
    <3>4. NoErrorKept'
      <4>1. CASE cache' = Put(cache, CacheKey(req), reply)
        BY <4>1, <3>3
      <4>2. CASE UNCHANGED cache
        BY <4>2 DEF NoErrorKept
      <4>3. QED
        BY <2>1, <2>4, <4>1, <4>2
    <3>5. said \subseteq said'
      BY <2>1, <2>4
    <3>6. QED
      BY <2>2, <3>2, <3>4, <3>5
  <2>5. QED
    BY <2>3, <2>4
<1>3. ASSUME NEW c \in Callers, (\E req : Lookup(c, req)) \/ Taken(c)
      PROVE  UNCHANGED <<cache, said, faulty>>
  BY <1>3 DEF Lookup, Taken
<1>4. Restart \/ UNCHANGED llmVars => UNCHANGED <<cache, said, faulty>>
  BY DEF Restart, llmVars
<1>5. QED
  BY <1>1, <1>2, <1>3, <1>4 DEF LlmNext

\* A run that takes its reply, and what it makes of it.
LEMMA RunHasReply ==
  ASSUME NEW c \in Runs, RunOk(config, raw, said, analysis[c], call[c]), Received(c)
  PROVE  /\ IsRun(analysis[c]) /\ analysis[c].at \in Working
         /\ call[c].req = Asked(config, raw, analysis[c], analysis[c].reminded)
         /\ call[c].reply # LlmError =>
              <<KeyIn(config, call[c].req), call[c].reply>> \in said
BY DEF RunOk, Asks, Received, NoRun, Working

LEMMA StaysOk ==
  ASSUME NEW cfg, NEW rw, NEW sd, NEW sd2, NEW a, NEW w,
         RunOk(cfg, rw, sd, a, w), sd \subseteq sd2
  PROVE  RunOk(cfg, rw, sd2, a, w)
<1>1. ASSUME NEW f, NEW chunk, Heard(sd, f, chunk) PROVE Heard(sd2, f, chunk)
  BY <1>1 DEF Heard
<1>2. QED
  BY <1>1 DEF RunOk, Asks, Hears

\* Without a call in progress nothing is asserted of one.
LEMMA DroppedOk ==
  ASSUME NEW cfg, NEW rw, NEW sd, NEW a, NEW w,
         IsRun(a), Hears(rw, sd, a), w = NoCall
  PROVE  RunOk(cfg, rw, sd, a, w)
BY DEF RunOk, Asks

\* An answer from the cache was said: its row was.
LEMMA LookedUpOk ==
  ASSUME RowsWereSaid, RuntimeAssumption, CallsByCaller, NEW c \in Runs, Generate(c),
         RunOk(config, raw, said, analysis[c], call[c])
  PROVE  RunOk(config, raw, said, analysis[c], call'[c])
<1> DEFINE a == analysis[c]
           w == call'[c]
           req == Asked(config, raw, a, a.reminded)
<1>1. Lookup(c, req) /\ a.at \in Working
  BY RequestIsAsked DEF Generate
<1>2. c \in DOMAIN call
  BY CallersAssumption DEF CallsByCaller
<1>3. w.req = req /\ (w.at = "done" => w.reply = cache[CacheKey(req)]
                                       /\ CacheKey(req) \in DOMAIN cache)
  BY <1>1, <1>2 DEF Lookup
<1>4. w.at = "done" => <<KeyIn(config, w.req), w.reply>> \in said
  BY <1>3, KeysAreServed DEF RowsWereSaid
<1>5. QED
  BY <1>1, <1>3, <1>4 DEF RunOk, Asks

\* The answer of the runtime.
LEMMA AnsweredOk ==
  ASSUME CallsByCaller, NEW c \in Runs, Infer(c),
         RunOk(config, raw, said, analysis[c], call[c])
  PROVE  RunOk(config, raw, said', analysis[c], call'[c])
<1> DEFINE a == analysis[c]
           w == call[c]
<1>1. c \in DOMAIN call
  BY CallersAssumption DEF CallsByCaller
<1>2. PICK reply \in Generated(w.req) :
         /\ call'[c] = [at |-> "done", req |-> w.req, reply |-> reply]
         /\ IF reply = LlmError THEN said' = said
            ELSE said' = said \cup {<<Served(w.req), reply>>}
  BY <1>1 DEF Infer
<1>3. said \subseteq said' /\ w # NoCall
  BY <1>2 DEF Infer
<1>4. reply # LlmError => <<KeyIn(config, w.req), reply>> \in said'
  BY <1>2, KeysAreServed
<1>5. RunOk(config, raw, said', a, w)
  BY <1>3, StaysOk
<1>6. Asks(config, raw, said', a, call'[c])
  BY <1>2, <1>3, <1>4, <1>5 DEF RunOk, Asks
<1>7. QED
  BY <1>5, <1>6 DEF RunOk

\* A run that begins has heard nothing and asked nothing.
LEMMA BegunOk ==
  ASSUME RunsByName, NEW c \in Runs, NEW m \in Meetings, Analyze(c, m),
         RunOk(config, raw, said, analysis[c], call[c])
  PROVE  /\ RunOk(config, raw, said, analysis'[c], call'[c])
         /\ call[c] = NoCall
<1>1. call[c] = NoCall /\ call' = call
  BY DEF RunOk, Asks, Analyze, llmVars
<1>2. \E at \in {"done", "extract"} : \E ir, again :
         analysis'[c] = [at |-> at, meeting |-> m, findings |-> <<>>,
                         reminded |-> FALSE, ir |-> ir, again |-> again]
  <2> DEFINE empty == Chunks(m) = <<>>
             old == {k[3] : k \in {k \in kept : k[1] = m /\ k[2] = config}}
  <2>1. analysis'[c] = [at |-> IF empty THEN "done" ELSE "extract", meeting |-> m,
                        findings |-> <<>>, reminded |-> FALSE,
                        ir |-> IF empty THEN EmptyIr(Notice) ELSE NoIr, again |-> old]
    BY DEF Analyze, RunsByName
  <2> HIDE DEF empty, old
  <2>2. (IF empty THEN "done" ELSE "extract") \in {"done", "extract"}
    OBVIOUS
  <2>3. QED
    BY <2>1, <2>2
<1>3. IsRun(analysis'[c])
  BY <1>2, EmptyIsSeq DEF IsRun, Working
<1>4. Hears(raw, said, analysis'[c])
  BY <1>2, EmptyIsSeq DEF Hears
<1>5. QED
  BY <1>1, <1>3, <1>4, DroppedOk

\* A run that fails or asks again keeps what it has heard.
LEMMA RefusedOk ==
  ASSUME RunsByName, CallsByCaller, NEW c \in Runs, GenerateFails(c) \/ Repair(c),
         RunOk(config, raw, said, analysis[c], call[c])
  PROVE  RunOk(config, raw, said, analysis'[c], call'[c])
<1> DEFINE a == analysis[c]
<1>1. IsRun(a) /\ Hears(raw, said, a) /\ a.at \in Working
  BY RunHasReply DEF GenerateFails, Repair, RunOk
<1>2. call'[c] = NoCall
  BY CallersAssumption DEF GenerateFails, Repair, Drop, CallsByCaller
<1>3. \/ analysis'[c] = [a EXCEPT !.at = "failed"]
      \/ analysis'[c] = [a EXCEPT !.reminded = TRUE]
  BY DEF GenerateFails, Repair, Become, RunsByName
<1> DEFINE b == analysis'[c]
<1> HIDE DEF a, b
<1>4. /\ b.findings = a.findings /\ b.meeting = a.meeting /\ IsRun(b)
  BY <1>1, <1>3 DEF b, IsRun, Working
<1>5. Hears(raw, said, b)
  BY <1>1, <1>4 DEF Hears, Working
<1>6. QED
  BY <1>2, <1>4, <1>5, DroppedOk DEF b

\* The findings that are added are stamped with the chunk that was asked about.
LEMMA ExtractedOk ==
  ASSUME RunsByName, CallsByCaller, NEW c \in Runs, Extracted(c),
         RunOk(config, raw, said, analysis[c], call[c])
  PROVE  RunOk(config, raw, said, analysis'[c], call'[c])
<1> DEFINE a == analysis[c]
           w == call[c]
           n == Len(a.findings)
           chunk == ChunksOf(raw, a.meeting)[n + 1]
           fs == Append(a.findings, StampProvenance(w.reply, chunk))
           x == <<KeyIn(config, w.req), w.reply>>
<1>1. /\ IsRun(a) /\ Hears(raw, said, a)
      /\ w.req = Asked(config, raw, a, a.reminded)
      /\ w.reply # LlmError => x \in said
  BY RunHasReply DEF Extracted, RunOk
<1>2. a.at = "extract" /\ w.reply \notin Unparsable /\ w.reply # LlmError
  BY DEF Extracted
<1>3. call'[c] = NoCall
  BY CallersAssumption DEF Extracted, Drop, CallsByCaller
<1>4. PICK at \in Working :
         analysis'[c] = [a EXCEPT !.findings = fs, !.reminded = FALSE, !.at = at]
  BY DEF Extracted, Become, RunsByName, Working, Chunk, Chunks, ChunksOf
<1>5. /\ IsSeq(fs) /\ Len(fs) = n + 1 /\ n \in Nat
      /\ \A i \in 1 .. n : fs[i] = a.findings[i]
      /\ fs[n + 1] = StampProvenance(w.reply, chunk)
  BY <1>1, AppendIsSeq DEF IsRun, IsSeq
<1>6. Heard(said, StampProvenance(w.reply, chunk), chunk)
  <2>1. x[1].pass = "extract" /\ x[2] = w.reply
    BY <1>1, <1>2 DEF Asked, KeyIn
  <2>2. QED
    BY <1>1, <1>2, <2>1 DEF Heard
<1> DEFINE b == analysis'[c]
<1> HIDE DEF a, b, fs, n, w, x, chunk
<1>7. IsRun(b) /\ b.findings = fs /\ b.meeting = a.meeting
  BY <1>1, <1>4, <1>5 DEF b, IsRun
<1>8. Hears(raw, said, b)
  <2>1. SUFFICES ASSUME NEW i \in 1 .. Len(fs)
                 PROVE  Heard(said, fs[i], ChunksOf(raw, a.meeting)[i])
    BY <1>7 DEF Hears
  <2>2. CASE i = n + 1
    BY <1>5, <1>6, <2>2 DEF chunk
  <2>3. CASE i # n + 1
    BY <1>1, <1>2, <1>5, <2>1, <2>3 DEF Hears, n
  <2>4. QED
    BY <2>2, <2>3
<1>9. QED
  BY <1>3, <1>7, <1>8, DroppedOk DEF b

LEMMA SynthesizedOk ==
  ASSUME RunsByName, CallsByCaller, NEW c \in Runs, Synthesized(c),
         RunOk(config, raw, said, analysis[c], call[c])
  PROVE  RunOk(config, raw, said, analysis'[c], call'[c])
<1> DEFINE a == analysis[c]
<1>1. IsRun(a) /\ Hears(raw, said, a) /\ a.at \in Working
  BY RunHasReply DEF Synthesized, RunOk
<1>2. call'[c] = NoCall
  BY CallersAssumption DEF Synthesized, Drop, CallsByCaller
<1>3. \/ \E ir : analysis'[c] = [a EXCEPT !.at = "done", !.ir = ir]
      \/ analysis'[c] = [a EXCEPT !.at = "failed"]
  BY DEF Synthesized, Become, RunsByName
<1> DEFINE b == analysis'[c]
<1> HIDE DEF a, b
<1>4. b.findings = a.findings /\ b.meeting = a.meeting /\ IsRun(b)
  BY <1>1, <1>3 DEF b, IsRun
<1>5. Hears(raw, said, b)
  BY <1>1, <1>4 DEF Hears, Working
<1>6. QED
  BY <1>2, <1>4, <1>5, DroppedOk DEF b

LEMMA AnalysisInvStep ==
  ASSUME RuntimeAssumption, AnalysisInv, [Next]_vars
  PROVE  AnalysisInv'
<1> USE DEF AnalysisInv
<1>1. LlmNext /\ LlmInv' /\ RunsByName'
  BY StepsOfTheProvider, InvStep, RunsByNameKept
<1>2. said \subseteq said' /\ NoErrorKept' /\ SaidByRuntimes'
  BY <1>1, ProviderKept
<1>3. RunsOk'
  <2>1. SUFFICES ASSUME NEW c \in Runs
                 PROVE  RunOk(config', raw', said', analysis'[c], call'[c])
    BY DEF RunsOk
  <2>2. RunOk(config, raw, said, analysis[c], call[c]) /\ CallsByCaller /\ RowsWereSaid
    BY DEF RunsOk, LlmInv
  <2>3. /\ raw' = raw
        /\ \/ Restart /\ AnalysisLost
           \/ config' = config /\ (Aside(c) \/ Moves(c))
    BY <2>2, StepsOfARun
  <2>4. CASE Restart /\ AnalysisLost
    <3>1. analysis'[c] = NoRun /\ call'[c] = NoCall
      BY <2>4, CallersAssumption DEF Restart, AnalysisLost
    <3>2. QED
      BY <3>1 DEF RunOk, Asks, Hears, NoRun
  <2>5. CASE RunOk(config, raw, said, analysis'[c], call'[c]) /\ config' = config
    BY <1>2, <2>3, <2>5, StaysOk
  <2>6. CASE Aside(c) /\ config' = config
    BY <2>2, <2>5, <2>6 DEF Aside
  <2>7. CASE Moves(c) /\ config' = config
    <3>1. CASE \E m \in Meetings : Analyze(c, m)
      BY <2>2, <2>5, <2>7, <3>1, BegunOk
    <3>2. CASE Generate(c)
      <4>1. analysis' = analysis
        BY <3>2 DEF Generate, analysisVars
      <4>2. QED
        BY <2>2, <2>5, <2>7, <3>2, <4>1, LookedUpOk
    <3>3. CASE GenerateFails(c) \/ Repair(c)
      BY <2>2, <2>5, <2>7, <3>3, RefusedOk
    <3>4. CASE Extracted(c)
      BY <2>2, <2>5, <2>7, <3>4, ExtractedOk
    <3>5. CASE Synthesized(c)
      BY <2>2, <2>5, <2>7, <3>5, SynthesizedOk
    <3>6. CASE Infer(c) /\ UNCHANGED analysis
      BY <2>2, <2>3, <2>7, <3>6, AnsweredOk
    <3>7. QED
      BY <2>7, <3>1, <3>2, <3>3, <3>4, <3>5, <3>6 DEF Moves, AnalysisStep
  <2>8. QED
    BY <2>3, <2>4, <2>6, <2>7
<1>4. QED
  BY <1>1, <1>2, <1>3

-----------------------------------------------------------------------------
(* Evidence *)

\* ai/findings.rs: an answer to an extraction that parses has the fields of
\* ChunkFindings; the empty text does not parse.
FormAssumption ==
  \A req : req.pass = "extract" =>
    \A f \in Replies(req) : f \notin Unparsable => IsItems(f.claims) /\ IsItems(f.actions)

\* e points into the chunk and names a speaker of it, unless one of told gave its
\* quote another place or speaker.
Own(e, chunk, told) ==
  /\ \/ e.chunk = chunk.id
     \/ \E g \in told : g.quote = e.quote /\ g.chunk = e.chunk /\ g.chunk # NoChunk
  /\ \/ <<e.start, e.end>> \in TimesOf(chunk)
     \/ \E g \in told : g.quote = e.quote /\ {g.start, g.end} # {NoTime}
  /\ \/ e.speaker = NoSpeaker
     \/ \E s \in ToSet(chunk.segments) : e.speaker = s.speaker
     \/ \E g \in told : g.quote = e.quote /\ g.speaker = e.speaker

\* What the model leaves out is filled in from the chunk.
LEMMA FilledIsOwn ==
  ASSUME NEW g, IsEvidence(g), NEW chunk,
         NEW e, e = [g EXCEPT !.chunk = IF @ = NoChunk THEN chunk.id ELSE @,
                              !.start = IF @ = NoTime THEN chunk.start ELSE @,
                              !.end = IF @ = NoTime THEN chunk.end ELSE @]
  PROVE  Own(e, chunk, {g})
<1>1. /\ e.quote = g.quote /\ e.speaker = g.speaker
      /\ e.chunk = IF g.chunk = NoChunk THEN chunk.id ELSE g.chunk
      /\ e.start = IF g.start = NoTime THEN chunk.start ELSE g.start
      /\ e.end = IF g.end = NoTime THEN chunk.end ELSE g.end
  BY DEF IsEvidence
<1>2. CASE {g.start, g.end} = {NoTime}
  <2>1. g.start = NoTime /\ g.end = NoTime
    BY <1>2
  <2>2. <<e.start, e.end>> \in TimesOf(chunk)
    BY <1>1, <2>1 DEF TimesOf
  <2>3. QED
    BY <1>1, <2>2 DEF Own
<1>3. CASE {g.start, g.end} # {NoTime}
  BY <1>1, <1>3 DEF Own
<1>4. QED
  BY <1>2, <1>3

LEMMA BestIsOwn ==
  ASSUME NEW text, NEW chunk, NEW e \in BestSegment(text, chunk)
  PROVE  Own(e, chunk, {})
<1>1. PICK i \in DOMAIN chunk.segments :
         e = EvidenceAt(chunk.segments[i].text, chunk.segments[i].speaker,
                        chunk.segments[i].start, chunk.segments[i].end, chunk.id)
  BY DEF BestSegment
<1>2. /\ e.chunk = chunk.id /\ e.speaker = chunk.segments[i].speaker
      /\ e.start = chunk.segments[i].start /\ e.end = chunk.segments[i].end
  BY <1>1 DEF EvidenceAt
<1>3. chunk.segments[i] \in ToSet(chunk.segments)
  BY DEF ToSet
<1>4. QED
  BY <1>2, <1>3 DEF Own, TimesOf

LEMMA OwnGrows ==
  ASSUME NEW e, NEW chunk, NEW told, NEW more, told \subseteq more, Own(e, chunk, told)
  PROVE  Own(e, chunk, more)
BY DEF Own

\* ground: kept quotes are filled in, and everything else is of the chunk.
LEMMA GroundedIsOwn ==
  ASSUME NEW evidence, \A g \in ToSet(evidence) : IsEvidence(g),
         NEW text, NEW chunk, NEW e \in ToSet(Ground(evidence, text, chunk))
  PROVE  Own(e, chunk, ToSet(evidence))
<1> DEFINE Fill(g) == [g EXCEPT !.chunk = IF @ = NoChunk THEN chunk.id ELSE @,
                                !.start = IF @ = NoTime THEN chunk.start ELSE @,
                                !.end = IF @ = NoTime THEN chunk.end ELSE @]
           marker == EvidenceAt(<<>>, NoSpeaker, chunk.start, chunk.end, chunk.id)
           best == BestSegment(text, chunk)
           one == IF best = {} THEN marker ELSE CHOOSE x \in best : TRUE
<1>1. CASE \E g \in ToSet(evidence) : g.quote # <<>>
  <2>1. Ground(evidence, text, chunk) = [i \in DOMAIN evidence |-> Fill(evidence[i])]
    BY <1>1 DEF Ground
  <2> HIDE DEF Fill
  <2>2. PICK i \in DOMAIN evidence : e = Fill(evidence[i])
    BY <2>1 DEF ToSet
  <2>3. evidence[i] \in ToSet(evidence)
    BY DEF ToSet
  <2>4. Own(e, chunk, {evidence[i]})
    BY <2>2, <2>3, FilledIsOwn DEF Fill
  <2>5. QED
    BY <2>3, <2>4, OwnGrows
<1>2. CASE ~ \E g \in ToSet(evidence) : g.quote # <<>>
  <2>1. Ground(evidence, text, chunk) = <<one>>
    BY <1>2 DEF Ground
  <2> HIDE DEF one
  <2>2. e = one
    BY <2>1 DEF ToSet
  <2>3. Own(e, chunk, {})
    <3>1. CASE best = {}
      <4>1. /\ e.chunk = chunk.id /\ e.speaker = NoSpeaker
            /\ e.start = chunk.start /\ e.end = chunk.end
        BY <2>2, <3>1 DEF one, EvidenceAt
      <4>2. QED
        BY <4>1 DEF Own, TimesOf
    <3>2. CASE best # {}
      <4>1. e \in best
        BY <2>2, <3>2 DEF one
      <4>2. QED
        BY <4>1, BestIsOwn
    <3>3. QED
      BY <3>1, <3>2
  <2>4. QED
    BY <2>3, OwnGrows
<1>3. QED
  BY <1>1, <1>2

LEMMA StampedIsOwn ==
  ASSUME NEW f, IsItems(f.claims), IsItems(f.actions), NEW chunk,
         NEW e \in AllEvidence(StampProvenance(f, chunk))
  PROVE  Own(e, chunk, AllEvidence(f))
<1> DEFINE Stamp(items) == [i \in DOMAIN items |->
             [items[i] EXCEPT !.evidence = Ground(@, items[i].text, chunk)]]
<1>1. ASSUME NEW items, IsItems(items), items \in {f.claims, f.actions},
             NEW item \in ToSet(Stamp(items)), e \in ToSet(item.evidence)
      PROVE  Own(e, chunk, AllEvidence(f))
  <2>1. PICK i \in DOMAIN items :
           item = [items[i] EXCEPT !.evidence = Ground(@, items[i].text, chunk)]
    BY <1>1 DEF ToSet
  <2>2. item.evidence = Ground(items[i].evidence, items[i].text, chunk)
    BY <1>1, <2>1 DEF IsItems
  <2>3. Own(e, chunk, ToSet(items[i].evidence))
    BY <1>1, <2>2, GroundedIsOwn DEF IsItems
  <2>4. ToSet(items[i].evidence) \subseteq AllEvidence(f)
    <3>1. items[i] \in ToSet(f.claims) \cup ToSet(f.actions)
      BY <1>1 DEF ToSet
    <3>2. QED
      BY <3>1 DEF AllEvidence
  <2>5. QED
    BY <2>3, <2>4, OwnGrows
<1>2. /\ StampProvenance(f, chunk).claims = Stamp(f.claims)
      /\ StampProvenance(f, chunk).actions = Stamp(f.actions)
  BY DEF StampProvenance
<1> HIDE DEF Stamp
<1>3. PICK item \in ToSet(Stamp(f.claims)) \cup ToSet(Stamp(f.actions)) :
         e \in ToSet(item.evidence)
  BY <1>2 DEF AllEvidence
<1>4. QED
  BY <1>1, <1>3

\* extraction::stamp_provenance ("so findings are always traceable to the source
\* transcript", extraction.rs:7): the evidence of every finding of every run points
\* into the run's own chunk, or to what a model said of that very quote.
THEOREM EvidenceOwn ==
  ASSUME RuntimeAssumption, FormAssumption
  PROVE  Spec => []EvidenceIsOwn
<1>1. AnalysisInv /\ [Next]_vars => AnalysisInv'
  BY AnalysisInvStep
<1>2. AnalysisInv => EvidenceIsOwn
  <2> SUFFICES ASSUME AnalysisInv, NEW c \in Runs, analysis[c].at = "done",
                      NEW i \in DOMAIN analysis[c].findings,
                      NEW e \in AllEvidence(analysis[c].findings[i])
               PROVE  Own(e, Chunks(analysis[c].meeting)[i], Told)
    BY DEF EvidenceIsOwn, Own
  <2> DEFINE a == analysis[c]
             chunk == ChunksOf(raw, a.meeting)[i]
  <2>1. RunOk(config, raw, said, a, call[c]) /\ a # NoRun
    BY DEF AnalysisInv, RunsOk, NoRun
  <2>2. i \in 1 .. Len(a.findings)
    BY <2>1 DEF RunOk, IsRun, IsSeq
  <2>3. Heard(said, a.findings[i], chunk)
    BY <2>1, <2>2 DEF RunOk, Hears
  <2>4. PICK x \in said : /\ x[1].pass = "extract" /\ x[2] \notin Unparsable
                          /\ a.findings[i] = StampProvenance(x[2], chunk)
    BY <2>3 DEF Heard
  <2>5. x[2] \in Replies(x[1])
    BY <2>4 DEF AnalysisInv, SaidByRuntimes, Unparsable
  <2>6. IsItems(x[2].claims) /\ IsItems(x[2].actions)
    BY <2>4, <2>5 DEF FormAssumption
  <2>7. Own(e, chunk, AllEvidence(x[2]))
    BY <2>4, <2>6, StampedIsOwn
  <2>8. AllEvidence(x[2]) \subseteq Told
    BY <2>4 DEF Told
  <2>9. Chunks(analysis[c].meeting)[i] = chunk
    BY DEF Chunks, ChunksOf
  <2>10. QED
    BY <2>7, <2>8, <2>9, OwnGrows
<1>3. QED
  BY <1>1, <1>2, AnalysisInvInit, PTL DEF Spec

-----------------------------------------------------------------------------
(* What the cache says of an analysis *)

Extends(rows1, rows2) ==
  \A k \in DOMAIN rows1 : k \in DOMAIN rows2 /\ rows2[k] = rows1[k]

\* The rows answer a request, if need be with the reminder: k1 is k0 with it.
Settled(rows1, k0, k1) ==
  /\ k0 \in DOMAIN rows1
  /\ rows1[k0] \in Unparsable => k1 \in DOMAIN rows1 /\ rows1[k1] \notin Unparsable

TextOf(rows1, k0, k1) == IF rows1[k0] \in Unparsable THEN rows1[k1] ELSE rows1[k0]

Key(cfg, rw, a, reminded) == KeyIn(cfg, Asked(cfg, rw, a, reminded))

ExtractKey(cfg, rw, m, i, reminded) ==
  LET chunk == ChunksOf(rw, m)[i]
  IN  KeyIn(cfg, [pass |-> "extract", model |-> cfg.extraction, title |-> TitleOf[m],
                  id |-> chunk.id, prompt |-> PromptText(chunk), reminded |-> reminded])

SynthesisKey(cfg, m, fs, reminded) ==
  KeyIn(cfg, [pass |-> "synthesize", model |-> cfg.synthesis, title |-> TitleOf[m],
              findings |-> FromChunks(fs), reminded |-> reminded])

ChunkSettled(rows1, cfg, rw, m, i) ==
  Settled(rows1, ExtractKey(cfg, rw, m, i, FALSE), ExtractKey(cfg, rw, m, i, TRUE))

Finding(rows1, cfg, rw, m, i) ==
  StampProvenance(TextOf(rows1, ExtractKey(cfg, rw, m, i, FALSE),
                         ExtractKey(cfg, rw, m, i, TRUE)),
                  ChunksOf(rw, m)[i])

FindingsOf(rows1, cfg, rw, m) ==
  [i \in 1 .. Len(ChunksOf(rw, m)) |-> Finding(rows1, cfg, rw, m, i)]

SynthesisSettled(rows1, cfg, m, fs) ==
  Settled(rows1, SynthesisKey(cfg, m, fs, FALSE), SynthesisKey(cfg, m, fs, TRUE))

IrFrom(rows1, cfg, rw, m, fs) ==
  Reconcile(TextOf(rows1, SynthesisKey(cfg, m, fs, FALSE), SynthesisKey(cfg, m, fs, TRUE)),
            FromChunks(fs), SegsOf(rw, m))

\* The IR that the rows lead to.
IrOf(rows1, cfg, rw, m) == IrFrom(rows1, cfg, rw, m, FindingsOf(rows1, cfg, rw, m))

\* The rows lead an analysis of m under cfg to its end, and to a valid IR.
Trail(rows1, cfg, rw, m) ==
  /\ Len(ChunksOf(rw, m)) \in Nat \ {0}
  /\ \A i \in 1 .. Len(ChunksOf(rw, m)) : ChunkSettled(rows1, cfg, rw, m, i)
  /\ SynthesisSettled(rows1, cfg, m, FindingsOf(rows1, cfg, rw, m))
  /\ Validate(IrOf(rows1, cfg, rw, m))

LEMMA SettledStays ==
  ASSUME NEW rows1, NEW rows2, Extends(rows1, rows2), NEW k0, NEW k1,
         Settled(rows1, k0, k1)
  PROVE  Settled(rows2, k0, k1) /\ TextOf(rows2, k0, k1) = TextOf(rows1, k0, k1)
BY DEF Extends, Settled, TextOf

LEMMA ChunkStays ==
  ASSUME NEW rows1, NEW rows2, Extends(rows1, rows2), NEW cfg, NEW rw, NEW m, NEW i,
         ChunkSettled(rows1, cfg, rw, m, i)
  PROVE  /\ ChunkSettled(rows2, cfg, rw, m, i)
         /\ Finding(rows2, cfg, rw, m, i) = Finding(rows1, cfg, rw, m, i)
<1> DEFINE k0 == ExtractKey(cfg, rw, m, i, FALSE)
           k1 == ExtractKey(cfg, rw, m, i, TRUE)
<1>1. Settled(rows1, k0, k1)
  BY DEF ChunkSettled
<1> HIDE DEF k0, k1
<1>2. Settled(rows2, k0, k1) /\ TextOf(rows2, k0, k1) = TextOf(rows1, k0, k1)
  BY <1>1, SettledStays
<1>3. QED
  BY <1>2 DEF ChunkSettled, Finding, k0, k1

\* Rows that are added leave the trail as it is.
LEMMA TrailStays ==
  ASSUME NEW rows1, NEW rows2, Extends(rows1, rows2), NEW cfg, NEW rw, NEW m,
         Trail(rows1, cfg, rw, m)
  PROVE  /\ Trail(rows2, cfg, rw, m)
         /\ IrOf(rows2, cfg, rw, m) = IrOf(rows1, cfg, rw, m)
<1> DEFINE N == Len(ChunksOf(rw, m))
           fs == FindingsOf(rows1, cfg, rw, m)
<1>1. \A i \in 1 .. N : /\ ChunkSettled(rows2, cfg, rw, m, i)
                        /\ Finding(rows2, cfg, rw, m, i) = Finding(rows1, cfg, rw, m, i)
  BY ChunkStays DEF Trail
<1>2. FindingsOf(rows2, cfg, rw, m) = fs
  BY <1>1 DEF FindingsOf
<1> HIDE DEF fs
<1>3. /\ SynthesisSettled(rows2, cfg, m, fs)
      /\ IrFrom(rows2, cfg, rw, m, fs) = IrFrom(rows1, cfg, rw, m, fs)
  <2> DEFINE k0 == SynthesisKey(cfg, m, fs, FALSE)
             k1 == SynthesisKey(cfg, m, fs, TRUE)
  <2>1. Settled(rows1, k0, k1)
    BY DEF Trail, SynthesisSettled, fs
  <2> HIDE DEF k0, k1
  <2>2. Settled(rows2, k0, k1) /\ TextOf(rows2, k0, k1) = TextOf(rows1, k0, k1)
    BY <2>1, SettledStays
  <2>3. QED
    BY <2>2 DEF SynthesisSettled, IrFrom, k0, k1
<1>4. IrOf(rows2, cfg, rw, m) = IrOf(rows1, cfg, rw, m)
  BY <1>2, <1>3 DEF IrOf, fs
<1>5. QED
  BY <1>1, <1>2, <1>3, <1>4 DEF Trail

-----------------------------------------------------------------------------
(* A run follows the rows, and is free when they lead to the end *)

Follows(rows1, cfg, rw, a, w) ==
  a.at \in Working =>
    /\ \A i \in 1 .. Len(a.findings) :
         /\ ChunkSettled(rows1, cfg, rw, a.meeting, i)
         /\ a.findings[i] = Finding(rows1, cfg, rw, a.meeting, i)
    /\ a.at = "synthesize" => /\ Len(a.findings) = Len(ChunksOf(rw, a.meeting))
                              /\ Len(a.findings) # 0
    /\ a.reminded => /\ Key(cfg, rw, a, FALSE) \in DOMAIN rows1
                     /\ rows1[Key(cfg, rw, a, FALSE)] \in Unparsable
    /\ w # NoCall /\ w.at = "done" /\ w.reply # LlmError =>
         /\ KeyIn(cfg, w.req) \in DOMAIN rows1
         /\ rows1[KeyIn(cfg, w.req)] = w.reply

Free(rows1, cfg, rw, a, w) ==
  a.at # "idle" /\ a.again # {} =>
    /\ Trail(rows1, cfg, rw, a.meeting)
    /\ a.again = {IrOf(rows1, cfg, rw, a.meeting)}
    /\ w # NoCall => w.at = "done" /\ w.reply # LlmError
    /\ a.at # "failed"
    /\ a.at = "done" => a.ir = IrOf(rows1, cfg, rw, a.meeting)
    /\ a.at = "extract" => Len(a.findings) < Len(ChunksOf(rw, a.meeting))

\* The rows have the answer that a run has received.
Replied(rows1, cfg, rw, a, reply) ==
  /\ Key(cfg, rw, a, a.reminded) \in DOMAIN rows1
  /\ rows1[Key(cfg, rw, a, a.reminded)] = reply

LEMMA ReceivedIsReplied ==
  ASSUME NEW c \in Runs, RunOk(config, raw, said, analysis[c], call[c]), Received(c),
         Follows(cache, config, raw, analysis[c], call[c]),
         call[c].reply # LlmError
  PROVE  Replied(cache, config, raw, analysis[c], call[c].reply)
BY RunHasReply DEF Received, Follows, Replied, Key

\* An answer that parses settles the request.
LEMMA AcceptedSettles ==
  ASSUME NEW rows1, NEW cfg, NEW rw, NEW a, NEW w, IsRun(a), a.at \in Working,
         Follows(rows1, cfg, rw, a, w), NEW reply, reply \notin Unparsable,
         Replied(rows1, cfg, rw, a, reply)
  PROVE  /\ Settled(rows1, Key(cfg, rw, a, FALSE), Key(cfg, rw, a, TRUE))
         /\ TextOf(rows1, Key(cfg, rw, a, FALSE), Key(cfg, rw, a, TRUE)) = reply
<1>1. CASE a.reminded
  <2>1. a.reminded = TRUE
    BY <1>1 DEF IsRun
  <2>2. QED
    BY <2>1 DEF Follows, Replied, Settled, TextOf
<1>2. CASE ~a.reminded
  <2>1. a.reminded = FALSE
    BY <1>2 DEF IsRun
  <2>2. QED
    BY <2>1 DEF Replied, Settled, TextOf
<1>3. QED
  BY <1>1, <1>2

LEMMA ExtractKeys ==
  ASSUME NEW cfg, NEW rw, NEW a, a.at = "extract", NEW r
  PROVE  Key(cfg, rw, a, r) = ExtractKey(cfg, rw, a.meeting, Len(a.findings) + 1, r)
BY DEF Key, ExtractKey, Asked

LEMMA SynthesisKeys ==
  ASSUME NEW cfg, NEW rw, NEW a, a.at = "synthesize", NEW r
  PROVE  Key(cfg, rw, a, r) = SynthesisKey(cfg, a.meeting, a.findings, r)
BY DEF Key, SynthesisKey, Asked

\* At the synthesis the findings are those that the rows lead to.
LEMMA AllFound ==
  ASSUME NEW rows1, NEW cfg, NEW rw, NEW a, NEW w, IsRun(a), a.at = "synthesize",
         Follows(rows1, cfg, rw, a, w)
  PROVE  /\ a.findings = FindingsOf(rows1, cfg, rw, a.meeting)
         /\ Len(ChunksOf(rw, a.meeting)) \in Nat \ {0}
         /\ \A i \in 1 .. Len(ChunksOf(rw, a.meeting)) :
              ChunkSettled(rows1, cfg, rw, a.meeting, i)
<1> DEFINE N == Len(ChunksOf(rw, a.meeting))
<1>1. /\ Len(a.findings) = N /\ N \in Nat \ {0}
      /\ a.findings = [i \in 1 .. N |-> a.findings[i]]
      /\ \A i \in 1 .. N : /\ ChunkSettled(rows1, cfg, rw, a.meeting, i)
                           /\ a.findings[i] = Finding(rows1, cfg, rw, a.meeting, i)
  BY DEF Follows, IsRun, IsSeq, Working
<1> HIDE DEF N
<1>2. a.findings = [i \in 1 .. N |-> Finding(rows1, cfg, rw, a.meeting, i)]
  BY <1>1
<1>3. QED
  BY <1>1, <1>2 DEF N, FindingsOf

\* A free run's next request is settled by the rows.
LEMMA FreeIsSettled ==
  ASSUME NEW rows1, NEW cfg, NEW rw, NEW a, NEW w, IsRun(a), a.at \in Working,
         Follows(rows1, cfg, rw, a, w), Free(rows1, cfg, rw, a, w), a.again # {}
  PROVE  /\ Settled(rows1, Key(cfg, rw, a, FALSE), Key(cfg, rw, a, TRUE))
         /\ Key(cfg, rw, a, a.reminded) \in DOMAIN rows1
         /\ a.reminded => rows1[Key(cfg, rw, a, a.reminded)] \notin Unparsable
<1> DEFINE N == Len(ChunksOf(rw, a.meeting))
           n == Len(a.findings)
<1>1. Trail(rows1, cfg, rw, a.meeting)
  BY DEF Free, Working
<1>2. Settled(rows1, Key(cfg, rw, a, FALSE), Key(cfg, rw, a, TRUE))
  <2>1. CASE a.at = "extract"
    <3>1. n < N /\ n \in Nat /\ N \in Nat
      BY <1>1, <2>1 DEF Free, Trail, IsRun, IsSeq
    <3>2. ChunkSettled(rows1, cfg, rw, a.meeting, n + 1)
      BY <1>1, <3>1 DEF Trail
    <3>3. QED
      BY <2>1, <3>2, ExtractKeys DEF ChunkSettled
  <2>2. CASE a.at = "synthesize"
    <3>1. a.findings = FindingsOf(rows1, cfg, rw, a.meeting)
      BY <2>2, AllFound
    <3>2. SynthesisSettled(rows1, cfg, a.meeting, a.findings)
      BY <1>1, <3>1 DEF Trail
    <3>3. QED
      BY <2>2, <3>2, SynthesisKeys DEF SynthesisSettled
  <2>3. QED
    BY <2>1, <2>2 DEF Working
<1>3. CASE a.reminded
  <2>1. a.reminded = TRUE
    BY <1>3 DEF IsRun
  <2>2. QED
    BY <1>2, <2>1 DEF Follows, Settled
<1>4. CASE ~a.reminded
  <2>1. a.reminded = FALSE
    BY <1>4 DEF IsRun
  <2>2. QED
    BY <1>2, <2>1 DEF Settled
<1>5. QED
  BY <1>2, <1>3, <1>4

LEMMA FollowsStays ==
  ASSUME NEW rows1, NEW rows2, Extends(rows1, rows2), NEW cfg, NEW rw, NEW a, NEW w,
         Follows(rows1, cfg, rw, a, w)
  PROVE  Follows(rows2, cfg, rw, a, w)
<1> SUFFICES ASSUME a.at \in Working
             PROVE  Follows(rows2, cfg, rw, a, w)
  BY DEF Follows
<1>1. \A i \in 1 .. Len(a.findings) :
         /\ ChunkSettled(rows2, cfg, rw, a.meeting, i)
         /\ a.findings[i] = Finding(rows2, cfg, rw, a.meeting, i)
  <2>1. SUFFICES ASSUME NEW i \in 1 .. Len(a.findings)
                 PROVE  /\ ChunkSettled(rows2, cfg, rw, a.meeting, i)
                        /\ a.findings[i] = Finding(rows2, cfg, rw, a.meeting, i)
    OBVIOUS
  <2>2. /\ ChunkSettled(rows1, cfg, rw, a.meeting, i)
        /\ a.findings[i] = Finding(rows1, cfg, rw, a.meeting, i)
    BY DEF Follows
  <2>3. QED
    BY <2>2, ChunkStays
<1>2. QED
  BY <1>1 DEF Follows, Extends

LEMMA FreeStays ==
  ASSUME NEW rows1, NEW rows2, Extends(rows1, rows2), NEW cfg, NEW rw, NEW a, NEW w,
         Free(rows1, cfg, rw, a, w)
  PROVE  Free(rows2, cfg, rw, a, w)
BY TrailStays DEF Free

-----------------------------------------------------------------------------
(* A repeated analysis is free: the invariant *)

RunsFree == \A c \in Runs : /\ Follows(cache, config, raw, analysis[c], call[c])
                            /\ Free(cache, config, raw, analysis[c], call[c])

\* What was kept is what the rows lead to.
KeptIsTrail == \A k \in kept : /\ Trail(cache, k[2], raw, k[1])
                               /\ k[3] = IrOf(cache, k[2], raw, k[1])

RepeatInv == ~faulty /\ AnsweredOnce => RunsFree /\ KeptIsTrail

\* llm/error: the error of a runtime is no text.
ErrorAssumption == LlmError \notin Unparsable

\* A miss that writes over another's row gives it the same answer.
LEMMA CacheExtends ==
  ASSUME LlmNext, RowsWereSaid, ~faulty, AnsweredOnce'
  PROVE  Extends(cache, cache')
<1>1. ASSUME UNCHANGED cache PROVE Extends(cache, cache')
  BY <1>1 DEF Extends
<1>2. ASSUME NEW c \in Callers, Infer(c)
      PROVE  Extends(cache, cache')
  <2> DEFINE req == call[c].req
  <2>1. PICK reply \in Generated(req) :
           IF reply = LlmError THEN UNCHANGED <<cache, said>>
           ELSE /\ said' = said \cup {<<Served(req), reply>>}
                /\ cache' = Put(cache, CacheKey(req), reply)
    BY <1>2 DEF Infer
  <2>2. CASE reply = LlmError
    BY <2>1, <2>2, <1>1
  <2>3. CASE reply # LlmError
    <3> DEFINE key == KeyIn(config, req)
    <3>1. said' = said \cup {<<key, reply>>} /\ cache' = Put(cache, key, reply)
      BY <2>1, <2>3, KeysAreServed
    <3> HIDE DEF key
    <3>2. ASSUME key \in DOMAIN cache PROVE cache[key] = reply
      <4> DEFINE x == <<key, cache[key]>>
                 y == <<key, reply>>
      <4>1. x \in said' /\ y \in said'
        BY <3>1, <3>2 DEF RowsWereSaid
      <4>2. x = y
        BY <4>1 DEF AnsweredOnce
      <4>3. QED
        BY <4>2
    <3>3. QED
      BY <3>1, <3>2 DEF Put, Extends
  <2>4. QED
    BY <2>2, <2>3
<1>3. (\E c \in Callers : (\E req : Lookup(c, req)) \/ Taken(c)) \/ Restart
        \/ UNCHANGED llmVars => UNCHANGED cache
  BY DEF Lookup, Taken, Restart, llmVars
<1>4. QED
  BY <1>1, <1>2, <1>3 DEF LlmNext

\* A run that begins knows of all the IRs that were kept of its meeting: of one.
LEMMA BegunFree ==
  ASSUME RunsByName, NEW c \in Runs, NEW m \in Meetings, Analyze(c, m),
         call[c] = NoCall, KeptIsTrail
  PROVE  /\ Follows(cache, config, raw, analysis'[c], call'[c])
         /\ Free(cache, config, raw, analysis'[c], call'[c])
<1> DEFINE empty == Chunks(m) = <<>>
           old == {k[3] : k \in {k \in kept : k[1] = m /\ k[2] = config}}
           ir == IrOf(cache, config, raw, m)
           b == analysis'[c]
<1>1. b = [at |-> IF empty THEN "done" ELSE "extract", meeting |-> m,
           findings |-> <<>>, reminded |-> FALSE,
           ir |-> IF empty THEN EmptyIr(Notice) ELSE NoIr, again |-> old]
  BY DEF Analyze, RunsByName
<1>2. call'[c] = NoCall
  BY DEF Analyze, llmVars
<1>3. ASSUME old # {} PROVE Trail(cache, config, raw, m) /\ old = {ir}
  BY <1>3 DEF KeptIsTrail
<1> HIDE DEF old, ir, b
<1>4. /\ b.at = IF empty THEN "done" ELSE "extract"
      /\ b.meeting = m /\ b.findings = <<>> /\ b.reminded = FALSE /\ b.again = old
  BY <1>1
<1>5. Follows(cache, config, raw, b, NoCall)
  <2>1. Len(b.findings) = 0 /\ b.at # "synthesize" /\ b.reminded = FALSE
    BY <1>4, EmptyIsSeq
  <2>2. 1 .. Len(b.findings) = {}
    BY <2>1
  <2>3. QED
    BY <2>1, <2>2 DEF Follows
<1>6. Free(cache, config, raw, b, NoCall)
  <2> SUFFICES ASSUME old # {} PROVE Free(cache, config, raw, b, NoCall)
    BY <1>4 DEF Free
  <2>1. Len(ChunksOf(raw, m)) \in Nat \ {0}
    BY <1>3 DEF Trail
  <2>2. ~empty
    BY <2>1, EmptyIsSeq DEF Chunks, ChunksOf
  <2>3. b.at = "extract" /\ Len(b.findings) = 0
    BY <1>4, <2>2, EmptyIsSeq
  <2>4. QED
    BY <1>3, <1>4, <2>1, <2>3 DEF Free, ir
<1>7. QED
  BY <1>2, <1>5, <1>6 DEF b

\* A free run finds its row.
LEMMA LookedUpFree ==
  ASSUME CallsByCaller, NoErrorKept, ~faulty, NEW c \in Runs, Generate(c),
         RunOk(config, raw, said, analysis[c], call[c]),
         Follows(cache, config, raw, analysis[c], call[c]),
         Free(cache, config, raw, analysis[c], call[c])
  PROVE  /\ Follows(cache, config, raw, analysis[c], call'[c])
         /\ Free(cache, config, raw, analysis[c], call'[c])
<1> DEFINE a == analysis[c]
           req == Asked(config, raw, a, a.reminded)
           key == KeyIn(config, req)
<1>1. Lookup(c, req) /\ a.at \in Working /\ IsRun(a)
  BY RequestIsAsked DEF Generate, RunOk, NoRun, Working
<1>2. c \in DOMAIN call
  BY CallersAssumption DEF CallsByCaller
<1>3. \/ key \in DOMAIN cache /\ call'[c] = [at |-> "done", req |-> req, reply |-> cache[key]]
      \/ key \notin DOMAIN cache /\ call'[c] = [at |-> "infer", req |-> req]
  BY <1>1, <1>2, KeysAreServed DEF Lookup
<1> DEFINE w == call'[c]
<1> HIDE DEF w, a
<1>4. w.req = req /\ (w.at = "done" => key \in DOMAIN cache /\ w.reply = cache[key])
  BY <1>3 DEF w
<1>5. Follows(cache, config, raw, a, w)
  BY <1>4 DEF Follows, a
<1>6. ASSUME a.again # {} PROVE w.at = "done" /\ w.reply # LlmError
  <2>1. key \in DOMAIN cache
    BY <1>1, <1>6, FreeIsSettled DEF Key, a
  <2>2. w.at = "done" /\ w.reply = cache[key]
    BY <1>3, <2>1 DEF w
  <2>3. QED
    BY <2>1, <2>2 DEF NoErrorKept
<1>7. Free(cache, config, raw, a, w)
  BY <1>6 DEF Free, a
<1>8. QED
  BY <1>5, <1>7 DEF a, w

\* A free run does not fail for want of a text.
LEMMA FailedFree ==
  ASSUME RunsByName, NEW c \in Runs, GenerateFails(c),
         RunOk(config, raw, said, analysis[c], call[c]),
         Follows(cache, config, raw, analysis[c], call[c]),
         Free(cache, config, raw, analysis[c], call[c])
  PROVE  /\ Follows(cache, config, raw, analysis'[c], call'[c])
         /\ Free(cache, config, raw, analysis'[c], call'[c])
<1> DEFINE a == analysis[c]
<1>1. IsRun(a) /\ a.at \in Working /\ Received(c)
  BY RunHasReply DEF GenerateFails
<1>2. a.again = {}
  <2> SUFFICES ASSUME a.again # {} PROVE FALSE
    OBVIOUS
  <2>1. call[c].reply # LlmError
    BY <1>1 DEF Free, Received, Working
  <2>2. Replied(cache, config, raw, a, call[c].reply)
    BY <1>1, <2>1, ReceivedIsReplied
  <2>3. call[c].reply \in Unparsable /\ a.reminded
    BY <2>1 DEF GenerateFails
  <2>4. QED
    BY <1>1, <2>2, <2>3, FreeIsSettled DEF Replied
<1>3. analysis'[c] = [a EXCEPT !.at = "failed"]
  BY DEF GenerateFails, Become, RunsByName
<1> DEFINE b == analysis'[c]
<1> HIDE DEF a, b
<1>4. b.at = "failed" /\ b.again = {}
  BY <1>1, <1>2, <1>3 DEF b, IsRun
<1>5. QED
  BY <1>4 DEF Follows, Free, Working, b

LEMMA RepairedFree ==
  ASSUME ErrorAssumption, RunsByName, CallsByCaller, NEW c \in Runs, Repair(c),
         RunOk(config, raw, said, analysis[c], call[c]),
         Follows(cache, config, raw, analysis[c], call[c]),
         Free(cache, config, raw, analysis[c], call[c])
  PROVE  /\ Follows(cache, config, raw, analysis'[c], call'[c])
         /\ Free(cache, config, raw, analysis'[c], call'[c])
<1> DEFINE a == analysis[c]
           w == call[c]
<1>1. IsRun(a) /\ a.at \in Working /\ Received(c)
  BY RunHasReply DEF Repair
<1>2. w.reply \in Unparsable /\ w.reply # LlmError /\ a.reminded = FALSE
  BY <1>1 DEF Repair, ErrorAssumption, IsRun
<1>3. Replied(cache, config, raw, a, w.reply)
  BY <1>1, <1>2, ReceivedIsReplied
<1>4. call'[c] = NoCall
  BY CallersAssumption DEF Repair, Drop, CallsByCaller
<1>5. analysis'[c] = [a EXCEPT !.reminded = TRUE]
  BY DEF Repair, Become, RunsByName
<1> DEFINE b == analysis'[c]
<1> HIDE DEF a, b, w
<1>6. /\ b.at = a.at /\ b.meeting = a.meeting /\ b.findings = a.findings
      /\ b.again = a.again /\ b.ir = a.ir
  BY <1>1, <1>5 DEF b, IsRun
<1>7. Key(config, raw, b, FALSE) = Key(config, raw, a, FALSE)
  BY <1>6 DEF Key, Asked
<1>8. /\ Key(config, raw, b, FALSE) \in DOMAIN cache
      /\ cache[Key(config, raw, b, FALSE)] \in Unparsable
  BY <1>2, <1>3, <1>7 DEF Replied
<1>9. Follows(cache, config, raw, b, NoCall)
  BY <1>6, <1>8 DEF Follows, a
<1>10. Free(cache, config, raw, b, NoCall)
  BY <1>6 DEF Free, a
<1>11. QED
  BY <1>4, <1>9, <1>10 DEF b

\* The chunk that is done is settled, and its finding is the one the rows lead to.
LEMMA ExtractedFree ==
  ASSUME RunsByName, CallsByCaller, NEW c \in Runs, Extracted(c),
         RunOk(config, raw, said, analysis[c], call[c]),
         Follows(cache, config, raw, analysis[c], call[c]),
         Free(cache, config, raw, analysis[c], call[c])
  PROVE  /\ Follows(cache, config, raw, analysis'[c], call'[c])
         /\ Free(cache, config, raw, analysis'[c], call'[c])
<1> DEFINE a == analysis[c]
           w == call[c]
           m == a.meeting
           n == Len(a.findings)
           N == Len(ChunksOf(raw, m))
           fs == Append(a.findings, StampProvenance(w.reply, ChunksOf(raw, m)[n + 1]))
           at == IF Len(fs) = N THEN "synthesize" ELSE "extract"
           b == analysis'[c]
<1>1. IsRun(a) /\ a.at = "extract" /\ a.at \in Working
  BY RunHasReply DEF Extracted
<1>2. w.reply \notin Unparsable /\ Replied(cache, config, raw, a, w.reply)
  BY ReceivedIsReplied DEF Extracted
<1>3. call'[c] = NoCall
  BY CallersAssumption DEF Extracted, Drop, CallsByCaller
<1>4. b = [a EXCEPT !.findings = fs, !.reminded = FALSE, !.at = at]
  BY DEF Extracted, Become, RunsByName, Chunk, Chunks, ChunksOf
<1>5. /\ Len(fs) = n + 1 /\ n \in Nat
      /\ \A i \in 1 .. n : fs[i] = a.findings[i]
      /\ fs[n + 1] = StampProvenance(w.reply, ChunksOf(raw, m)[n + 1])
  BY <1>1, AppendIsSeq DEF IsRun, IsSeq
<1>6. /\ ChunkSettled(cache, config, raw, m, n + 1)
      /\ fs[n + 1] = Finding(cache, config, raw, m, n + 1)
  <2> DEFINE k0 == ExtractKey(config, raw, m, n + 1, FALSE)
             k1 == ExtractKey(config, raw, m, n + 1, TRUE)
  <2>1. Key(config, raw, a, FALSE) = k0 /\ Key(config, raw, a, TRUE) = k1
    BY <1>1, ExtractKeys
  <2>2. Settled(cache, k0, k1) /\ TextOf(cache, k0, k1) = w.reply
    BY <1>1, <1>2, <2>1, AcceptedSettles
  <2>3. QED
    BY <1>5, <2>2 DEF ChunkSettled, Finding
<1> HIDE DEF a, b, w, m, n, N, fs, at
<1>7. /\ b.findings = fs /\ b.reminded = FALSE /\ b.at = at /\ b.meeting = m
      /\ b.again = a.again /\ a.meeting = m
  BY <1>1, <1>4 DEF IsRun, m
<1>8. /\ at \in Working
      /\ at = "synthesize" => Len(fs) = N /\ Len(fs) # 0
      /\ at = "extract" => Len(fs) # N
  BY <1>5 DEF at, Working
<1>9. \A i \in 1 .. Len(fs) : /\ ChunkSettled(cache, config, raw, m, i)
                              /\ fs[i] = Finding(cache, config, raw, m, i)
  <2>1. SUFFICES ASSUME NEW i \in 1 .. Len(fs)
                 PROVE  /\ ChunkSettled(cache, config, raw, m, i)
                        /\ fs[i] = Finding(cache, config, raw, m, i)
    OBVIOUS
  <2>2. CASE i = n + 1
    BY <1>6, <2>2
  <2>3. CASE i # n + 1
    <3>1. i \in 1 .. n
      BY <1>5, <2>1, <2>3
    <3>2. /\ ChunkSettled(cache, config, raw, m, i)
          /\ a.findings[i] = Finding(cache, config, raw, m, i)
      BY <1>1, <1>7, <3>1 DEF Follows, a, n
    <3>3. QED
      BY <1>5, <3>1, <3>2
  <2>4. QED
    BY <2>2, <2>3
<1>10. Follows(cache, config, raw, b, NoCall)
  BY <1>7, <1>8, <1>9 DEF Follows, N
<1>11. Free(cache, config, raw, b, NoCall)
  <2> SUFFICES ASSUME a.again # {} PROVE Free(cache, config, raw, b, NoCall)
    BY <1>7 DEF Free
  <2>1. /\ Trail(cache, config, raw, m)
        /\ a.again = {IrOf(cache, config, raw, m)}
        /\ n < N
    BY <1>1, <1>7 DEF Free, a, n, N
  <2>2. N \in Nat
    BY <2>1 DEF Trail, N
  <2>3. at = "extract" => Len(fs) < N
    BY <1>5, <1>8, <2>1, <2>2
  <2>4. b.at \notin {"failed", "done"}
    BY <1>7, <1>8 DEF Working
  <2>5. QED
    BY <1>7, <2>1, <2>3, <2>4 DEF Free, N
<1>12. QED
  BY <1>3, <1>10, <1>11 DEF b

\* The IR that a run ends with is the one that the rows lead to.
LEMMA SynthesizedIr ==
  ASSUME NEW c \in Runs, Synthesized(c),
         RunOk(config, raw, said, analysis[c], call[c]),
         Follows(cache, config, raw, analysis[c], call[c])
  PROVE  LET a == analysis[c]
             ir == Reconcile(call[c].reply, FromChunks(a.findings), Segs(a.meeting))
         IN  /\ ir = IrOf(cache, config, raw, a.meeting)
             /\ Validate(ir) => Trail(cache, config, raw, a.meeting)
<1> DEFINE a == analysis[c]
           m == a.meeting
           reply == call[c].reply
           k0 == SynthesisKey(config, m, a.findings, FALSE)
           k1 == SynthesisKey(config, m, a.findings, TRUE)
<1>1. IsRun(a) /\ a.at = "synthesize" /\ a.at \in Working
  BY RunHasReply DEF Synthesized
<1>2. reply \notin Unparsable /\ Replied(cache, config, raw, a, reply)
  BY ReceivedIsReplied DEF Synthesized
<1>3. Key(config, raw, a, FALSE) = k0 /\ Key(config, raw, a, TRUE) = k1
  BY <1>1, SynthesisKeys
<1>4. Settled(cache, k0, k1) /\ TextOf(cache, k0, k1) = reply
  BY <1>1, <1>2, <1>3, AcceptedSettles
<1>5. /\ a.findings = FindingsOf(cache, config, raw, m)
      /\ Len(ChunksOf(raw, m)) \in Nat \ {0}
      /\ \A i \in 1 .. Len(ChunksOf(raw, m)) : ChunkSettled(cache, config, raw, m, i)
  BY <1>1, AllFound
<1>6. Reconcile(reply, FromChunks(a.findings), Segs(m)) = IrFrom(cache, config, raw, m, a.findings)
  BY <1>4 DEF IrFrom, Segs, SegsOf
<1>7. IrFrom(cache, config, raw, m, a.findings) = IrOf(cache, config, raw, m)
  BY <1>5 DEF IrOf
<1>8. SynthesisSettled(cache, config, m, a.findings)
  BY <1>4 DEF SynthesisSettled
<1>9. QED
  BY <1>5, <1>6, <1>7, <1>8 DEF Trail

LEMMA SynthesizedFree ==
  ASSUME RunsByName, CallsByCaller, NEW c \in Runs, Synthesized(c),
         RunOk(config, raw, said, analysis[c], call[c]),
         Follows(cache, config, raw, analysis[c], call[c]),
         Free(cache, config, raw, analysis[c], call[c])
  PROVE  /\ Follows(cache, config, raw, analysis'[c], call'[c])
         /\ Free(cache, config, raw, analysis'[c], call'[c])
<1> DEFINE a == analysis[c]
           b == analysis'[c]
           ir == Reconcile(call[c].reply, FromChunks(a.findings), Segs(a.meeting))
<1>1. IsRun(a) /\ a.at \in Working
  BY RunHasReply DEF Synthesized
<1>2. call'[c] = NoCall
  BY CallersAssumption DEF Synthesized, Drop, CallsByCaller
<1>3. ir = IrOf(cache, config, raw, a.meeting)
  BY SynthesizedIr
<1>4. b = IF Validate(ir) THEN [a EXCEPT !.at = "done", !.ir = ir]
          ELSE [a EXCEPT !.at = "failed"]
  BY DEF Synthesized, Become, RunsByName
<1> HIDE DEF a, b, ir
<1>5. /\ b.meeting = a.meeting /\ b.again = a.again /\ b.at \in {"done", "failed"}
      /\ Validate(ir) => b.at = "done" /\ b.ir = ir
  BY <1>1, <1>4 DEF IsRun
<1>6. Follows(cache, config, raw, b, NoCall)
  BY <1>5 DEF Follows, Working
<1>7. Free(cache, config, raw, b, NoCall)
  <2> SUFFICES ASSUME a.again # {} PROVE Free(cache, config, raw, b, NoCall)
    BY <1>5 DEF Free
  <2>1. /\ Trail(cache, config, raw, a.meeting)
        /\ a.again = {IrOf(cache, config, raw, a.meeting)}
    BY <1>1 DEF Free, Working, a
  <2>2. Validate(ir)
    BY <1>3, <2>1 DEF Trail
  <2>3. QED
    BY <1>3, <1>5, <2>1, <2>2 DEF Free
<1>8. QED
  BY <1>2, <1>6, <1>7 DEF b

\* A free run does not wait for the runtime; for another it answers with its row.
LEMMA AnsweredFree ==
  ASSUME CallsByCaller, ~faulty, NEW c \in Runs, Infer(c), Extends(cache, cache'),
         RunOk(config, raw, said, analysis[c], call[c]),
         Follows(cache, config, raw, analysis[c], call[c]),
         Free(cache, config, raw, analysis[c], call[c])
  PROVE  /\ Follows(cache', config, raw, analysis[c], call'[c])
         /\ Free(cache', config, raw, analysis[c], call'[c])
<1> DEFINE a == analysis[c]
           w == call[c]
           key == KeyIn(config, w.req)
<1>1. c \in DOMAIN call
  BY CallersAssumption DEF CallsByCaller
<1>2. PICK reply \in Generated(w.req) :
         /\ call'[c] = [at |-> "done", req |-> w.req, reply |-> reply]
         /\ reply # LlmError => cache' = Put(cache, key, reply)
  BY <1>1, KeysAreServed DEF Infer
<1>3. w # NoCall /\ w.at = "infer"
  BY DEF Infer
<1> DEFINE v == call'[c]
<1>4. v.req = w.req /\ v.reply = reply
  BY <1>2
<1>5. reply # LlmError => key \in DOMAIN cache' /\ cache'[key] = reply
  BY <1>2 DEF Put
<1>6. Follows(cache', config, raw, a, w)
  BY FollowsStays
<1> HIDE DEF a, v
<1>7. Follows(cache', config, raw, a, v)
  BY <1>4, <1>5, <1>6 DEF Follows
<1>8. a.at \in Working
  BY <1>3 DEF RunOk, Asks, a
<1>9. a.again = {}
  BY <1>3, <1>8 DEF Free, a, Working
<1>10. Free(cache', config, raw, a, v)
  BY <1>9 DEF Free
<1>11. QED
  BY <1>7, <1>10 DEF a, v

LEMMA KeptBySynthesis ==
  ASSUME [Next]_vars
  PROVE  /\ raw' = raw
         /\ kept' = kept \/ \E c \in Runs : Synthesized(c)
<1>1. ASSUME NEW d, NEW m, Analyze(d, m) PROVE raw' = raw /\ kept' = kept
  BY <1>1 DEF Analyze
<1>2. ASSUME NEW d, AnalysisStep(d), ~Synthesized(d) PROVE raw' = raw /\ kept' = kept
  BY <1>2 DEF AnalysisStep, Generate, GenerateFails, Repair, Extracted, analysisVars
<1>3. ASSUME NEW d, Synthesized(d) PROVE raw' = raw
  BY <1>3 DEF Synthesized
<1>4. CASE UNCHANGED <<raw, kept>>
  BY <1>4
<1>5. QED
  BY <1>1, <1>2, <1>3, <1>4
     DEF Next, BeginAnalysis, BeginRequest, EditNote, EmbedNote, RestartEngine, AnalysisLost,
         TaskStep, RuntimeStep, Analyzing, Asking, Respond, analysisVars, vars

LEMMA KeptIsTrailStep ==
  ASSUME RunsOk, RunsFree, KeptIsTrail, Extends(cache, cache'), [Next]_vars
  PROVE  KeptIsTrail'
<1>1. SUFFICES ASSUME NEW k \in kept'
               PROVE  /\ Trail(cache', k[2], raw', k[1])
                      /\ k[3] = IrOf(cache', k[2], raw', k[1])
  BY DEF KeptIsTrail
<1>2. raw' = raw
  BY KeptBySynthesis
<1>3. /\ Trail(cache, k[2], raw, k[1])
      /\ k[3] = IrOf(cache, k[2], raw, k[1])
  <2>1. CASE k \in kept
    BY <2>1 DEF KeptIsTrail
  <2>2. CASE k \notin kept
    <3>1. PICK c \in Runs : Synthesized(c)
      BY <1>1, <2>2, KeptBySynthesis
    <3> DEFINE a == analysis[c]
               ir == Reconcile(call[c].reply, FromChunks(a.findings), Segs(a.meeting))
    <3>2. Validate(ir) /\ k = <<a.meeting, config, ir>>
      BY <1>1, <2>2, <3>1 DEF Synthesized
    <3>3. /\ ir = IrOf(cache, config, raw, a.meeting)
          /\ Validate(ir) => Trail(cache, config, raw, a.meeting)
      BY <3>1, SynthesizedIr DEF RunsOk, RunsFree
    <3> HIDE DEF ir, a
    <3>4. k[1] = a.meeting /\ k[2] = config /\ k[3] = ir
      BY <3>2
    <3>5. QED
      BY <3>2, <3>3, <3>4
  <2>3. QED
    BY <2>1, <2>2
<1>4. QED
  BY <1>2, <1>3, TrailStays

LEMMA RunsFreeStep ==
  ASSUME ErrorAssumption, AnalysisInv, ~faulty, RunsFree, KeptIsTrail,
         Extends(cache, cache'), [Next]_vars
  PROVE  RunsFree'
<1>1. SUFFICES ASSUME NEW c \in Runs
               PROVE  /\ Follows(cache', config', raw', analysis'[c], call'[c])
                      /\ Free(cache', config', raw', analysis'[c], call'[c])
  BY DEF RunsFree
<1>2. /\ RunOk(config, raw, said, analysis[c], call[c])
      /\ CallsByCaller /\ RunsByName /\ NoErrorKept
  BY DEF AnalysisInv, RunsOk, LlmInv
<1>3. /\ Follows(cache, config, raw, analysis[c], call[c])
      /\ Free(cache, config, raw, analysis[c], call[c])
  BY DEF RunsFree
<1>4. /\ raw' = raw
      /\ \/ Restart /\ AnalysisLost
         \/ config' = config /\ (Aside(c) \/ Moves(c))
  BY <1>2, StepsOfARun
<1>5. CASE Restart /\ AnalysisLost
  <2>1. analysis'[c] = NoRun /\ call'[c] = NoCall
    BY <1>5, CallersAssumption DEF Restart, AnalysisLost
  <2>2. QED
    BY <2>1 DEF Follows, Free, NoRun, Working
<1>6. CASE /\ config' = config
           /\ Follows(cache, config, raw, analysis'[c], call'[c])
           /\ Free(cache, config, raw, analysis'[c], call'[c])
  BY <1>4, <1>6, FollowsStays, FreeStays
<1>7. CASE Aside(c) /\ config' = config
  BY <1>3, <1>6, <1>7 DEF Aside
<1>8. CASE Moves(c) /\ config' = config
  <2>1. CASE \E m \in Meetings : Analyze(c, m)
    BY <1>2, <1>6, <1>8, <2>1, BegunOk, BegunFree
  <2>2. CASE Generate(c)
    <3>1. analysis' = analysis
      BY <2>2 DEF Generate, analysisVars
    <3>2. QED
      BY <1>2, <1>3, <1>6, <1>8, <2>2, <3>1, LookedUpFree
  <2>3. CASE GenerateFails(c)
    BY <1>2, <1>3, <1>6, <1>8, <2>3, FailedFree
  <2>4. CASE Repair(c)
    BY <1>2, <1>3, <1>6, <1>8, <2>4, RepairedFree
  <2>5. CASE Extracted(c)
    BY <1>2, <1>3, <1>6, <1>8, <2>5, ExtractedFree
  <2>6. CASE Synthesized(c)
    BY <1>2, <1>3, <1>6, <1>8, <2>6, SynthesizedFree
  <2>7. CASE Infer(c) /\ UNCHANGED analysis
    BY <1>2, <1>3, <1>4, <1>8, <2>7, AnsweredFree
  <2>8. QED
    BY <1>8, <2>1, <2>2, <2>3, <2>4, <2>5, <2>6, <2>7 DEF Moves, AnalysisStep
<1>9. QED
  BY <1>4, <1>5, <1>7, <1>8

LEMMA RepeatInvStep ==
  ASSUME RuntimeAssumption, ErrorAssumption, AnalysisInv, RepeatInv, [Next]_vars
  PROVE  RepeatInv'
<1> SUFFICES ASSUME ~faulty', AnsweredOnce'
             PROVE  RunsFree' /\ KeptIsTrail'
  BY DEF RepeatInv
<1>1. LlmNext /\ RowsWereSaid
  BY StepsOfTheProvider DEF AnalysisInv, LlmInv
<1>2. said \subseteq said' /\ faulty' = faulty
  BY <1>1, ProviderKept DEF AnalysisInv
<1>3. ~faulty /\ AnsweredOnce
  BY <1>2 DEF AnsweredOnce
<1>4. Extends(cache, cache')
  BY <1>1, <1>3, CacheExtends
<1>5. RunsFree /\ KeptIsTrail /\ RunsOk
  BY <1>3 DEF RepeatInv, AnalysisInv
<1>6. QED
  BY <1>3, <1>4, <1>5, RunsFreeStep, KeptIsTrailStep

\* llm/cache ("re-running the exact same request ... should not pay for inference
\* twice", cache.rs:4): with a cache that works, an analysis of a meeting that was
\* analysed before, by the same configuration, never waits for the runtime, does not
\* fail, and ends with the same IR; whatever ran at the same time and however often the
\* engine was restarted since, as long as no request was answered in two ways.
THEOREM RepeatFree ==
  ASSUME RuntimeAssumption, ErrorAssumption
  PROVE  Spec => []RepeatIsFree
<1>1. Init => RepeatInv
  <2> SUFFICES ASSUME Init PROVE RunsFree /\ KeptIsTrail
    BY DEF RepeatInv
  <2>1. \A c \in Runs : analysis[c] = NoRun /\ call[c] = NoCall
    BY CallersAssumption DEF Init, AnalysisInit, LlmInit
  <2>2. RunsFree
    <3>1. SUFFICES ASSUME NEW c \in Runs
                   PROVE  /\ Follows(cache, config, raw, analysis[c], call[c])
                          /\ Free(cache, config, raw, analysis[c], call[c])
      BY DEF RunsFree
    <3>2. analysis[c].at = "idle"
      BY <2>1 DEF NoRun
    <3>3. QED
      BY <3>2 DEF Follows, Free, Working
  <2>3. QED
    BY <2>2 DEF Init, AnalysisInit, KeptIsTrail
<1>2. AnalysisInv /\ RepeatInv /\ [Next]_vars => AnalysisInv' /\ RepeatInv'
  BY AnalysisInvStep, RepeatInvStep
<1>3. AnalysisInv /\ RepeatInv => RepeatIsFree
  <2> SUFFICES ASSUME AnalysisInv, RepeatInv, NEW c \in Runs,
                      analysis[c].at \in Working \cup {"done", "failed"},
                      analysis[c].again # {}, ~faulty, AnsweredOnce
               PROVE  /\ call[c] = NoCall \/ call[c].at = "done"
                      /\ analysis[c].at # "failed"
                      /\ analysis[c].at = "done" => analysis[c].ir \in analysis[c].again
    BY DEF RepeatIsFree
  <2>1. Free(cache, config, raw, analysis[c], call[c])
    BY DEF RepeatInv, RunsFree
  <2>2. QED
    BY <2>1 DEF Free, Working
<1>4. QED
  BY <1>1, <1>2, <1>3, AnalysisInvInit, PTL DEF Spec

-----------------------------------------------------------------------------
(* What the minutes are made from *)

\* What the analysis of a meeting works on.
LEMMA MeetingPrepared ==
  ASSUME NEW rw \in Archives, NEW m \in Meetings
  PROVE  /\ IsSeq(SegsOf(rw, m)) /\ IsSeq(ChunksOf(rw, m))
         /\ \A i \in 1 .. Len(ChunksOf(rw, m)) :
              ToSet(ChunksOf(rw, m)[i].segments) \subseteq ToSet(SegsOf(rw, m))
<1>1. PreparedOf[rw[m]] = Prepare(rw[m])
  BY DEF PreparedOf
<1>2. /\ SegsOf(rw, m) = Normalize(rw[m])
      /\ ChunksOf(rw, m) = ChunkSegments(Normalize(rw[m]))
  BY <1>1 DEF SegsOf, ChunksOf, Prepare
<1>3. IsTranscript(rw[m])
  BY ArchivesAssumption
<1>4. QED
  BY <1>2, <1>3, NormalizedSegments, ChunksHoldSegments

\* domain/meeting_ir.rs: a consolidated answer that parses has the fields of MeetingIr.
IrAssumption ==
  \A req : req.pass = "synthesize" =>
    \A ir \in Replies(req) : ir \notin Unparsable => IsIr(ir)

-----------------------------------------------------------------------------
(* How far a run is and how it ended: an inductive invariant *)

\* There is no finding without a chunk.
Counts(rw, a) ==
  a.at # "idle" =>
    /\ a.meeting \in Meetings
    /\ Len(a.findings) <= Len(ChunksOf(rw, a.meeting))
    /\ a.at = "extract" => Len(a.findings) # Len(ChunksOf(rw, a.meeting))

\* The IR was reconciled from what a runtime told and the run's own findings.
Concludes(rw, sd, a) ==
  a.at = "done" =>
    \/ a.ir = EmptyIr(Notice)
    \/ \E x \in sd : /\ x[1].pass = "synthesize" /\ x[2] \notin Unparsable
                     /\ a.ir = Reconcile(x[2], FromChunks(a.findings), SegsOf(rw, a.meeting))

GroundOk(rw, sd, a) == Counts(rw, a) /\ Concludes(rw, sd, a)
GroundInv == raw \in Archives /\ \A c \in Runs : GroundOk(raw, said, analysis[c])

LEMMA ConcludesStill ==
  ASSUME NEW rw, NEW a, NEW sd, NEW sd2, sd \subseteq sd2, GroundOk(rw, sd, a)
  PROVE  GroundOk(rw, sd2, a)
BY DEF GroundOk, Concludes

LEMMA BegunGrounded ==
  ASSUME RunsByName, raw \in Archives,
         NEW c \in Runs, NEW m \in Meetings, Analyze(c, m)
  PROVE  GroundOk(raw, said, analysis'[c])
<1> DEFINE empty == Chunks(m) = <<>>
<1>1. /\ analysis'[c].at = IF empty THEN "done" ELSE "extract"
      /\ analysis'[c].meeting = m /\ analysis'[c].findings = <<>>
      /\ analysis'[c].ir = IF empty THEN EmptyIr(Notice) ELSE NoIr
  BY DEF Analyze, RunsByName
<1>2. Chunks(m) = ChunksOf(raw, m) /\ IsSeq(ChunksOf(raw, m))
  BY MeetingPrepared DEF Chunks, ChunksOf
<1>3. Len(ChunksOf(raw, m)) \in Nat /\ (~ empty => Len(ChunksOf(raw, m)) # 0)
  <2>1. ChunksOf(raw, m) \in Seq(ToSet(ChunksOf(raw, m)))
    BY <1>2, ElementsOfSeq
  <2>2. QED
    BY <1>2, <2>1
<1> HIDE DEF empty
<1>4. Counts(raw, analysis'[c])
  <2>1. Len(<<>>) = 0
    OBVIOUS
  <2>2. QED
    BY <1>1, <1>3, <2>1 DEF Counts
<1>5. Concludes(raw, said, analysis'[c])
  BY <1>1 DEF Concludes
<1>6. QED
  BY <1>4, <1>5 DEF GroundOk

LEMMA RefusedGrounded ==
  ASSUME RunsByName, NEW c \in Runs, GenerateFails(c) \/ Repair(c),
         RunOk(config, raw, said, analysis[c], call[c]), GroundOk(raw, said, analysis[c])
  PROVE  GroundOk(raw, said, analysis'[c])
<1> DEFINE a == analysis[c]
           b == analysis'[c]
<1>1. IsRun(a) /\ a.at \in Working
  BY RunHasReply DEF GenerateFails, Repair
<1>2. \/ b = [a EXCEPT !.at = "failed"]
      \/ b = [a EXCEPT !.reminded = TRUE]
  BY DEF GenerateFails, Repair, Become, RunsByName
<1> HIDE DEF a, b
<1>3. /\ b.findings = a.findings /\ b.meeting = a.meeting
      /\ b.at \in {a.at, "failed"}
  BY <1>1, <1>2 DEF IsRun
<1>4. GroundOk(raw, said, b)
  BY <1>1, <1>3 DEF a, GroundOk, Counts, Concludes, Working
<1>5. QED
  BY <1>4 DEF b

LEMMA ExtractedGrounded ==
  ASSUME RunsByName, raw \in Archives, NEW c \in Runs, Extracted(c),
         RunOk(config, raw, said, analysis[c], call[c]), GroundOk(raw, said, analysis[c])
  PROVE  GroundOk(raw, said, analysis'[c])
<1> DEFINE a == analysis[c]
           b == analysis'[c]
           n == Len(a.findings)
           total == Len(ChunksOf(raw, a.meeting))
           fs == Append(a.findings, StampProvenance(call[c].reply, Chunk(a)))
<1>1. IsRun(a) /\ a.at = "extract"
  BY RunHasReply DEF Extracted
<1>2. b = [a EXCEPT !.findings = fs, !.reminded = FALSE,
                    !.at = IF Len(fs) = total THEN "synthesize" ELSE "extract"]
  BY DEF Extracted, Become, RunsByName, Chunks, ChunksOf
<1>3. a.meeting \in Meetings /\ n <= total /\ n # total
  BY <1>1 DEF GroundOk, Counts
<1>4. n \in Nat /\ total \in Nat
  BY <1>1, <1>3, MeetingPrepared DEF IsRun, IsSeq
<1>5. Len(fs) = n + 1
  BY <1>1, AppendIsSeq DEF IsRun
<1> HIDE DEF a, b, fs, total, n
<1>6. /\ b.findings = fs /\ b.meeting = a.meeting
      /\ b.at = IF Len(fs) = total THEN "synthesize" ELSE "extract"
  BY <1>1, <1>2 DEF IsRun
<1>7. Counts(raw, b)
  BY <1>3, <1>4, <1>5, <1>6 DEF Counts, total
<1>8. Concludes(raw, said, b)
  BY <1>6 DEF Concludes
<1>9. QED
  BY <1>7, <1>8 DEF GroundOk, b

LEMMA SynthesizedGrounded ==
  ASSUME RunsByName, NEW c \in Runs, Synthesized(c),
         RunOk(config, raw, said, analysis[c], call[c]), GroundOk(raw, said, analysis[c])
  PROVE  GroundOk(raw, said, analysis'[c])
<1> DEFINE a == analysis[c]
           b == analysis'[c]
           w == call[c]
           ir == Reconcile(w.reply, FromChunks(a.findings), SegsOf(raw, a.meeting))
           x == <<KeyIn(config, w.req), w.reply>>
<1>1. /\ IsRun(a) /\ a.at = "synthesize"
      /\ w.reply \notin Unparsable /\ w.reply # LlmError
      /\ w.req = Asked(config, raw, a, a.reminded) /\ x \in said
  BY RunHasReply DEF Synthesized
<1>2. x[1].pass = "synthesize" /\ x[2] = w.reply
  BY <1>1 DEF Asked, KeyIn
<1>3. \/ b = [a EXCEPT !.at = "done", !.ir = ir]
      \/ b = [a EXCEPT !.at = "failed"]
  BY DEF Synthesized, Become, RunsByName, Segs, SegsOf
<1> HIDE DEF a, b, ir, x, w
<1>4. /\ b.findings = a.findings /\ b.meeting = a.meeting
      /\ \/ b.at = "done" /\ b.ir = ir
         \/ b.at = "failed"
  BY <1>1, <1>3 DEF IsRun
<1>5. Counts(raw, b)
  BY <1>1, <1>4 DEF a, GroundOk, Counts
<1>6. Concludes(raw, said, b)
  BY <1>1, <1>2, <1>4 DEF Concludes, ir
<1>7. QED
  BY <1>5, <1>6 DEF GroundOk, b

LEMMA GroundInvInit == Init => GroundInv
<1> SUFFICES ASSUME Init PROVE GroundInv
  OBVIOUS
<1>1. raw \in Archives /\ \A c \in Runs : analysis[c] = NoRun
  BY DEF Init, AnalysisInit
<1>2. QED
  BY <1>1 DEF GroundInv, GroundOk, Counts, Concludes, NoRun

LEMMA GroundInvStep ==
  ASSUME AnalysisInv, GroundInv, [Next]_vars
  PROVE  GroundInv'
<1>1. LlmNext /\ CallsByCaller /\ RunsByName
  BY StepsOfTheProvider DEF AnalysisInv, LlmInv
<1>2. said \subseteq said'
  BY <1>1, ProviderKept DEF AnalysisInv
<1>3. ASSUME NEW c \in Runs
      PROVE  raw' = raw /\ GroundOk(raw, said', analysis'[c])
  <2>1. /\ RunOk(config, raw, said, analysis[c], call[c])
        /\ GroundOk(raw, said, analysis[c]) /\ raw \in Archives
    BY DEF AnalysisInv, RunsOk, GroundInv
  <2>2. /\ raw' = raw
        /\ \/ Restart /\ AnalysisLost
           \/ config' = config /\ (Aside(c) \/ Moves(c))
    BY <1>1, StepsOfARun
  <2>3. CASE Restart /\ AnalysisLost
    <3>1. analysis'[c] = NoRun
      BY <2>3 DEF AnalysisLost
    <3>2. QED
      BY <2>2, <3>1 DEF GroundOk, Counts, Concludes, NoRun
  <2>4. CASE GroundOk(raw, said, analysis'[c])
    BY <1>2, <2>2, <2>4, ConcludesStill
  <2>5. CASE Aside(c)
    BY <2>1, <2>4, <2>5 DEF Aside
  <2>6. CASE Moves(c)
    <3>1. CASE \E m \in Meetings : Analyze(c, m)
      BY <1>1, <2>1, <2>4, <3>1, BegunGrounded
    <3>2. CASE Generate(c)
      BY <2>1, <2>4, <3>2 DEF Generate, analysisVars
    <3>3. CASE GenerateFails(c) \/ Repair(c)
      BY <1>1, <2>1, <2>4, <3>3, RefusedGrounded
    <3>4. CASE Extracted(c)
      BY <1>1, <2>1, <2>4, <3>4, ExtractedGrounded
    <3>5. CASE Synthesized(c)
      BY <1>1, <2>1, <2>4, <3>5, SynthesizedGrounded
    <3>6. CASE Infer(c) /\ UNCHANGED analysis
      BY <2>1, <2>4, <3>6
    <3>7. QED
      BY <2>6, <3>1, <3>2, <3>3, <3>4, <3>5, <3>6 DEF Moves, AnalysisStep
  <2>7. QED
    BY <2>2, <2>3, <2>5, <2>6
<1>4. raw' = raw
  BY DEF Next, BeginAnalysis, BeginRequest, EditNote, EmbedNote, RestartEngine, TaskStep,
         RuntimeStep, Analyzing, Asking, Respond, Analyze, AnalysisStep, Generate,
         GenerateFails, Repair, Extracted, Synthesized, AnalysisLost, analysisVars, vars
<1>5. QED
  BY <1>3, <1>4 DEF GroundInv

-----------------------------------------------------------------------------
(* Minutes *)

\* What holds of the minutes of a run that ended with such an answer.
LEMMA MinutesOfARun ==
  ASSUME FormAssumption, IrAssumption, AnalysisInv, GroundInv,
         NEW c \in Runs, analysis[c].at = "done", analysis[c].ir # EmptyIr(Notice)
  PROVE  LET a == analysis[c]
             merged == FromChunks(a.findings)
             segs == SegsOf(raw, a.meeting)
         IN  /\ HasEvidence(merged.claims) /\ HasEvidence(merged.actions)
             /\ \E ir : IsIr(ir) /\ a.ir = Reconcile(ir, merged, segs)
             /\ EvidenceIn(merged.claims) \cup EvidenceIn(merged.actions) = AllEvidence(merged)
             /\ \A e \in AllEvidence(merged) :
                  \/ e.speaker = NoSpeaker
                  \/ \E s \in ToSet(segs) : e.speaker = s.speaker
                  \/ \E g \in Told : g.quote = e.quote /\ g.speaker = e.speaker
             /\ IsSeq(segs)
<1> DEFINE a == analysis[c]
           merged == FromChunks(a.findings)
           segs == SegsOf(raw, a.meeting)
           n == Len(a.findings)
<1>1. /\ RunOk(config, raw, said, a, call[c]) /\ a # NoRun
      /\ GroundOk(raw, said, a) /\ raw \in Archives
  BY DEF AnalysisInv, RunsOk, GroundInv, NoRun
<1>2. /\ IsSeq(a.findings) /\ n \in Nat
      /\ \A i \in 1 .. n : Heard(said, a.findings[i], ChunksOf(raw, a.meeting)[i])
  BY <1>1 DEF RunOk, IsRun, IsSeq, Hears
<1>3. /\ a.meeting \in Meetings /\ n <= Len(ChunksOf(raw, a.meeting))
      /\ \E x \in said : /\ x[1].pass = "synthesize" /\ x[2] \notin Unparsable
                         /\ a.ir = Reconcile(x[2], merged, segs)
  BY <1>1 DEF GroundOk, Counts, Concludes
<1>4. \E ir : IsIr(ir) /\ a.ir = Reconcile(ir, merged, segs)
  <2>1. PICK x \in said : /\ x[1].pass = "synthesize" /\ x[2] \notin Unparsable
                          /\ a.ir = Reconcile(x[2], merged, segs)
    BY <1>3
  <2>2. x[2] \in Replies(x[1])
    BY <2>1 DEF AnalysisInv, SaidByRuntimes, Unparsable
  <2>3. QED
    BY <2>1, <2>2 DEF IrAssumption
<1>5. /\ IsSeq(segs) /\ Len(ChunksOf(raw, a.meeting)) \in Nat
      /\ \A i \in 1 .. n : ToSet(ChunksOf(raw, a.meeting)[i].segments) \subseteq ToSet(segs)
  <2>1. /\ IsSeq(segs) /\ IsSeq(ChunksOf(raw, a.meeting))
        /\ \A i \in 1 .. Len(ChunksOf(raw, a.meeting)) :
             ToSet(ChunksOf(raw, a.meeting)[i].segments) \subseteq ToSet(segs)
    BY <1>1, <1>3, MeetingPrepared
  <2>2. Len(ChunksOf(raw, a.meeting)) \in Nat
    BY <2>1 DEF IsSeq
  <2>3. \A i \in 1 .. n : i \in 1 .. Len(ChunksOf(raw, a.meeting))
    BY <1>2, <1>3, <2>2
  <2>4. QED
    BY <2>1, <2>2, <2>3
<1>6. ASSUME NEW i \in 1 .. n
      PROVE  \E f : /\ IsItems(f.claims) /\ IsItems(f.actions)
                    /\ a.findings[i] = StampProvenance(f, ChunksOf(raw, a.meeting)[i])
                    /\ AllEvidence(f) \subseteq Told
  <2>1. PICK x \in said :
           /\ x[1].pass = "extract" /\ x[2] \notin Unparsable
           /\ a.findings[i] = StampProvenance(x[2], ChunksOf(raw, a.meeting)[i])
    BY <1>2 DEF Heard
  <2>2. x[2] \in Replies(x[1])
    BY <2>1 DEF AnalysisInv, SaidByRuntimes, Unparsable
  <2>3. IsItems(x[2].claims) /\ IsItems(x[2].actions)
    BY <2>1, <2>2 DEF FormAssumption
  <2>4. AllEvidence(x[2]) \subseteq Told
    BY <2>1 DEF Told
  <2>5. QED
    BY <2>1, <2>3, <2>4
<1> HIDE DEF a, n, segs, merged
<1>7. \A i \in 1 .. n : HasEvidence(a.findings[i].claims) /\ HasEvidence(a.findings[i].actions)
  BY <1>6, StampedHasEvidence
<1>8. /\ HasEvidence(merged.claims) /\ HasEvidence(merged.actions)
      /\ AllEvidence(merged) = EvidenceIn(merged.claims) \cup EvidenceIn(merged.actions)
      /\ \A e \in AllEvidence(merged) : \E i \in 1 .. n : e \in AllEvidence(a.findings[i])
  BY <1>2, <1>7, MergedEvidence DEF n, merged
<1>9. ASSUME NEW e \in AllEvidence(merged)
      PROVE  \/ e.speaker = NoSpeaker
             \/ \E s \in ToSet(segs) : e.speaker = s.speaker
             \/ \E g \in Told : g.quote = e.quote /\ g.speaker = e.speaker
  <2>1. PICK i \in 1 .. n : e \in AllEvidence(a.findings[i])
    BY <1>8
  <2>2. PICK f : /\ IsItems(f.claims) /\ IsItems(f.actions)
                 /\ a.findings[i] = StampProvenance(f, ChunksOf(raw, a.meeting)[i])
                 /\ AllEvidence(f) \subseteq Told
    BY <1>6
  <2>3. Own(e, ChunksOf(raw, a.meeting)[i], AllEvidence(f))
    BY <2>1, <2>2, StampedIsOwn
  <2>4. QED
    BY <1>5, <2>2, <2>3 DEF Own
<1>10. QED
  BY <1>4, <1>5, <1>8, <1>9 DEF a, merged, segs

\* MinutesAreGrounded, for every transcript, every answer of the models and every
\* relation of words: guard_field gives an action item only to an owner that a
\* finding about this action states or whose name occurs in the transcript, if only
\* inside a word, and attach leaves an item that a finding supports with evidence of
\* this run's findings only, by participants unless the model named them.
THEOREM MinutesGrounded ==
  ASSUME RuntimeAssumption, FormAssumption, IrAssumption
  PROVE  Spec => []MinutesAreGrounded
<1>1. AnalysisInv /\ GroundInv /\ [Next]_vars => AnalysisInv' /\ GroundInv'
  BY AnalysisInvStep, GroundInvStep
<1>2. AnalysisInv /\ GroundInv => MinutesAreGrounded
  <2> SUFFICES ASSUME AnalysisInv, GroundInv, NEW c \in Runs, analysis[c].at = "done",
                      analysis[c].ir # EmptyIr(Notice)
               PROVE  LET a == analysis[c]
                          merged == FromChunks(a.findings)
                          minutes == Minutes(a.ir)
                          Supported(item, found) ==
                            SimilarTo(item, found) # <<>> =>
                              \A e \in ToSet(item.evidence) :
                                /\ e \in AllEvidence(merged)
                                /\ \/ e.speaker \in {NoSpeaker} \cup minutes.people
                                   \/ \E g \in Told : g.quote = e.quote /\ g.speaker = e.speaker
                      IN  /\ \A row \in minutes.actions :
                               \/ row[2] = NoOwner
                               \/ Occurs(row[2], Segs(a.meeting))
                               \/ \E f \in ToSet(merged.actions) :
                                    f.owner = row[2] /\ Similar(row[1], f.text)
                          /\ \A item \in ToSet(a.ir.claims) : Supported(item, merged.claims)
                          /\ \A item \in ToSet(a.ir.actions) : Supported(item, merged.actions)
    BY DEF MinutesAreGrounded
  <2> DEFINE a == analysis[c]
             merged == FromChunks(a.findings)
             minutes == Minutes(a.ir)
             segs == SegsOf(raw, a.meeting)
             Supported(item, found) ==
               SimilarTo(item, found) # <<>> =>
                 \A e \in ToSet(item.evidence) :
                   /\ e \in AllEvidence(merged)
                   /\ \/ e.speaker \in {NoSpeaker} \cup minutes.people
                      \/ \E g \in Told : g.quote = e.quote /\ g.speaker = e.speaker
  <2>1. /\ HasEvidence(merged.claims) /\ HasEvidence(merged.actions)
        /\ \E ir : IsIr(ir) /\ a.ir = Reconcile(ir, merged, segs)
        /\ EvidenceIn(merged.claims) \cup EvidenceIn(merged.actions) = AllEvidence(merged)
        /\ \A e \in AllEvidence(merged) :
             \/ e.speaker = NoSpeaker
             \/ \E s \in ToSet(segs) : e.speaker = s.speaker
             \/ \E g \in Told : g.quote = e.quote /\ g.speaker = e.speaker
        /\ IsSeq(segs)
    BY MinutesOfARun
  <2>2. PICK ir : IsIr(ir) /\ a.ir = Reconcile(ir, merged, segs)
    BY <2>1
  <2>3. Segs(a.meeting) = segs
    BY DEF Segs, SegsOf
  <2>4. /\ minutes.people = ToSet(a.ir.participants)
        /\ \A row \in minutes.actions : \E item \in ToSet(a.ir.actions) :
             row[1] = item.text /\ row[2] = item.owner
    BY DEF Minutes
  <2> HIDE DEF a, merged, minutes, segs
  <2>5. /\ \A item \in ToSet(a.ir.claims) : \E o :
             /\ item.text = o.text
             /\ item.evidence = Attach(o.evidence, MatchedEvidence(o, merged.claims))
        /\ \A item \in ToSet(a.ir.actions) : \E o :
             /\ item.text = o.text
             /\ item.evidence = Attach(o.evidence, MatchedEvidence(o, merged.actions))
             /\ item.owner = ResolveOwner(o, SimilarTo(o, merged.actions), segs)
        /\ a.ir.participants = People(ir.participants, SpeakerIds(segs))
    BY <2>2, ReconciledItems
  <2>6. \A s \in ToSet(segs) : s.speaker \in {NoSpeaker} \cup minutes.people
    <3>1. IsSeq(SpeakerIds(segs))
      BY <2>1, SpeakersListed
    <3>2. \A s \in ToSet(segs) : s.speaker \in {NoSpeaker} \cup ToSet(SpeakerIds(segs))
      BY <2>1, SpeakersListed
    <3>3. ToSet(SpeakerIds(segs)) \subseteq minutes.people
      BY <2>2, <2>4, <2>5, <3>1, SpeakersJoin DEF IsIr
    <3>4. QED
      BY <3>2, <3>3
  <2>7. ASSUME NEW row \in minutes.actions
        PROVE  \/ row[2] = NoOwner
               \/ Occurs(row[2], segs)
               \/ \E f \in ToSet(merged.actions) :
                    f.owner = row[2] /\ Similar(row[1], f.text)
    <3>1. PICK o : /\ row[1] = o.text
                   /\ row[2] = ResolveOwner(o, SimilarTo(o, merged.actions), segs)
      BY <2>4, <2>5
    <3>2. QED
      BY <2>1, <3>1, OwnerIsKnown DEF HasEvidence
  <2>8. ASSUME NEW found, HasEvidence(found), EvidenceIn(found) \subseteq AllEvidence(merged),
               NEW item, NEW o, item.text = o.text,
               item.evidence = Attach(o.evidence, MatchedEvidence(o, found)),
               SimilarTo(item, found) # <<>>, NEW e \in ToSet(item.evidence)
        PROVE  /\ e \in AllEvidence(merged)
               /\ \/ e.speaker \in {NoSpeaker} \cup minutes.people
                  \/ \E g \in Told : g.quote = e.quote /\ g.speaker = e.speaker
    <3>1. SimilarTo(o, found) # <<>>
      BY <2>8, SimilarByText
    <3>2. ToSet(item.evidence) \subseteq EvidenceIn(found)
      BY <2>8, <3>1, AttachedEvidence
    <3>3. e \in AllEvidence(merged)
      BY <2>8, <3>2
    <3>4. QED
      BY <2>1, <2>6, <3>3
  <2>9. \A item \in ToSet(a.ir.claims) : Supported(item, merged.claims)
    <3>1. EvidenceIn(merged.claims) \subseteq AllEvidence(merged)
      BY <2>1
    <3>2. QED
      BY <2>1, <2>5, <2>8, <3>1
  <2>10. \A item \in ToSet(a.ir.actions) : Supported(item, merged.actions)
    <3>1. EvidenceIn(merged.actions) \subseteq AllEvidence(merged)
      BY <2>1
    <3>2. QED
      BY <2>1, <2>5, <2>8, <3>1
  <2>11. QED
    BY <2>3, <2>7, <2>9, <2>10 DEF a, merged, minutes, segs
<1>3. QED
  BY <1>1, <1>2, AnalysisInvInit, GroundInvInit, PTL DEF Spec

-----------------------------------------------------------------------------
(* The chunks of a transcript *)

\* preprocess: what Prepare makes of a transcript of any length.
LEMMA TranscriptPartitioned ==
  ASSUME NEW t, IsTranscript(t)
  PROVE  Partitioned(t)
<1> DEFINE chunks == Prepare(t).chunks
           order == Ordered(WithWords(t), Precedes(t))
           all == FlattenSeq([i \in DOMAIN chunks |-> chunks[i].segments])
<1>1. chunks = ChunkSegments(Normalize(t)) /\ Prepare(t).normalized = Normalize(t)
  BY DEF Prepare
<1>2. /\ Normalize(t) \in Seq(ToSet(Normalize(t))) /\ Worded(Normalize(t))
      /\ \A k \in 1 .. Len(Normalize(t)) :
           0 <= Normalize(t)[k].start /\ Normalize(t)[k].start <= Normalize(t)[k].end
  BY NormalizedWords
<1>3. all = Normalize(t) /\ \A i \in DOMAIN chunks : ChunkFits(chunks, i)
  BY <1>1, <1>2, ChunksOfSegments
<1>4. Normalize(t) = [k \in DOMAIN order |-> Cleaned(t[order[k]])]
  BY NormalizedOrder
<1>5. \A i \in DOMAIN Normalize(t) :
        0 <= Normalize(t)[i].start /\ Normalize(t)[i].start <= Normalize(t)[i].end
  <2>1. DOMAIN Normalize(t) = 1 .. Len(Normalize(t))
    BY <1>2
  <2>2. QED
    BY <1>2, <2>1
<1> DEFINE spoken == {i \in DOMAIN t : ToSet(t[i].text) \ {Gap} # {}}
           Earlier(i, j) == LET x == Cleaned(t[i]).start  y == Cleaned(t[j]).start
                            IN  x < y \/ (x = y /\ i < j)
           listed == Ordered(spoken, {p \in spoken \X spoken : Earlier(p[1], p[2])})
<1>6. listed = order
  BY Zenon DEF WithWords, Precedes
<1>7. \A i \in DOMAIN chunks :
        LET segs == chunks[i].segments
            size == FoldLeft(LAMBDA n, s : n + SegLen(s), 0, segs)
        IN  /\ segs # <<>>
            /\ size <= MaxChars \/ Len(segs) = 1
            /\ i < Len(chunks) => size + SegLen(chunks[i + 1].segments[1]) > MaxChars
  <2> HIDE DEF chunks
  <2>1. QED
    BY <1>3, Zenon DEF ChunkFits, SegLens
<1>8. /\ all = Prepare(t).normalized
      /\ all = [k \in DOMAIN listed |-> Cleaned(t[listed[k]])]
      /\ \A i \in DOMAIN all : 0 <= all[i].start /\ all[i].start <= all[i].end
  <2> HIDE DEF all, listed, order
  <2>1. QED
    BY <1>1, <1>3, <1>4, <1>5, <1>6
<1>9. QED
  BY <1>7, <1>8, Zenon DEF Partitioned

\* ChunksPartition: the chunks of a transcript of any length, whatever the budget, hold
\* every cleaned segment with words once and in order, and are as long as they may be.
THEOREM TranscriptsPartitioned == Spec => []ChunksPartition
<1>1. ChunksPartition
  BY TranscriptsAssumption, TranscriptPartitioned DEF ChunksPartition
<1>2. QED
  BY <1>1, PTL
==============================================================================
