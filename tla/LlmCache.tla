------------------------------- MODULE LlmCache -------------------------------
(* llm/: the model runtimes behind LlmProvider and the result cache in front  *)
(* of them.  A request is a record with a field model; its other fields stand *)
(* for the prompt, the schema and the parameters.  A call takes two steps: it *)
(* is looked up in the cache, and on a miss the runtime is asked; the row is  *)
(* written in the step in which the answer arrives, before the caller sees it.*)
EXTENDS EngineConfig

CONSTANTS Callers,        \* the pipeline's runs and the questions being answered
          Envs,           \* the environments the engine is started with
          Texts,          \* what a runtime may answer
          Replies(_),     \* the texts it may answer to a request
          Blank,          \* the empty text
          LlmError, NoCall

ASSUME BlankAssumption == Blank \in Texts

VARIABLES config,   \* Config, with the providers built from it
          cache,    \* llm_cache.db: the response of each key
          said,     \* every <<request, text>> a runtime has answered (history)
          call,     \* per caller: NoCall, or the generation in progress
          faulty    \* whether the statements of the databases may fail

llmVars == <<config, cache, said, call, faulty>>

Service == INSTANCE LlmService

NoRows == [k \in {} |-> Blank]

\* put: the row of the key is inserted, or replaced.
Put(rows, key, text) ==
  [k \in DOMAIN rows \cup {key} |-> IF k = key THEN text ELSE rows[k]]

\* Mutant of CacheKey: the default model is not part of the key.
CacheKeyUnresolved(req) == req

\* cache_key: the request with the model resolved against the default that the
\* cache was built with.
CacheKey(req) == [req EXCEPT !.model = OrElse(@, ActiveModel(config))]

\* model_for: the request with the model that serves it.
OllamaServes(req) == [req EXCEPT !.model = OrElse(@, config.ollama)]
MlxServes(req) == [req EXCEPT !.model = OrElse(@, config.mlx)]
Served(req) == IF config.provider = "mlx" THEN MlxServes(req) ELSE OllamaServes(req)

\* What comes of asking a runtime.  One that cannot be reached, an error status, a
\* body that is not the expected JSON and one that reports an error all fail; a
\* body without the text is taken for the empty one.
OllamaGenerate(req) == {LlmError, Blank} \cup Replies(OllamaServes(req))
MlxGenerate(req) == {LlmError, Blank} \cup Replies(MlxServes(req))
Generated(req) == IF config.provider = "mlx" THEN MlxGenerate(req) ELSE OllamaGenerate(req)

\* embed: a vector of the text, by a runtime that embeds; MLX does not.
Embedding(text) ==
  {LlmError} \cup {[model |-> config.embedding, text |-> t] :
                     t \in IF config.provider = "ollama" THEN {text} ELSE {}}

LlmInit == /\ \E env \in Envs : config = FromEnv(env)
           /\ cache = NoRows
           /\ said = {}
           /\ call = [c \in Callers |-> NoCall]
           /\ faulty \in BOOLEAN

\* CachingLlmProvider::generate up to its await; a failing read is a miss.
Lookup(c, req) ==
  /\ call[c] = NoCall
  /\ \/ /\ CacheKey(req) \in DOMAIN cache
        /\ call' = [call EXCEPT ![c] = [at |-> "done", req |-> req,
                                        reply |-> cache[CacheKey(req)]]]
     \/ /\ CacheKey(req) \notin DOMAIN cache \/ faulty
        /\ call' = [call EXCEPT ![c] = [at |-> "infer", req |-> req]]
  /\ UNCHANGED <<config, cache, said, faulty>>

\* The runtime answers.  Only a text is put into the cache, in place of the one
\* a concurrent miss has put there.
Infer(c) ==
  /\ call[c] # NoCall /\ call[c].at = "infer"
  /\ \E reply \in Generated(call[c].req) :
       LET req == call[c].req
       IN  /\ call' = [call EXCEPT ![c] = [at |-> "done", req |-> req,
                                           reply |-> reply]]
           /\ IF reply = LlmError THEN UNCHANGED <<cache, said>>
              ELSE /\ said' = said \cup {<<Served(req), reply>>}
                   /\ \/ cache' = Put(cache, CacheKey(req), reply)
                      \/ faulty /\ UNCHANGED cache
  /\ UNCHANGED <<config, faulty>>

\* The caller has its reply.
Received(c) == call[c] # NoCall /\ call[c].at = "done"
Drop(c) == call' = [call EXCEPT ![c] = NoCall]

\* Mutant of Restart: the cache is lost with the process.
RestartCold == /\ \E env \in Envs : config' = FromEnv(env)
               /\ call' = [c \in Callers |-> NoCall]
               /\ cache' = NoRows
               /\ UNCHANGED <<said, faulty>>

\* The process stops, perhaps in the middle of calls, and starts again.
Restart ==
  /\ \E env \in Envs : config' = FromEnv(env)
  /\ call' = [c \in Callers |-> NoCall]
  /\ UNCHANGED <<cache, said, faulty>>
=============================================================================
