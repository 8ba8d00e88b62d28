----------------------------- MODULE EngineConfig -----------------------------
(* config.rs: the configuration the engine reads from its environment, as far *)
(* as it decides which model answers.                                         *)

CONSTANTS Unset,          \* a variable that is not set, a route not configured
          DefaultModel    \* DEFAULT_LLM_MODEL

\* LlmProviderKind::parse: the spellings of a runtime, by runtime.
Spellings == [ollama |-> {"ollama"}, mlx |-> {"mlx", "mlx-lm", "mlx_lm"}]

\* NOTELY_LLM_PROVIDER; anything else keeps the default.
Provider(value) == IF value \in Spellings.mlx THEN "mlx" ELSE "ollama"

OrElse(value, default) == IF value # Unset THEN value ELSE default

\* Config::from_env: NOTELY_LLM_MODEL, or its legacy alias, seeds both runtimes;
\* NOTELY_MLX_MODEL overrides it for MLX; the routes have no default.
FromEnv(env) ==
  LET shared == OrElse(OrElse(env.LLM_MODEL, env.OLLAMA_MODEL), DefaultModel)
  IN  [provider |-> Provider(env.LLM_PROVIDER),
       ollama |-> shared, mlx |-> OrElse(env.MLX_MODEL, shared),
       extraction |-> env.EXTRACTION, synthesis |-> env.SYNTHESIS,
       qa |-> env.QA, embedding |-> env.EMBEDDING]

\* The default model of the selected runtime.
ActiveModel(config) == IF config.provider = "mlx" THEN config.mlx ELSE config.ollama
=============================================================================
