------------------------------ MODULE LlmService ------------------------------
(* What a caller of the engine's LlmProvider may rely on: every generation it *)
(* asks for ends in an error or in a text that the runtime has produced for   *)
(* exactly that request and that model, now or before.                        *)
EXTENDS EngineConfig

CONSTANTS Callers,        \* the pipeline's runs and the questions being answered
          Envs,           \* the environments the engine is started with
          Texts,          \* what a runtime may answer
          LlmError, NoCall

VARIABLES config,   \* the configuration of the running engine
          said,     \* <<request, text>> of all the runtime's answers
          call      \* per caller: NoCall, or the generation it waits for

vars == <<config, said, call>>

\* The request with the model that serves it.
Served(req) == [req EXCEPT !.model = OrElse(@, ActiveModel(config))]

Waiting(req) == [at |-> "infer", req |-> req]
Returned(req, reply) == [at |-> "done", req |-> req, reply |-> reply]

Init == /\ \E env \in Envs : config = FromEnv(env)
        /\ said = {}
        /\ call = [c \in Callers |-> NoCall]

\* The caller waits for the runtime, or is served an earlier answer.
Ask(c) ==
  /\ call[c] = NoCall /\ call'[c] # NoCall
  /\ \E req \in {call'[c].req} :
       \/ call' = [call EXCEPT ![c] = Waiting(req)]
       \/ \E t \in Texts : /\ <<Served(req), t>> \in said
                           /\ call' = [call EXCEPT ![c] = Returned(req, t)]
  /\ UNCHANGED <<config, said>>

Answer(c) ==
  /\ call[c] # NoCall /\ call[c].at = "infer"
  /\ \/ \E t \in Texts :
          /\ said' = said \cup {<<Served(call[c].req), t>>}
          /\ call' = [call EXCEPT ![c] = Returned(@.req, t)]
     \/ /\ call' = [call EXCEPT ![c] = Returned(@.req, LlmError)]
        /\ UNCHANGED said
  /\ UNCHANGED config

\* The caller takes the reply.
Take(c) ==
  /\ call[c] # NoCall /\ call[c].at = "done"
  /\ call' = [call EXCEPT ![c] = NoCall]
  /\ UNCHANGED <<config, said>>

\* The engine stops and starts again, perhaps with another environment.
Restart ==
  /\ \E env \in Envs : config' = FromEnv(env)
  /\ call' = [c \in Callers |-> NoCall]
  /\ UNCHANGED said

Next == \/ \E c \in Callers : Ask(c) \/ Answer(c) \/ Take(c)
        \/ Restart

Spec == Init /\ [][Next]_vars
=============================================================================
