------------------------------- MODULE Analysis -------------------------------
(* ai/mod.rs: the two-pass analysis of a transcript, one generation per chunk *)
(* and one over all the findings, each repaired once when its text does not   *)
(* parse.  Runs share the result cache, with each other and with Ask.         *)
EXTENDS LlmCache, Synthesis

CONSTANTS Runs,           \* concurrent analyses, among the Callers
          Meetings,
          TitleOf,        \* the title of each meeting, part of its prompts
          Archives,       \* the raw transcripts the meetings may have, by meeting
          NoIr,
          Notice          \* the fixed summary of an empty transcript

ASSUME ArchivesAssumption ==
         \A archive \in Archives, m \in Meetings : IsTranscript(archive[m])

VARIABLES raw,        \* the stored transcript of each meeting
          analysis,   \* per run: what it works on and how far it is
          kept        \* <<meeting, config, ir>> of the successful runs (history)

analysisVars == <<raw, analysis, kept>>

PreparedOf == [t \in {archive[m] : archive \in Archives, m \in Meetings} |->
                 Prepare(t)]
Segs(m) == PreparedOf[raw[m]].normalized
Chunks(m) == PreparedOf[raw[m]].chunks

NoRun == [at |-> "idle"]
Working == {"extract", "synthesize"}
Unparsable == {Malformed, Blank}

AnalysisInit == /\ raw \in Archives
                /\ analysis = [c \in Runs |-> NoRun]
                /\ kept = {}

\* The chunk that an extracting run is at.
Chunk(a) == Chunks(a.meeting)[Len(a.findings) + 1]

\* extraction::build_request, with the reminder of the repair; the chunk's text
\* carries no times.
ExtractionRequest(a) ==
  [pass |-> "extract", model |-> config.extraction, title |-> TitleOf[a.meeting],
   id |-> Chunk(a).id, prompt |-> PromptText(Chunk(a)), reminded |-> a.reminded]

\* synthesis::build_request: the prompt is the merged findings, with their times.
SynthesisRequest(a) ==
  [pass |-> "synthesize", model |-> config.synthesis, title |-> TitleOf[a.meeting],
   findings |-> FromChunks(a.findings), reminded |-> a.reminded]

Request(a) == IF a.at = "extract" THEN ExtractionRequest(a) ELSE SynthesisRequest(a)

\* analyze: prepare the transcript; without a word in it, end without the model.
Analyze(c, m) ==
  /\ analysis[c].at \notin Working
  /\ LET ir == EmptyIr(Notice)
         empty == Chunks(m) = <<>>
     IN  analysis' = [analysis EXCEPT ![c] =
           [at |-> IF empty THEN "done" ELSE "extract", meeting |-> m,
            findings |-> <<>>, reminded |-> FALSE, ir |-> IF empty THEN ir ELSE NoIr,
            again |-> {k[3] : k \in {k \in kept : k[1] = m /\ k[2] = config}}]]
  /\ UNCHANGED <<raw, kept, llmVars>>

Generate(c) ==
  /\ analysis[c].at \in Working
  /\ Lookup(c, Request(analysis[c]))
  /\ UNCHANGED analysisVars

Become(c, a) == analysis' = [analysis EXCEPT ![c] = a]

\* The runtime failed, or the repaired text does not parse either.
GenerateFails(c) ==
  /\ Received(c) /\ Drop(c)
  /\ \/ call[c].reply = LlmError
     \/ call[c].reply \in Unparsable /\ analysis[c].reminded
  /\ Become(c, [analysis[c] EXCEPT !.at = "failed"])
  /\ UNCHANGED <<config, cache, said, faulty, raw, kept>>

\* Mutant of Repair: the reminder is forgotten.
RepairAgain(c) == /\ Received(c) /\ Drop(c)
                  /\ call[c].reply \in Unparsable /\ ~analysis[c].reminded
                  /\ UNCHANGED <<config, cache, said, faulty, raw, kept, analysis>>

\* generate_parsed: ask once more, with the reminder.
Repair(c) ==
  /\ Received(c) /\ Drop(c)
  /\ call[c].reply \in Unparsable /\ ~analysis[c].reminded
  /\ Become(c, [analysis[c] EXCEPT !.reminded = TRUE])
  /\ UNCHANGED <<config, cache, said, faulty, raw, kept>>

\* extract_chunk: stamp the findings with this run's chunk and go on.
Extracted(c) ==
  /\ Received(c) /\ Drop(c)
  /\ analysis[c].at = "extract"
  /\ call[c].reply \notin Unparsable \cup {LlmError}
  /\ LET a == analysis[c]
         findings == Append(a.findings, StampProvenance(call[c].reply, Chunk(a)))
     IN  Become(c, [a EXCEPT !.findings = findings, !.reminded = FALSE,
                             !.at = IF Len(findings) = Len(Chunks(a.meeting))
                                    THEN "synthesize" ELSE "extract"])
  /\ UNCHANGED <<config, cache, said, faulty, raw, kept>>

\* synthesize and validate: the IR is accepted only if it is valid.
Synthesized(c) ==
  /\ Received(c) /\ Drop(c)
  /\ analysis[c].at = "synthesize"
  /\ call[c].reply \notin Unparsable \cup {LlmError}
  /\ LET a == analysis[c]
         ir == Reconcile(call[c].reply, FromChunks(a.findings), Segs(a.meeting))
     IN  IF Validate(ir)
         THEN /\ Become(c, [a EXCEPT !.at = "done", !.ir = ir])
              /\ kept' = kept \cup {<<a.meeting, config, ir>>}
         ELSE Become(c, [a EXCEPT !.at = "failed"]) /\ UNCHANGED kept
  /\ UNCHANGED <<config, cache, said, faulty, raw>>

AnalysisStep(c) == \/ Generate(c) \/ GenerateFails(c) \/ Repair(c)
                   \/ Extracted(c) \/ Synthesized(c)

\* A run in progress dies with the process.
AnalysisLost == /\ analysis' = [c \in Runs |-> NoRun]
                /\ UNCHANGED <<raw, kept>>
=============================================================================
