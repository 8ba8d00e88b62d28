----------------------------- MODULE MCPipeline -----------------------------
(* Small instances of Pipeline for TLC. *)
EXTENDS Pipeline, TLC

CONSTANTS silence, talk   \* an empty transcript, and one of MCChunks chunks

\* Number of chunks per transcript.
MCChunks(n) == [t \in Transcripts |-> IF t = silence THEN 0 ELSE n]
MCOneChunk  == MCChunks(1)
MCTwoChunks == MCChunks(2)

\* Meeting ids are interchangeable.
MCSymmetry == Permutations(Meetings)
=============================================================================
