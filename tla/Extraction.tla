------------------------------ MODULE Extraction ------------------------------
(* ai/extraction.rs and ai/findings.rs: what Rust makes of the model's answer *)
(* for one chunk.  Decisions, topics, questions and risks are handled alike:  *)
(* an answer is a record [claims, actions] of items [text, evidence], actions *)
(* with an owner (deadlines are treated exactly as owners are).               *)
EXTENDS Preparation

CONSTANTS Malformed,      \* an answer that holds no JSON object of the schema
          NoTime,         \* evidence without a time
          NoChunk,        \* evidence without a chunk
          ShortWords      \* words of at most two letters

\* Words that count in a comparison.
WordSet(text) == ToSet(text) \ ShortWords

EvidenceAt(quote, speaker, start, end, id) ==
  [quote |-> quote, speaker |-> speaker, start |-> start, end |-> end,
   chunk |-> id]

\* The first segment that shares most words with the text, if any does.
BestSegment(text, chunk) ==
  LET Overlap(seg) == Cardinality(WordSet(seg.text) \cap WordSet(text))
      segs == chunk.segments
      best == {i \in DOMAIN segs :
                 /\ Overlap(segs[i]) > 0
                 /\ \A j \in DOMAIN segs :
                      \/ Overlap(segs[j]) < Overlap(segs[i])
                      \/ Overlap(segs[j]) = Overlap(segs[i]) /\ i <= j}
  IN  {EvidenceAt(segs[i].text, segs[i].speaker, segs[i].start, segs[i].end,
                  chunk.id) : i \in best}

\* Mutant of Ground: the missing end is filled in with the start.
GroundStartTwice(evidence, text, chunk) ==
  [i \in DOMAIN evidence |-> [evidence[i] EXCEPT !.chunk = chunk.id,
                                !.start = chunk.start, !.end = chunk.start]]

\* Keep the quotes the model copied and fill in their provenance; without any,
\* quote the best segment, or mark the chunk without quoting.
Ground(evidence, text, chunk) ==
  LET Fill(e) == [e EXCEPT !.chunk = IF @ = NoChunk THEN chunk.id ELSE @,
                           !.start = IF @ = NoTime THEN chunk.start ELSE @,
                           !.end = IF @ = NoTime THEN chunk.end ELSE @]
      marker == EvidenceAt(<<>>, NoSpeaker, chunk.start, chunk.end, chunk.id)
      best == BestSegment(text, chunk)
  IN  IF \E e \in ToSet(evidence) : e.quote # <<>>
      THEN [i \in DOMAIN evidence |-> Fill(evidence[i])]
      ELSE <<IF best = {} THEN marker ELSE CHOOSE e \in best : TRUE>>

StampProvenance(findings, chunk) ==
  LET Stamp(items) == [i \in DOMAIN items |->
        [items[i] EXCEPT !.evidence = Ground(@, items[i].text, chunk)]]
  IN  [claims |-> Stamp(findings.claims), actions |-> Stamp(findings.actions)]

\* All findings flattened over the chunks, without removing duplicates.
FromChunks(findings) ==
  [claims |-> FlattenSeq([i \in DOMAIN findings |-> findings[i].claims]),
   actions |-> FlattenSeq([i \in DOMAIN findings |-> findings[i].actions])]

\* Every piece of evidence of a set of findings or of a Meeting IR.
AllEvidence(findings) ==
  UNION {ToSet(item.evidence) :
           item \in ToSet(findings.claims) \cup ToSet(findings.actions)}
=============================================================================
