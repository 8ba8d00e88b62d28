----------------------------- MODULE Preparation -----------------------------
(* preprocess/: the deterministic stage between a raw transcript and the      *)
(* model.  A transcript is a sequence of segments [speaker, start, end, text];*)
(* a text is a sequence of words, in a raw transcript with Gap for the runs   *)
(* of white space that are not a single separator.                            *)
EXTENDS Integers, Sequences, FiniteSets, SequencesExt

CONSTANTS Gap,            \* superfluous white space
          NoSpeaker,      \* diarization did not run
          MaxChars,       \* ChunkingConfig.max_chars, at most MaxChars per chunk
          ContextWords,   \* ChunkingConfig.context_chars, counted in words
          NoContext       \* a chunk without a neighbour on that side

ASSUME MaxCharsAssumption == MaxChars \in Nat

\* A transcript, with the times of its segments as they were recorded.
IsTranscript(t) ==
  /\ t \in Seq(ToSet(t))
  /\ \A seg \in ToSet(t) :
       /\ seg = [speaker |-> seg.speaker, start |-> seg.start, end |-> seg.end,
                 text |-> seg.text]
       /\ seg.start \in Int /\ seg.end \in Int
       /\ seg.text \in Seq(ToSet(seg.text))

\* The elements that are in the set, in their order: SelectSeq with a set for its
\* test, in a form that can be reasoned about.
Among(seq, set) ==
  FlattenSeq([i \in DOMAIN seq |-> IF seq[i] \in set THEN <<seq[i]>> ELSE <<>>])

CollapseWhitespace(text) == Among(text, ToSet(text) \ {Gap})

\* A cleaned segment: text collapsed, 0 <= start <= end.
Cleaned(seg) ==
  LET start == IF seg.start < 0 THEN 0 ELSE seg.start
  IN  [seg EXCEPT !.text = CollapseWhitespace(@),
                  !.start = start,
                  !.end = IF @ < start THEN start ELSE @]

\* Stable insertion by start time.
InsertByStart(sorted, seg) ==
  LET before == {i \in DOMAIN sorted : sorted[i].start <= seg.start}
  IN  InsertAt(sorted, Cardinality(before) + 1, seg)

Normalize(raw) ==
  LET kept == Among(raw, {seg \in ToSet(raw) : CollapseWhitespace(seg.text) # <<>>})
  IN  FoldLeft(InsertByStart, <<>>, [i \in DOMAIN kept |-> Cleaned(kept[i])])

\* Characters of a segment with its newline, one-letter words single-spaced.
SegLen(seg) == 2 * Len(seg.text)

\* Mutant of Ranges: a segment that fills the budget exactly is refused.
RangesBelow(segs) ==
  LET budget == IF MaxChars < 1 THEN 1 ELSE MaxChars
      Grow(acc, i) ==
        IF i # acc.from /\ acc.len + SegLen(segs[i]) >= budget
        THEN [done |-> Append(acc.done, <<acc.from, i - 1>>),
              from |-> i, len |-> SegLen(segs[i])]
        ELSE [acc EXCEPT !.len = @ + SegLen(segs[i])]
      acc == FoldLeftDomain(Grow, [done |-> <<>>, from |-> 1, len |-> 0], segs)
  IN  Append(acc.done, <<acc.from, Len(segs)>>)

\* The greedy partition into ranges <<first, last>> of whole segments.
Ranges(segs) ==
  LET budget == IF MaxChars < 1 THEN 1 ELSE MaxChars
      Grow(acc, i) ==
        IF i # acc.from /\ acc.len + SegLen(segs[i]) > budget
        THEN [done |-> Append(acc.done, <<acc.from, i - 1>>),
              from |-> i, len |-> SegLen(segs[i])]
        ELSE [acc EXCEPT !.len = @ + SegLen(segs[i])]
      acc == FoldLeftDomain(Grow, [done |-> <<>>, from |-> 1, len |-> 0], segs)
  IN  Append(acc.done, <<acc.from, Len(segs)>>)

\* The `speaker: text` lines of a slice, as words.
SegmentsToText(segs) ==
  FlattenSeq([i \in DOMAIN segs |-> <<segs[i].speaker>> \o segs[i].text])

TailOf(text) == IF Len(text) <= ContextWords THEN text
                ELSE SubSeq(text, Len(text) - ContextWords + 1, Len(text))
HeadOf(text) == SubSeq(text, 1, IF Len(text) < ContextWords THEN Len(text)
                                ELSE ContextWords)

\* The chunks of a normalized transcript, each framed by its neighbours' words.
ChunkSegments(segs) ==
  IF segs = <<>> THEN <<>> ELSE
  LET ranges == Ranges(segs)
      Slice(i) == SubSeq(segs, ranges[i][1], ranges[i][2])
      Text(i) == SegmentsToText(Slice(i))
      framed == ContextWords > 0
  IN  [i \in DOMAIN ranges |->
        [id |-> i, segments |-> Slice(i), text |-> Text(i),
         start |-> segs[ranges[i][1]].start, end |-> segs[ranges[i][2]].end,
         before |-> IF framed /\ i > 1 THEN TailOf(Text(i - 1)) ELSE NoContext,
         after |-> IF framed /\ i < Len(ranges) THEN HeadOf(Text(i + 1))
                   ELSE NoContext]]

\* What the model sees of a chunk.
PromptText(chunk) == <<chunk.before, chunk.text, chunk.after>>

Prepare(raw) == LET segs == Normalize(raw)
                IN  [normalized |-> segs, chunks |-> ChunkSegments(segs)]
=============================================================================
