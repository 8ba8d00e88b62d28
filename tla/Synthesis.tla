------------------------------ MODULE Synthesis ------------------------------
(* ai/synthesis.rs, ai/validation.rs and renderer/markdown.rs: what Rust makes*)
(* of the model's consolidated answer [summary, participants, claims,         *)
(* actions], which it reconciles with the findings and the transcript,        *)
(* validates and renders.                                                     *)
EXTENDS Extraction, Words

CONSTANTS NoOwner         \* an action item without an owner

\* Containment, or at least 34 hundredths of the words in common.
Similar(a, b) ==
  /\ a # <<>> /\ b # <<>>
  /\ \/ Within(a, b) \/ Within(b, a)
     \/ 100 * Cardinality(ToSet(a) \cap ToSet(b))
          >= 34 * Cardinality(ToSet(a) \cup ToSet(b))

SimilarTo(item, sources) ==
  Among(sources, {s \in ToSet(sources) : Similar(item.text, s.text)})

\* The evidence of the similar findings, in their order.
MatchedEvidence(item, sources) ==
  LET found == SimilarTo(item, sources)
  IN  FlattenSeq([i \in DOMAIN found |-> found[i].evidence])

\* Found evidence replaces the model's, once per quote and chunk; without any
\* the item keeps what it had.
Attach(target, found) ==
  LET AddOnce(kept, e) ==
        IF \E k \in ToSet(kept) : k.quote = e.quote /\ k.chunk = e.chunk
        THEN kept ELSE Append(kept, e)
  IN  IF found = <<>> THEN target ELSE FoldLeft(AddOnce, <<>>, found)

\* transcript_lower.contains: the name, a word, lies inside a word somebody said.
Occurs(name, segs) ==
  \E i \in DOMAIN segs : \E k \in DOMAIN segs[i].text : HasPart(segs[i].text[k], name)

\* Mutant of GuardField: what the model proposes is kept.
GuardNothing(owner, sources, segs) == IF owner # Gap THEN owner ELSE NoOwner

\* Keep an owner that is not blank and that a similar finding stated or that
\* occurs in the transcript, be it inside another word.
GuardField(owner, sources, segs) ==
  IF /\ owner # Gap
     /\ \/ \E s \in ToSet(sources) : s.owner = owner
        \/ Occurs(owner, segs)
  THEN owner ELSE NoOwner

\* The model's owner, or else the first one a similar finding states, guarded.
ResolveOwner(item, sources, segs) ==
  LET stated == Among(sources, {s \in ToSet(sources) : s.owner # NoOwner})
      owner == IF item.owner # NoOwner THEN item.owner
               ELSE IF stated = <<>> THEN NoOwner ELSE stated[1].owner
  IN  GuardField(owner, sources, segs)

\* Distinct speakers in order of first appearance.
SpeakerIds(segs) ==
  LET AddNew(seen, seg) == IF seg.speaker = NoSpeaker \/ Contains(seen, seg.speaker)
                           THEN seen ELSE Append(seen, seg.speaker)
  IN  FoldLeft(AddNew, <<>>, segs)

Reconcile(ir, merged, segs) ==
  LET Join(known, id) == IF Contains(known, id) THEN known ELSE Append(known, id)
      Claim(c) == [c EXCEPT !.evidence =
                     Attach(@, MatchedEvidence(c, merged.claims))]
      Action(a) ==
        [a EXCEPT !.evidence = Attach(@, MatchedEvidence(a, merged.actions)),
                  !.owner = ResolveOwner(a, SimilarTo(a, merged.actions), segs)]
  IN  [summary |-> ir.summary,
       participants |-> FoldLeft(Join, ir.participants, SpeakerIds(segs)),
       claims |-> [i \in DOMAIN ir.claims |-> Claim(ir.claims[i])],
       actions |-> [i \in DOMAIN ir.actions |-> Action(ir.actions[i])]]

\* Nothing that must have a text is blank.
Validate(ir) ==
  /\ ir.summary # <<>>
  /\ \A item \in ToSet(ir.claims) \cup ToSet(ir.actions) : item.text # <<>>

\* The IR of a transcript without any words; the model is not asked.
EmptyIr(notice) == [summary |-> notice, participants |-> <<>>,
                    claims |-> <<>>, actions |-> <<>>]

\* The minutes: every item with the quotes of its evidence, markers left out;
\* the table of action items has no room for quotes.
Minutes(ir) ==
  LET Quotes(item) == {e.quote : e \in ToSet(item.evidence)} \ {<<>>}
  IN  [summary |-> ir.summary, people |-> ToSet(ir.participants),
       claims |-> {<<c.text, Quotes(c)>> : c \in ToSet(ir.claims)},
       actions |-> {<<a.text, a.owner>> : a \in ToSet(ir.actions)}]
=============================================================================
