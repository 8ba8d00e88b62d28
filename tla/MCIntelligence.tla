---------------------------- MODULE MCIntelligence ----------------------------
(* A small instance of Intelligence for TLC. *)
EXTENDS Intelligence

Seg(who, from, to, words) == [speaker |-> who, start |-> from, end |-> to, text |-> words]
Note(words) == <<words>>

\* Two recordings with the same words at other times, whose segments come out of
\* order, end before they start and hold superfluous space; and silence.
Early == << Seg("B", 5, 7, <<"ann", Gap, "also", "fix">>),
            Seg("A", -1, 3, <<"we", "ship", "now">>),
            Seg(NoSpeaker, 8, 2, <<Gap>>) >>
Late  == << Seg("A", 21, 23, <<"we", "ship", "now">>),
            Seg("B", 25, 24, <<"ann", "also", "fix">>) >>
Silent == << Seg("A", 1, 2, <<Gap>>) >>

MCArchives == {[m1 |-> Early, m2 |-> Late, m3 |-> Silent]}
MCTitles == [m \in Meetings |-> "standup"]

\* Inputs of the chunking: all transcripts of up to three segments of these.
MCSegments == {Seg("A", 0, 1, <<"x">>), Seg("B", 2, 1, <<"x", Gap, "y">>),
               Seg("A", -1, 4, <<"x", "y", "z", "u">>), Seg("B", 1, 3, <<Gap>>)}
MCTranscripts == UNION {[1 .. n -> MCSegments] : n \in 0 .. 3}

\* Evidence as the model gives it, without a place, or with one of its own.
Said(quote, who) == [quote |-> quote, speaker |-> who, start |-> NoTime,
                     end |-> NoTime, chunk |-> NoChunk]
SaidAt(quote, who, time, id) == [Said(quote, who) EXCEPT !.start = time, !.chunk = id]
Claim(text, evidence) == [text |-> text, evidence |-> evidence]
Action(text, evidence, owner) == [text |-> text, evidence |-> evidence, owner |-> owner]

\* Findings: copied, omitted and made up quotes, text like nothing that was said.
Found1 == [claims |-> <<Claim(<<"we", "ship">>, <<Said(<<"ship", "now">>, "A"),
                                                  SaidAt(<<"moon">>, "Z", 99, 7)>>)>>,
           actions |-> <<Action(<<"fix", "it">>, <<>>, "ann")>>]
Found2 == [claims |-> <<Claim(<<"ship">>, <<>>), Claim(<<"moon">>, <<Said(<<>>, NoSpeaker)>>)>>,
           actions |-> <<>>]

\* IRs: an owner nobody named, none, and one whose name lies inside a word that was
\* said; quotes made up; and one that is invalid.
Ir1 == [summary |-> <<"ok">>, participants |-> <<"A">>,
        claims |-> <<Claim(<<"ship">>, <<Said(<<"moon">>, "Z")>>)>>,
        actions |-> <<Action(<<"fix", "it">>, <<>>, "bob"),
                      Action(<<"fix", "it", "now">>, <<>>, NoOwner),
                      Action(<<"moon">>, <<>>, "al")>>]
Ir2 == [Ir1 EXCEPT !.summary = <<>>]

Thoughtful == [answer |-> <<Think, "hm", EndThink, "yes", Think, "hm">>]
MCReplies(req) ==
  CASE req.pass = "extract" -> {IF req.id = 1 THEN Found1 ELSE Found2}
    [] req.pass = "synthesize" -> {IF req.model = "small" THEN Ir1 ELSE Ir2}
    [] req.pass = "ask" -> {Thoughtful}
MCTexts == {Blank, Found1, Found2, Ir1, Ir2, Thoughtful}

\* Which words begin, end and contain which.
MCBeginsWith(w, part) == w = part \/ <<w, part>> = <<"shipping", "ship">>
MCEndsWith(w, part) == w = part
MCHasPart(w, part) == MCBeginsWith(w, part) \/ <<w, part>> = <<"also", "al">>

\* Notes of two passages: one under a heading that the question asks for, with the
\* second passage far from it; and one with a longer word, and something alike.
Old == << <<Hash, "ship">>, <<>>, <<"dock">> >>
New == << <<"boat", "sea">>, <<>>, <<"shipping">> >>
MCContents == {Old, New}
MCVaults == {[n1 |-> Old, n2 |-> New]}
MCStems == [n \in Notes |-> <<"plan">>]
MCQuestions == {<<"ship">>}
Sail == {"ship", "shipping", "boat", "sea"}

\* The vectors of e1 and e3 have one length, those of e2 another.  All three relate
\* what is about sailing; whatever is compared with a vector of e2 has components.
MCDimension(model) == IF model = "e2" THEN 2 ELSE 1
MCRelated(v, w) == IF WordsOf(v.text) \cap Sail # {}
                   THEN Cardinality(WordsOf(w.text) \cap Sail) ELSE 0

\* All notes of up to five lines, blank or of one or two words.
MCDocuments == UNION {[1 .. n -> {<<>>, <<"x">>, <<"x", "y">>}] : n \in 0 .. 5}

Env(model, old, provider, mlx, qa, emb) ==
  [LLM_MODEL |-> model, OLLAMA_MODEL |-> old, LLM_PROVIDER |-> provider, MLX_MODEL |-> mlx,
   EXTRACTION |-> Unset, SYNTHESIS |-> Unset, QA |-> qa, EMBEDDING |-> emb]
MCEnvs == {Env(Unset, "small", Unset, Unset, Unset, "e1"),
           Env("big", "small", "ollama", Unset, "small", "e2"),
           Env("big", Unset, "mlx-lm", "small", Unset, "e1"),
           Env("big", "small", "ollama", Unset, "small", "e3")}

\* Two analyses and a restart, two requests with an edit or with a restart, an
\* analysis and a request, and one of each over failing databases.
Budget(analyses, requests, edits, embeddings, restarts, faults) ==
  [analyses |-> analyses, requests |-> requests, edits |-> edits,
   embeddings |-> embeddings, restarts |-> restarts, faulty |-> faults]
MCBudgets == {Budget(2, 0, 0, 0, 1, {FALSE}), Budget(0, 2, 1, 1, 0, {FALSE}),
              Budget(0, 2, 0, 1, 1, {FALSE}), Budget(0, 1, 1, 2, 1, {FALSE}),
              Budget(1, 1, 0, 0, 0, {FALSE}), Budget(1, 0, 0, 0, 0, {TRUE}),
              Budget(0, 1, 1, 1, 0, {TRUE})}
==============================================================================
