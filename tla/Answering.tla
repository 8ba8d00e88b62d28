------------------------------ MODULE Answering ------------------------------
(* search/qa.rs and the vault half of lib.rs: searching the vault and         *)
(* answering a question from it.  The index is taken as one value per note,   *)
(* the lines last indexed and the lines last embedded; how it is kept is the  *)
(* subject of VaultIndex.  Questions share the result cache with the runs.    *)
EXTENDS LlmCache, Passages

CONSTANTS Askers,         \* requests served concurrently, among the Callers
          Notes,          \* the notes of the vault
          Vaults,         \* what the notes may hold at first, by note
          Contents,       \* what a note may be changed to
          Questions,
          TopK,           \* DEFAULT_TOP_K
          SearchLimit,    \* the limit of a search request
          Think, EndThink,  \* the marks around a model's reasoning
          NothingFound,   \* the text of an answer without passages
          Listing,        \* the text that lists the sources
          NoVectors       \* a note that was never embedded

\* What a note may hold; an index knows a note it never saw as an empty one.
NoteTexts == {<<>>} \cup Contents \cup {v[n] : v \in Vaults, n \in Notes}

ASSUME VaultAssumption ==
  /\ IsFiniteSet(Notes)
  /\ \A v \in Vaults : v \in [Notes -> NoteTexts]
  /\ \A lines \in NoteTexts : lines \in Seq(Seq(WordsOf(lines)))
ASSUME QuestionAssumption ==
  /\ TopK \in Nat /\ SearchLimit \in Nat
  /\ \A q \in Questions : q \in Seq(ToSet(q))

\* The models that may embed, and what they make of a text.
Embedders == {env.EMBEDDING : env \in Envs}
VectorOf(model, text) == [model |-> model, text |-> text]

ASSUME RelatedAssumption ==
  \A e, f \in Embedders, q \in Questions, n \in Notes, lines \in NoteTexts :
    \A p \in ToSet(PassagesOf(n, lines)) :
      Related(VectorOf(e, <<q>>), VectorOf(f, p.body)) \in Nat

VARIABLES disk,     \* the lines of each note
          rows,     \* the lines of each note as last indexed
          vectors,  \* the lines of each note as last embedded, and by which model
          asked     \* per asker: the request and how far it is

answeringVars == <<disk, rows, vectors, asked>>

NoAsk == [at |-> "idle"]
Pending == {"retrieve", "answer"}

AnsweringInit == /\ disk \in Vaults
                 /\ rows = [n \in Notes |-> <<>>]
                 /\ vectors = [n \in Notes |-> NoVectors]
                 /\ asked = [c \in Askers |-> NoAsk]

\* The user edits a note; a pending request remembers what was on the disk.
Edit(n) ==
  /\ \E lines \in Contents \ {disk[n]} :
       /\ disk' = [disk EXCEPT ![n] = lines]
       /\ asked' = [c \in Askers |-> IF asked[c].at = "retrieve"
                      THEN [asked[c] EXCEPT !.seen = @ \cup {<<n, lines>>}]
                      ELSE asked[c]]
  /\ UNCHANGED <<rows, vectors, llmVars>>

\* embed_pending: a note whose indexed lines are not the embedded ones, whatever
\* model embedded those, is read again and embedded.
Embed(n) ==
  /\ config.embedding # Unset
  /\ rows[n] # <<>>
  /\ vectors[n] # NoVectors => vectors[n].lines # rows[n]
  /\ \E v \in Embedding(disk[n]) \ {LlmError} :
       vectors' = [vectors EXCEPT ![n] = [lines |-> v.text, model |-> v.model]]
  /\ UNCHANGED <<disk, rows, asked, llmVars>>

\* Mutant of AskVault: only a note not seen before is indexed.
AskVaultNewOnly(c, kind, question) ==
  /\ asked[c].at \notin Pending
  /\ rows' = [n \in Notes |-> IF rows[n] = <<>> THEN disk[n] ELSE rows[n]]
  /\ asked' = [asked EXCEPT ![c] =
       [at |-> "retrieve", kind |-> kind, question |-> question,
        seen |-> {<<n, disk[n]>> : n \in Notes}]]
  /\ UNCHANGED <<disk, vectors, llmVars>>

\* ask_vault and search_vault up to the embedding of the question; a failing
\* sync is not fatal.
AskVault(c, kind, question) ==
  /\ asked[c].at \notin Pending
  /\ \/ rows' = disk
     \/ faulty /\ UNCHANGED rows
  /\ asked' = [asked EXCEPT ![c] =
       [at |-> "retrieve", kind |-> kind, question |-> question,
        seen |-> {<<n, disk[n]>> : n \in Notes}]]
  /\ UNCHANGED <<disk, vectors, llmVars>>

\* embed_query: no vector without an embedding model, or when embedding fails.
QueryVectors(question) ==
  IF config.embedding = Unset THEN {NoVectors}
  ELSE {IF v = LlmError THEN NoVectors ELSE v : v \in Embedding(<<question>>)}

RowsOf(lines) == FlattenSeq([i \in 1 .. Cardinality(Notes) |->
  LET n == SetToSeq(Notes)[i] IN PassagesOf(n, lines[n])])

\* A passage with the model of its vector, and without.
WithModel(p, model) == [path |-> p.path, title |-> p.title, first |-> p.first,
                        last |-> p.last, body |-> p.body, model |-> model]
Plain(p) == [path |-> p.path, title |-> p.title, first |-> p.first, last |-> p.last,
             body |-> p.body]

Embedded == LET of == {n \in Notes : vectors[n] # NoVectors}
                All(n) ==
                  LET passages == PassagesOf(n, vectors[n].lines)
                  IN  [i \in DOMAIN passages |-> WithModel(passages[i], vectors[n].model)]
            IN  FlattenSeq([i \in 1 .. Cardinality(of) |-> All(SetToSeq(of)[i])])

\* retrieve_hybrid: the lexical hits alone when the vectors give no signal.
RetrieveHybrid(question, vector, limit) ==
  LET lexical == LexicalSearch(RowsOf(rows), question, limit)
      near == IF vector = NoVectors THEN <<>>
              ELSE VectorSearch(Embedded, vector, limit)
      dense == [i \in DOMAIN near |-> Plain(near[i])]
  IN  IF dense = <<>> THEN {lexical} ELSE FuseRrf(lexical, dense, limit)

\* The files behind the citations, once each.
UniquePaths(passages) ==
  FoldLeft(LAMBDA seen, p : IF Contains(seen, p.path) THEN seen
                            ELSE Append(seen, p.path), <<>>, passages)

\* The end of a request: every passage is cited, whatever the text says.
Answered(a, passages, text) ==
  [at |-> "done", kind |-> a.kind, question |-> a.question, seen |-> a.seen,
   index |-> [rows |-> rows, vectors |-> vectors, model |-> config.embedding],
   citations |-> passages, files |-> UniquePaths(passages), text |-> text]

\* A search ends with its passages, and so does a question without any.
Continue(a, passages) ==
  IF a.kind = "search" THEN Answered(a, passages, Listing)
  ELSE IF passages = <<>> THEN Answered(a, <<>>, NothingFound)
  ELSE [Answered(a, passages, Listing) EXCEPT !.at = "answer"]

\* The passages are in hand; when the index fails, a search ends with the error
\* and a question goes on with none.
Retrieve(c) ==
  /\ asked[c].at = "retrieve"
  /\ LET a == asked[c]
         limit == IF a.kind = "search" THEN SearchLimit ELSE TopK
     IN  \/ \E vector \in QueryVectors(a.question) :
              \E passages \in RetrieveHybrid(a.question, vector, limit) :
                asked' = [asked EXCEPT ![c] = Continue(a, passages)]
         \/ /\ faulty
            /\ asked' = [asked EXCEPT ![c] = IF a.kind = "search" THEN [at |-> "failed"]
                                             ELSE Continue(a, <<>>)]
  /\ UNCHANGED <<disk, rows, vectors, llmVars>>

\* build_prompt: the question and the numbered passages, with their titles and
\* lines but not their paths.
Prompt(c) ==
  LET a == asked[c]
  IN  [pass |-> "ask", model |-> config.qa, question |-> a.question,
       sources |-> [i \in DOMAIN a.citations |->
         LET p == a.citations[i]
         IN  <<p.title, p.first, p.last, p.body>>]]

AskModel(c) == /\ asked[c].at = "answer"
               /\ Lookup(c, Prompt(c))
               /\ UNCHANGED answeringVars

\* clean_answer: every thought is cut out, an unfinished one up to the end.
CleanAnswer(text) ==
  FoldLeft(LAMBDA acc, w :
             IF acc.thinking THEN [acc EXCEPT !.thinking = w # EndThink]
             ELSE IF w = Think THEN [acc EXCEPT !.thinking = TRUE]
             ELSE [acc EXCEPT !.text = Append(@, w)],
           [text |-> <<>>, thinking |-> FALSE], text).text

\* The model's answer, or the list of the sources in place of none.
ReceiveAnswer(c) ==
  /\ asked[c].at = "answer"
  /\ Received(c) /\ Drop(c)
  /\ LET reply == call[c].reply
         text == IF reply \in {LlmError, Blank} THEN <<>> ELSE CleanAnswer(reply.answer)
     IN  asked' = [asked EXCEPT ![c].at = "done",
                                ![c].text = IF text = <<>> THEN Listing ELSE text]
  /\ UNCHANGED <<disk, rows, vectors, config, cache, said, faulty>>

AskStep(c) == Retrieve(c) \/ AskModel(c) \/ ReceiveAnswer(c)

\* A request dies with the process; the index and the notes remain.
AsksLost == /\ asked' = [c \in Askers |-> NoAsk]
            /\ UNCHANGED <<disk, rows, vectors>>
=============================================================================
