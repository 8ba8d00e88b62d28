------------------------------- MODULE Passages -------------------------------
(* search/chunker.rs and the ranking half of search/index.rs.  A note is a    *)
(* sequence of lines, a line a sequence of one-letter words; a blank line is  *)
(* the empty sequence.                                                        *)
EXTENDS Integers, Sequences, FiniteSets, SequencesExt, Words

CONSTANTS NoteChars,      \* DEFAULT_CHUNK_CHARS
          RRF_K,          \* reciprocal rank fusion constant
          OneLetter,      \* words too short to search for
          Hash,           \* the mark that begins a heading
          Stem,           \* the words of each note's file name
          Dimension(_),   \* the length of an embedding model's vectors
          Related(_, _)   \* how alike two vectors are, each a text with the model
                          \* that embedded it; 0 for not at all or opposite

ASSUME NoteCharsAssumption == NoteChars \in Nat

\* The words of some lines.
WordsOf(lines) == UNION {ToSet(l) : l \in ToSet(lines)}

\* The elements of the set one after the other: before holds the pairs of an
\* element and a later one.
Ordered(set, before) ==
  [k \in 1 .. Cardinality(set) |->
     CHOOSE x \in set : Cardinality({y \in set : <<y, x>> \in before}) = k - 1]

\* The paragraphs <<first, last>> of a note: maximal runs of lines not blank.
Paragraphs(lines) ==
  LET Filled(i) == i \in DOMAIN lines /\ lines[i] # <<>>
      starts == {i \in DOMAIN lines : Filled(i) /\ ~Filled(i - 1)}
      End(i) == CHOOSE j \in DOMAIN lines :
                  j >= i /\ ~Filled(j + 1) /\ \A k \in i .. j : Filled(k)
      order == Ordered(starts, {p \in starts \X starts : p[1] < p[2]})
  IN  [k \in DOMAIN order |-> <<order[k], End(order[k])>>]

\* Characters of some lines, each with its newline.
Chars(lines, from, to) ==
  FoldLeft(LAMBDA n, l : n + (IF l = <<>> THEN 0 ELSE 2 * Len(l)), 0,
           SubSeq(lines, from, to))

\* Mutant of ChunkRanges: a paragraph that fills the budget exactly is refused.
ChunkRangesBelow(lines) ==
  LET Gather(acc, p) ==
        LET size == Chars(lines, p[1], p[2])
        IN  IF acc.size > 0 /\ acc.size + size >= NoteChars
            THEN [done |-> Append(acc.done, acc.cur), cur |-> p, size |-> size]
            ELSE [acc EXCEPT !.cur = IF acc.size = 0 THEN p ELSE <<@[1], p[2]>>,
                             !.size = @ + size]
      Close(acc) == IF acc.size = 0 THEN <<>> ELSE Append(acc.done, acc.cur)
  IN  Close(FoldLeft(Gather, [done |-> <<>>, cur |-> <<0, 0>>, size |-> 0],
                     Paragraphs(lines)))

\* chunk_markdown: paragraphs are gathered while they fit the budget.
ChunkRanges(lines) ==
  LET Gather(acc, p) ==
        LET size == Chars(lines, p[1], p[2])
        IN  IF acc.size > 0 /\ acc.size + size > NoteChars
            THEN [done |-> Append(acc.done, acc.cur), cur |-> p, size |-> size]
            ELSE [acc EXCEPT !.cur = IF acc.size = 0 THEN p ELSE <<@[1], p[2]>>,
                             !.size = @ + size]
      Close(acc) == IF acc.size = 0 THEN <<>> ELSE Append(acc.done, acc.cur)
  IN  Close(FoldLeft(Gather, [done |-> <<>>, cur |-> <<0, 0>>, size |-> 0],
                     Paragraphs(lines)))

\* first_heading, or else the name of the file.
Title(path, lines) ==
  LET headings == {i \in DOMAIN lines : Len(lines[i]) > 1 /\ lines[i][1] = Hash}
  IN  IF headings = {} THEN Stem[path]
      ELSE Tail(lines[CHOOSE i \in headings : \A j \in headings : i <= j])

\* A passage of a note: the lines of a chunk that are not blank, under its title.
Passage(path, lines, range) ==
  [path |-> path, title |-> Title(path, lines), first |-> range[1], last |-> range[2],
   body |-> SelectSeq(SubSeq(lines, range[1], range[2]), LAMBDA l : l # <<>>)]

\* The passages of a note.
PassagesOf(path, lines) ==
  LET ranges == ChunkRanges(lines)
  IN  [i \in DOMAIN ranges |-> Passage(path, lines, ranges[i])]

\* to_fts_query: the distinct words long enough to search for.
FtsTokens(question) == ToSet(question) \ OneLetter

\* The best of a sequence of passages by their scores, equal ones in their order.
Best(passages, score, limit) ==
  LET found == {i \in DOMAIN passages : score[i] > 0}
      Ahead(i, j) == score[i] > score[j] \/ (score[i] = score[j] /\ i < j)
      ranked == Ordered(found, {p \in found \X found : Ahead(p[1], p[2])})
      top == SubSeq(ranked, 1, IF Len(ranked) < limit THEN Len(ranked) ELSE limit)
  IN  [i \in DOMAIN top |-> passages[top[i]]]

\* The term token* finds a word of the title or of the body, the indexed columns.
Finds(token, p) ==
  \E w \in ToSet(p.title) \cup WordsOf(p.body) : BeginsWith(w, token)

\* search_blocking: the terms are joined by OR; SQLite's bm25 is taken to rank by
\* how many find something.
LexicalSearch(rows, question, limit) ==
  LET Hits(p) == Cardinality({t \in FtsTokens(question) : Finds(t, p)})
  IN  Best(rows, [i \in DOMAIN rows |-> Hits(rows[i])], limit)

\* Mutant of Cosine: the components that both vectors have are compared.
CosineShorter(v, w) == Related(v, w)

\* cosine_similarity: no signal between vectors of two lengths; which models they
\* are of is not known.
Cosine(v, w) ==
  IF Dimension(v.model) # Dimension(w.model) THEN 0 ELSE Related(v, w)

\* vector_search_blocking: a scan over the stored vectors.
VectorSearch(rows, vector, limit) ==
  Best(rows, [i \in DOMAIN rows |->
                Cosine(vector, [model |-> rows[i].model, text |-> rows[i].body])], limit)

KeyOf(p) == <<p.path, p.first>>
Rank(list, key) == {i \in DOMAIN list : KeyOf(list[i]) = key}

\* Sum of 1 / (RRF_K + rank), over a common denominator for ranks up to limit.
RrfScore(lists, key, limit) ==
  LET whole == FoldLeft(LAMBDA n, r : n * (RRF_K + r), 1, [r \in 1 .. limit |-> r])
      Share(list) == MapThenSumSet(LAMBDA i : whole \div (RRF_K + i), Rank(list, key))
  IN  Share(lists[1]) + Share(lists[2])

\* fuse_rrf: keys by score, those of equal score in any order (they come out of
\* a hash map); a key in both lists keeps the passage of the first.
FuseRrf(lexical, dense, limit) ==
  LET lists == <<lexical, dense>>
      keys == {KeyOf(p) : p \in ToSet(lexical) \cup ToSet(dense)}
      orders == {s \in SetToSeqs(keys) : \A i, j \in DOMAIN s : i < j =>
                   RrfScore(lists, s[i], limit) >= RrfScore(lists, s[j], limit)}
      Entry(key) == IF Rank(lexical, key) # {}
                    THEN lexical[CHOOSE i \in Rank(lexical, key) : TRUE]
                    ELSE dense[CHOOSE i \in Rank(dense, key) : TRUE]
      Cut(s) == SubSeq(s, 1, IF Len(s) < limit THEN Len(s) ELSE limit)
  IN  {[i \in DOMAIN Cut(s) |-> Entry(s[i])] : s \in orders}
=============================================================================
