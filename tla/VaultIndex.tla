----------------------------- MODULE VaultIndex -----------------------------
(***************************************************************************)
(* The vault search index of notely-engine (search/index.rs) and its       *)
(* callers search_vault, ask_vault and maybe_spawn_embedding (lib.rs): the *)
(* full-text chunks and the dense vectors of the user's notes, kept in     *)
(* search.db by an incremental sync before every query and by a background *)
(* embedding pass, while the user goes on editing the notes.               *)
(*                                                                         *)
(* The connection mutex is held over a whole sync, and over the storing of *)
(* one note's vectors, but every SQL statement commits on its own and the  *)
(* notes are read with no lock at all.  A note's rows are represented by   *)
(* the text they were cut from; deleting and inserting them are two steps. *)
(***************************************************************************)
EXTENDS Integers, FiniteSets

CONSTANTS
  Searches,    \* Search and Ask requests the engine may serve at once
  Vaults,      \* vault roots a request may name
  Notes,       \* paths of Markdown files
  VaultOf,     \* note -> the root it lies under
  Texts,       \* contents of a note
  SizeOf,      \* text -> its length in bytes
  Binary,      \* the texts read_to_string cannot read
  Empty,       \* the texts the chunker cuts into no chunk
  NoText, NoFp, NoFile, NoOne,
  Pass,        \* the embedding task, as a holder of the mutex
  SameSecond,  \* BOOLEAN: two changes may carry one mtime (whole seconds)
  IndexFails,  \* BOOLEAN: a statement on search.db may return an error
  EmbedFails,  \* BOOLEAN: the embedder may be unreachable or miscount
  MaxEdits, MaxCrashes   \* bounds on a behaviour

ASSUME ConstantsAssumption ==
  /\ VaultOf \in [Notes -> Vaults] /\ SizeOf \in [Texts -> Nat]
  /\ Binary \subseteq Texts /\ Empty \subseteq Texts
  /\ NoText \notin Texts
  /\ NoOne \notin Searches \cup {Pass} /\ Pass \notin Searches
  /\ {SameSecond, IndexFails, EmbedFails} \subseteq BOOLEAN
  /\ MaxEdits \in Nat /\ MaxCrashes \in Nat

ASSUME SentinelsAssumption ==
  /\ NoFp \notin Nat \X Nat /\ NoFile \notin [text : Texts, mtime : Nat]
  /\ NoOne \notin Vaults

VARIABLES
  \* the vault on disk
  disk,        \* note -> [text, mtime], or NoFile
  clock,       \* the current second
  \* search.db
  chunks,      \* note -> text its full-text rows were cut from, or NoText
  source,      \* note -> sources.fingerprint, or NoFp: no row
  embedded,    \* note -> sources.embedded_fingerprint, or NoFp: NULL
  vectors,     \* note -> text its embedding rows were made from, or NoText
  \* jobs.db
  embedJob,    \* status of the last Embedding job
  \* the engine process
  up,
  lock,        \* holder of the connection mutex
  search,      \* search -> the state of its handler
  pass,        \* the background embedding task
  inProgress,  \* embedding_in_progress
  \* bookkeeping of the model
  edits, crashes

vault == <<disk, clock, edits>>
index == <<chunks, source, embedded, vectors>>
engine == <<embedJob, up, lock, search, pass, inProgress, crashes>>
vars == <<vault, index, engine>>

-----------------------------------------------------------------------------
(* Notes *)

\* fingerprint: (mtime in seconds, size).
Fp(n) == <<disk[n].mtime, SizeOf[disk[n].text]>>

\* The rows a text is cut into, none for an empty one.
RowsOf(t) == IF t \in Empty THEN NoText ELSE t

\* read_to_string succeeds.
Readable(n) == disk[n] # NoFile /\ disk[n].text \notin Binary

\* Every search that is under way has now seen the vault change.
VaultChanged == search' = [s \in Searches |-> [search[s] EXCEPT !.quiet = FALSE]]

\* The user, or the editor of the app, creates or overwrites a note.
WriteNote(n, t) ==
  /\ edits < MaxEdits /\ edits' = edits + 1
  /\ disk[n] # NoFile => disk[n].text # t
  /\ \/ clock' = clock + 1
     \/ SameSecond /\ clock' = clock
  /\ disk' = [disk EXCEPT ![n] = [text |-> t, mtime |-> clock']]
  /\ VaultChanged
  /\ UNCHANGED <<index, embedJob, up, lock, pass, inProgress, crashes>>

DeleteNote(n) ==
  /\ edits < MaxEdits /\ edits' = edits + 1
  /\ disk[n] # NoFile
  /\ disk' = [disk EXCEPT ![n] = NoFile]
  /\ VaultChanged
  /\ UNCHANGED <<clock, index, embedJob, up, lock, pass, inProgress, crashes>>

-----------------------------------------------------------------------------
(* search_vault and ask_vault: sync, kick the embedding, retrieve *)

Idle ==
  [at |-> "idle", vault |-> NoOne, present |-> {}, todo |-> {}, note |-> NoOne,
   fp |-> NoFp, text |-> NoText, quiet |-> FALSE, synced |-> FALSE]

SearchAt(s, point) == up /\ search[s].at = point

\* The handler of s moves on.
Step(s, new) == search' = [search EXCEPT ![s] = new]
Goto(s, point) == search' = [search EXCEPT ![s].at = point]

SearchFrame == UNCHANGED <<vault, embedJob, up, crashes>>
SyncFrame == SearchFrame /\ UNCHANGED <<pass, inProgress>>

\* A statement failed: sync_vault returns the error, which search_vault logs
\* before it searches what is indexed.
SyncError(s) ==
  /\ IndexFails
  /\ search' = [search EXCEPT ![s].at = "spawn", ![s].synced = FALSE]
  /\ lock' = NoOne

\* The file at hand is dealt with.
NextFile(s) ==
  search' = [search EXCEPT ![s].at = "files", ![s].todo = @ \ {search[s].note},
                           ![s].note = NoOne, ![s].fp = NoFp, ![s].text = NoText]

Request(s, v) ==
  /\ SearchAt(s, "idle")
  /\ Step(s, [Idle EXCEPT !.at = "sync", !.vault = v])
  /\ UNCHANGED <<index, lock>> /\ SyncFrame

\* sync_vault_blocking takes the mutex; collect_markdown lists the vault.
SyncBegin(s) ==
  /\ SearchAt(s, "sync") /\ lock = NoOne
  /\ lock' = s
  /\ LET found == {n \in Notes : VaultOf[n] = search[s].vault /\ disk[n] # NoFile}
     IN  Step(s, [search[s] EXCEPT !.at = "files", !.present = found,
                                   !.todo = found, !.quiet = TRUE,
                                   !.synced = TRUE])
  /\ UNCHANGED index /\ SyncFrame

\* One listed file is fingerprinted; an unchanged or vanished one is skipped.
SyncFingerprint(s) ==
  /\ SearchAt(s, "files")
  /\ \E n \in search[s].todo :
       \/ /\ disk[n] = NoFile \/ (disk[n] # NoFile /\ Fp(n) = source[n])
          /\ search' = [search EXCEPT ![s].todo = @ \ {n}]
       \/ /\ disk[n] # NoFile /\ Fp(n) # source[n]
          /\ search' = [search EXCEPT ![s].at = "read", ![s].note = n,
                                      ![s].fp = Fp(n)]
  /\ UNCHANGED <<index, lock>> /\ SyncFrame

\* read_to_string (an unreadable file is left as it is), and index_file
\* deletes the old rows.
SyncRead(s) ==
  /\ SearchAt(s, "read")
  /\ LET n == search[s].note IN
       \/ ~Readable(n) /\ NextFile(s) /\ UNCHANGED <<index, lock>>
       \/ /\ Readable(n)
          /\ chunks' = [chunks EXCEPT ![n] = NoText]
          /\ search' = [search EXCEPT ![s].at = "insert",
                                      ![s].text = disk[n].text]
          /\ UNCHANGED <<source, embedded, vectors, lock>>
       \/ Readable(n) /\ SyncError(s) /\ UNCHANGED index
  /\ SyncFrame

\* index_file inserts the new rows.
SyncInsert(s) ==
  /\ SearchAt(s, "insert")
  /\ \/ /\ chunks' = [chunks EXCEPT ![search[s].note] = RowsOf(search[s].text)]
        /\ Goto(s, "stamp") /\ UNCHANGED <<source, embedded, vectors, lock>>
     \/ SyncError(s) /\ UNCHANGED index
  /\ SyncFrame

\* Mutation of SyncStamp: the fingerprint is taken when the row is written.
SyncStampLate(s) ==
  /\ SearchAt(s, "stamp")
  /\ LET n == search[s].note IN
       \/ /\ source' = [source EXCEPT ![n] = IF disk[n] = NoFile THEN search[s].fp
                                             ELSE Fp(n)]
          /\ NextFile(s) /\ UNCHANGED <<chunks, embedded, vectors, lock>>
       \/ SyncError(s) /\ UNCHANGED index
  /\ SyncFrame

\* upsert_source: embedded_fingerprint is kept.
SyncStamp(s) ==
  /\ SearchAt(s, "stamp")
  /\ \/ /\ source' = [source EXCEPT ![search[s].note] = search[s].fp]
        /\ NextFile(s) /\ UNCHANGED <<chunks, embedded, vectors, lock>>
     \/ SyncError(s) /\ UNCHANGED index
  /\ SyncFrame

\* Sources that were not found in this vault, whatever vault they belong to.
Removed(s) == {n \in Notes : source[n] # NoFp /\ n \notin search[s].present}

\* Mutation of PruneChunks: only the vectors and the source are deleted.
PruneRowOnly(s) ==
  /\ SearchAt(s, "files") /\ search[s].todo = {}
  /\ \E n \in Removed(s) :
       search' = [search EXCEPT ![s].at = "pruneVectors", ![s].note = n]
  /\ UNCHANGED <<index, lock>> /\ SyncFrame

\* delete_source, its three statements.
PruneChunks(s) ==
  /\ SearchAt(s, "files") /\ search[s].todo = {}
  /\ \E n \in Removed(s) :
       \/ /\ chunks' = [chunks EXCEPT ![n] = NoText]
          /\ search' = [search EXCEPT ![s].at = "pruneVectors", ![s].note = n]
          /\ UNCHANGED <<source, embedded, vectors, lock>>
       \/ SyncError(s) /\ UNCHANGED index
  /\ SyncFrame

PruneVectors(s) ==
  /\ SearchAt(s, "pruneVectors")
  /\ \/ /\ vectors' = [vectors EXCEPT ![search[s].note] = NoText]
        /\ Goto(s, "pruneSource") /\ UNCHANGED <<chunks, source, embedded, lock>>
     \/ SyncError(s) /\ UNCHANGED index
  /\ SyncFrame

PruneSource(s) ==
  /\ SearchAt(s, "pruneSource")
  /\ \/ /\ source' = [source EXCEPT ![search[s].note] = NoFp]
        /\ embedded' = [embedded EXCEPT ![search[s].note] = NoFp]
        /\ NextFile(s) /\ UNCHANGED <<chunks, vectors, lock>>
     \/ SyncError(s) /\ UNCHANGED index
  /\ SyncFrame

SyncEnd(s) ==
  /\ SearchAt(s, "files") /\ search[s].todo = {} /\ Removed(s) = {}
  /\ lock' = NoOne
  /\ Goto(s, "spawn")
  /\ UNCHANGED index /\ SyncFrame

\* maybe_spawn_embedding: one pass at a time.  Then the query is embedded.
SpawnEmbedding(s) ==
  /\ SearchAt(s, "spawn")
  /\ \/ ~inProgress /\ inProgress' = TRUE /\ pass' = [pass EXCEPT !.at = "count"]
     \/ inProgress /\ UNCHANGED <<inProgress, pass>>
  /\ Goto(s, "retrieve")
  /\ UNCHANGED <<index, lock>> /\ SearchFrame

\* retrieve_hybrid reads chunks and vectors under the mutex.
Retrieve(s) ==
  /\ SearchAt(s, "retrieve") /\ lock = NoOne
  /\ Step(s, Idle)
  /\ UNCHANGED <<index, lock>> /\ SyncFrame

-----------------------------------------------------------------------------
(* The embedding pass *)

NoPass == [at |-> "none", pending |-> {}, note |-> NoOne, fp |-> NoFp,
           text |-> NoText]

PassAt(point) == up /\ pass.at = point
PassFrame == UNCHANGED <<vault, up, search, crashes>>

\* Mutation of Pending: a note is pending until it was embedded once.
NeverEmbedded == {n \in Notes : source[n] # NoFp /\ embedded[n] = NoFp}

\* pending_paths_blocking
Pending == {n \in Notes : source[n] # NoFp /\ embedded[n] # source[n]}

\* The task ends: the job is closed, the flag released.
EndPass(outcome) ==
  /\ embedJob' = outcome
  /\ pass' = NoPass
  /\ inProgress' = FALSE

SkipNote == pass' = [NoPass EXCEPT !.at = "next", !.pending = pass.pending]

\* pending_embedding_count; an error counts as nothing to do.
PassCount ==
  /\ PassAt("count") /\ lock = NoOne
  /\ \/ (Pending = {} \/ IndexFails) /\ EndPass(embedJob)
     \/ /\ Pending # {}
        /\ embedJob' = "running"
        /\ pass' = [pass EXCEPT !.at = "list"] /\ UNCHANGED inProgress
  /\ UNCHANGED <<index, lock>> /\ PassFrame

PassList ==
  /\ PassAt("list") /\ lock = NoOne
  /\ \/ /\ pass' = [pass EXCEPT !.at = "next", !.pending = Pending]
        /\ UNCHANGED <<embedJob, inProgress>>
     \/ IndexFails /\ EndPass("failed")
  /\ UNCHANGED <<index, lock>> /\ PassFrame

\* read_and_chunk takes the fingerprint first; a missing note is skipped.
PassFingerprint ==
  /\ PassAt("next")
  /\ \E n \in pass.pending :
       \/ /\ disk[n] = NoFile
          /\ pass' = [pass EXCEPT !.pending = @ \ {n}]
       \/ /\ disk[n] # NoFile
          /\ pass' = [pass EXCEPT !.at = "read", !.note = n, !.fp = Fp(n),
                                  !.pending = @ \ {n}]
  /\ UNCHANGED <<index, embedJob, inProgress, lock>> /\ PassFrame

\* read_and_chunk reads and chunks; a note without chunks needs no embedder.
PassRead ==
  /\ PassAt("read")
  /\ \/ ~Readable(pass.note) /\ SkipNote
     \/ /\ Readable(pass.note)
        /\ pass' = [pass EXCEPT
                      !.text = disk[pass.note].text,
                      !.at = IF disk[pass.note].text \in Empty
                             THEN "store" ELSE "embed"]
  /\ UNCHANGED <<index, embedJob, inProgress, lock>> /\ PassFrame

\* embedder.embed
PassEmbed ==
  /\ PassAt("embed")
  /\ pass' = [pass EXCEPT !.at = "store"]
  /\ UNCHANGED <<index, embedJob, inProgress, lock>> /\ PassFrame

\* An error ends the pass, a wrong number of vectors skips the note.
PassEmbedFails ==
  /\ PassAt("embed") /\ EmbedFails
  /\ \/ EndPass("completed")
     \/ SkipNote /\ UNCHANGED <<embedJob, inProgress>>
  /\ UNCHANGED <<index, lock>> /\ PassFrame

\* A statement of store_embeddings_blocking failed: embed_pending returns.
StoreError == IndexFails /\ lock' = NoOne /\ EndPass("failed")

\* store_embeddings_blocking: the old vectors are deleted,
PassStore ==
  /\ PassAt("store") /\ lock = NoOne
  /\ \/ /\ vectors' = [vectors EXCEPT ![pass.note] = NoText]
        /\ pass' = [pass EXCEPT !.at = "insert"] /\ lock' = Pass
        /\ UNCHANGED <<embedJob, inProgress>>
     \/ StoreError /\ UNCHANGED vectors
  /\ UNCHANGED <<chunks, source, embedded>> /\ PassFrame

\* the new ones inserted,
PassInsert ==
  /\ PassAt("insert")
  /\ \/ /\ vectors' = [vectors EXCEPT ![pass.note] = RowsOf(pass.text)]
        /\ pass' = [pass EXCEPT !.at = "stamp"]
        /\ UNCHANGED <<embedJob, inProgress, lock>>
     \/ StoreError /\ UNCHANGED vectors
  /\ UNCHANGED <<chunks, source, embedded>> /\ PassFrame

\* Mutation of PassStamp: the row is stamped with its current fingerprint.
PassStampCurrent ==
  /\ PassAt("stamp")
  /\ \/ /\ embedded' = [embedded EXCEPT ![pass.note] = source[pass.note]]
        /\ SkipNote /\ lock' = NoOne
        /\ UNCHANGED <<embedJob, inProgress>>
     \/ StoreError /\ UNCHANGED embedded
  /\ UNCHANGED <<chunks, source, vectors>> /\ PassFrame

\* and the row of the note, if it still has one, is stamped.
PassStamp ==
  /\ PassAt("stamp")
  /\ \/ /\ embedded' = [embedded EXCEPT
                          ![pass.note] = IF source[pass.note] = NoFp
                                         THEN @ ELSE pass.fp]
        /\ SkipNote /\ lock' = NoOne
        /\ UNCHANGED <<embedJob, inProgress>>
     \/ StoreError /\ UNCHANGED embedded
  /\ UNCHANGED <<chunks, source, vectors>> /\ PassFrame

PassEnd ==
  /\ PassAt("next") /\ pass.pending = {}
  /\ EndPass("completed")
  /\ UNCHANGED <<index, lock>> /\ PassFrame

-----------------------------------------------------------------------------
(* Crash and restart *)

Crash ==
  /\ up /\ crashes < MaxCrashes
  /\ crashes' = crashes + 1 /\ up' = FALSE
  /\ search' = [s \in Searches |-> Idle]
  /\ pass' = NoPass /\ inProgress' = FALSE /\ lock' = NoOne
  /\ UNCHANGED <<vault, index, embedJob>>

\* Engine::new; recover_jobs closes the row of an interrupted pass.
Restart ==
  /\ ~up /\ up' = TRUE
  /\ embedJob' = IF embedJob = "running" THEN "failed" ELSE embedJob
  /\ UNCHANGED <<vault, index, lock, search, pass, inProgress, crashes>>

-----------------------------------------------------------------------------
Init ==
  /\ disk = [n \in Notes |-> NoFile] /\ clock = 0
  /\ chunks = [n \in Notes |-> NoText] /\ vectors = [n \in Notes |-> NoText]
  /\ source = [n \in Notes |-> NoFp] /\ embedded = [n \in Notes |-> NoFp]
  /\ embedJob = "none" /\ up = TRUE /\ lock = NoOne
  /\ search = [s \in Searches |-> Idle]
  /\ pass = NoPass /\ inProgress = FALSE
  /\ edits = 0 /\ crashes = 0

\* The handler of one request runs on.
SearchStep(s) ==
  \/ SyncBegin(s) \/ SyncFingerprint(s) \/ SyncRead(s) \/ SyncInsert(s)
  \/ SyncStamp(s) \/ PruneChunks(s) \/ PruneVectors(s) \/ PruneSource(s)
  \/ SyncEnd(s) \/ SpawnEmbedding(s) \/ Retrieve(s)

PassStep ==
  \/ PassCount \/ PassList \/ PassFingerprint \/ PassRead \/ PassEmbed
  \/ PassEmbedFails \/ PassStore \/ PassInsert \/ PassStamp \/ PassEnd

Next ==
  \/ \E n \in Notes : DeleteNote(n) \/ \E t \in Texts : WriteNote(n, t)
  \/ \E s \in Searches : SearchStep(s) \/ \E v \in Vaults : Request(s, v)
  \/ PassStep
  \/ Crash \/ Restart

Spec == Init /\ [][Next]_vars

\* Handlers and the pass are polled to their end (the mutex is handed over
\* fairly), the embedder is reached again and again, the engine is started
\* again, and the user goes on searching.
Fairness ==
  /\ \A s \in Searches : SF_vars(SearchStep(s))
  /\ SF_vars(PassStep) /\ SF_vars(PassEmbed) /\ WF_vars(Restart)
  /\ \A s \in Searches : WF_vars(\E v \in Vaults : Request(s, v))

FairSpec == Spec /\ Fairness

-----------------------------------------------------------------------------
(* Correctness *)

\* What the index should hold of a note.
Truth(n) == IF disk[n] = NoFile THEN NoText ELSE RowsOf(disk[n].text)

\* s is about to read the index, its sync succeeded, and the vault has not
\* changed since that sync began.
FreshSearch(s) ==
  SearchAt(s, "retrieve") /\ lock = NoOne /\ search[s].quiet /\ search[s].synced

\* "Bring the index in line with the Markdown notes under root" (index.rs:154):
\* a fresh search retrieves exactly the text of the vault's notes and of no
\* other note.
FreshSearchIsExact ==
  \A s \in Searches :
    FreshSearch(s) =>
      \A n \in Notes :
        chunks[n] = IF VaultOf[n] = search[s].vault THEN Truth(n) ELSE NoText

\* The same for the notes that can be read, through crashes and failing
\* statements in the middle of a sync: stamping a note last makes the next sync
\* index it again (index.rs, sync_vault_blocking).
PresentNotesAreExact ==
  \A s \in Searches :
    FreshSearch(s) =>
      \A n \in Notes : VaultOf[n] = search[s].vault /\ Readable(n)
                       => chunks[n] = Truth(n)

\* "returning its fingerprint so the two stay in lockstep" (index.rs:472) and
\* "an interrupted run simply leaves work pending" (index.rs:221): a note that
\* is not pending, and has not changed since, has its own vectors.  Holds while
\* no statement fails and the engine does not crash.  Does not hold otherwise:
\* a note embedded before it is indexed is stamped early, is taken up once
\* more, and loses its vectors for good when that second run is interrupted.
VectorsInLockstep ==
  lock = NoOne =>
    \A n \in Notes :
      disk[n] # NoFile /\ embedded[n] = Fp(n) /\ source[n] = Fp(n)
      => vectors[n] = Truth(n)

\* "self-healing" (index.rs:220): once the user leaves the notes alone and
\* keeps to one vault, the next searches get its readable notes embedded.
EmbeddingsCatchUp ==
  \A v \in Vaults :
    <>[](\A s \in Searches : search[s].vault \in {v, NoOne})
      => <>[](\A n \in Notes :
                VaultOf[n] = v /\ Readable(n) => vectors[n] = Truth(n))

=============================================================================
