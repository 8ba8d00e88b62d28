----------------------------- MODULE VaultProofs -----------------------------
(***************************************************************************)
(* Proofs about VaultIndex, for every set of notes, of vaults, of texts    *)
(* and of requests served at once, and any number of edits.  First what    *)
(* holds though statements fail and the engine crashes: a search whose     *)
(* sync succeeded reads the text of every note that can be read.  Then     *)
(* what takes that nothing fails: it reads nothing else, and the vectors   *)
(* of a note that is not pending are those of its text.                    *)
(***************************************************************************)
EXTENDS VaultIndex, TLAPS

\* Two changes of a note never carry one mtime; otherwise one may go unnoticed.
DistinctTimes == SameSecond = FALSE

\* A sync prunes the notes of the other vaults.  With several vaults, one that is cut
\* short leaves them stamped without rows, and one search spoils what another synced.
OneVault == \A v, w \in Vaults : v = w
OneSearch == \A s, t \in Searches : s = t
Unfailing == ~IndexFails /\ MaxCrashes = 0
Orderly == OneVault \/ (Unfailing /\ OneSearch)

-----------------------------------------------------------------------------
(* The inductive invariant *)

Fps == Nat \X Nat
File == [text : Texts, mtime : Nat]

AtNote  == {"read", "insert", "stamp"}
Pruning == {"pruneVectors", "pruneSource"}
Syncing == {"files"} \cup AtNote \cup Pruning
Points  == {"idle", "sync", "spawn", "retrieve"} \cup Syncing

Handler == [at : Points, vault : Vaults \cup {NoOne}, present : SUBSET Notes,
            todo : SUBSET Notes, note : Notes \cup {NoOne}, fp : Fps \cup {NoFp},
            text : Texts \cup {NoText}, quiet : BOOLEAN, synced : BOOLEAN]

PassPoints == {"none", "count", "list", "next", "read", "embed", "store", "insert", "stamp"}

PassRecord == [at : PassPoints, pending : SUBSET Notes, note : Notes \cup {NoOne},
               fp : Fps \cup {NoFp}, text : Texts \cup {NoText}]

\* The mtimes on disk and in the index lie in the past.
DiskTyped == /\ disk \in [Notes -> File \cup {NoFile}] /\ clock \in Nat
             /\ \A n \in Notes : disk[n] # NoFile => disk[n].mtime <= clock

RowsTyped == /\ chunks \in [Notes -> Texts \cup {NoText}]
             /\ source \in [Notes -> Fps \cup {NoFp}]
             /\ \A n \in Notes : source[n] # NoFp => source[n][1] <= clock

\* What a handler holds where it is.
Equipped(h) ==
  /\ h.at # "idle" => h.vault \in Vaults
  /\ h.at \in AtNote => /\ h.note \in h.todo /\ h.fp \in Fps /\ h.fp[1] <= clock
  /\ h.at \in {"insert", "stamp"} => h.text \in Texts
  /\ h.at \in Pruning => h.note \in Notes \ h.present
  /\ h.todo \subseteq h.present

HandlersTyped == /\ search \in [Searches -> Handler]
                 /\ \A s \in Searches : Equipped(search[s])

\* The mutex is held over a whole sync, and while vectors are stored.
MutexHeld == /\ \A s \in Searches : search[s].at \in Syncing <=> lock = s
             /\ pass.at \in {"insert", "stamp"} <=> lock = Pass

\* There is a pass only while the flag says so.
PassHeld == /\ pass \in PassRecord /\ (~inProgress => pass = NoPass)
            /\ pass.at = "read" => pass.note \in Notes

\* A stamped note has its rows, unless it is being pruned from another vault.
Pruned(n) == \E s \in Searches : /\ search[s].at \in Pruning /\ search[s].note = n
                                 /\ VaultOf[n] # search[s].vault
Stamped(n) == Orderly /\ disk[n] # NoFile /\ source[n] = Fp(n) =>
                chunks[n] = RowsOf(disk[n].text) \/ Pruned(n)

\* A note in work is not stamped; what is known of it is current unless it changed.
Working(h) ==
  /\ h.at \in AtNote =>
       /\ disk[h.note] # NoFile => source[h.note] # Fp(h.note)
       /\ h.quiet => disk[h.note] # NoFile /\ h.fp = Fp(h.note)
  /\ h.at \in {"insert", "stamp"} =>
       (disk[h.note] # NoFile /\ h.fp = Fp(h.note) => h.text = disk[h.note].text)
  /\ h.at = "stamp" => chunks[h.note] = RowsOf(h.text)

\* A note that was not found, and came back since, is not stamped.
Absent(h) ==
  h.at \in Syncing =>
    \A n \in Notes \ h.present :
      disk[n] # NoFile /\ VaultOf[n] = h.vault => source[n] # Fp(n)

\* As long as the vault is quiet, each readable note is still to do, or stamped.
Listed(h) ==
  h.at \in Syncing /\ h.quiet =>
    \A n \in Notes \ h.todo : VaultOf[n] = h.vault /\ Readable(n) => source[n] = Fp(n)

\* After a sync that succeeded all of them are stamped.
Synced(h) ==
  h.at \in {"spawn", "retrieve"} /\ h.quiet /\ h.synced =>
    \A n \in Notes : VaultOf[n] = h.vault /\ Readable(n) => source[n] = Fp(n)

Sound(h) == Orderly => Working(h) /\ Absent(h) /\ Listed(h) /\ Synced(h)

Inv == /\ DiskTyped /\ RowsTyped /\ HandlersTyped /\ MutexHeld /\ PassHeld
       /\ \A n \in Notes : Stamped(n)
       /\ \A s \in Searches : Sound(search[s])

-----------------------------------------------------------------------------
(* Facts about fingerprints and mutual exclusion *)

LEMMA FpTyped ==
  ASSUME DiskTyped, NEW n \in Notes, disk[n] # NoFile
  PROVE  /\ disk[n] \in File /\ Fp(n) \in Fps
         /\ Fp(n)[1] = disk[n].mtime /\ Fp(n)[1] <= clock
BY ConstantsAssumption DEF DiskTyped, File, Fp, Fps

LEMMA OneHolder ==
  ASSUME MutexHeld, NEW s \in Searches, search[s].at \in Syncing \/ lock = NoOne
  PROVE  \A u \in Searches \ {s} : search[u].at \notin Syncing
BY ConstantsAssumption DEF MutexHeld

\* In one vault nothing is pruned from another one.
LEMMA OneVaultPrunes ==
  ASSUME OneVault, HandlersTyped, NEW n \in Notes PROVE ~Pruned(n)
<1>1. \A s \in Searches : search[s].at \in Pruning => VaultOf[n] = search[s].vault
  BY ConstantsAssumption DEF OneVault, HandlersTyped, Equipped, Pruning
<1>2. QED
  BY <1>1 DEF Pruned

\* What is being pruned still is, when a handler that does not prune it moves on.
LEMMA StillPruned ==
  ASSUME NEW s \in Searches, \A u \in Searches \ {s} : search'[u] = search[u],
         NEW n \in Notes, search[s].at \in Pruning => search[s].note # n
  PROVE  Pruned(n) => Pruned(n)'
BY DEF Pruned

\* A handler that does nothing while nothing it relies on changes.
LEMMA StillSound ==
  ASSUME NEW u \in Searches, Sound(search[u]), UNCHANGED <<disk, chunks, source>>,
         search'[u] = search[u]
  PROVE  Sound(search[u])'
BY DEF Sound, Working, Absent, Listed, Synced, Readable, Fp

\* A handler outside of the mutex, while the row of a note that is not stamped changes.
LEMMA OutsideSound ==
  ASSUME NEW u \in Searches, Sound(search[u]), search[u].at \notin Syncing,
         UNCHANGED disk, search'[u] = search[u],
         NEW n \in Notes, Orderly /\ disk[n] # NoFile => source[n] # Fp(n),
         \A m \in Notes \ {n} : source'[m] = source[m]
  PROVE  Sound(search[u])'
<1>1. /\ Working(search[u])' /\ Absent(search[u])' /\ Listed(search[u])'
  BY DEF Working, Absent, Listed, Syncing, AtNote
<1>2. Orderly => Synced(search[u])'
  BY DEF Sound, Synced, Readable, Fp
<1>3. QED
  BY <1>1, <1>2 DEF Sound

\* One handler steps.
LEMMA HandlerSteps ==
  ASSUME Inv, NEW s \in Searches, UNCHANGED <<disk, clock>>, RowsTyped',
         search' \in [Searches -> Handler], Equipped(search[s])', Sound(search[s])',
         \A u \in Searches \ {s} : search'[u] = search[u] /\ Sound(search[u])',
         \A n \in Notes : Stamped(n)',
         \/ lock' = lock /\ (search'[s].at \in Syncing <=> search[s].at \in Syncing)
         \/ lock = NoOne /\ lock' = s /\ search'[s].at \in Syncing
         \/ lock = s /\ lock' = NoOne /\ search'[s].at \notin Syncing,
         \/ UNCHANGED <<pass, inProgress>>
         \/ ~inProgress /\ inProgress' = TRUE /\ pass' = [pass EXCEPT !.at = "count"]
  PROVE  Inv'
<1>0. PassHeld' /\ (pass'.at \in {"insert", "stamp"} <=> pass.at \in {"insert", "stamp"})
  BY DEF Inv, PassHeld, NoPass, PassRecord, PassPoints
<1>1. DiskTyped'
  BY DEF Inv, DiskTyped
<1>2. HandlersTyped'
  <2>1. \A u \in Searches \ {s} : Equipped(search[u])'
    BY DEF Inv, HandlersTyped, Equipped
  <2>2. QED
    BY <2>1 DEF HandlersTyped
<1>3. MutexHeld'
  <2>1. \A u \in Searches \ {s} : search'[u].at = search[u].at
    OBVIOUS
  <2>2. QED
    BY <2>1, <1>0, ConstantsAssumption DEF Inv, MutexHeld
<1>4. \A u \in Searches : Sound(search[u])'
  OBVIOUS
<1>5. QED
  BY <1>0, <1>1, <1>2, <1>3, <1>4 DEF Inv

\* One handler steps, and the tables stay as they are.
LEMMA HandlerMoves ==
  ASSUME Inv, NEW s \in Searches, UNCHANGED <<disk, clock, chunks, source>>,
         search' \in [Searches -> Handler], Equipped(search[s])', Sound(search[s])',
         \A u \in Searches \ {s} : search'[u] = search[u],
         \/ lock' = lock /\ (search'[s].at \in Syncing <=> search[s].at \in Syncing)
         \/ lock = NoOne /\ lock' = s /\ search'[s].at \in Syncing
         \/ lock = s /\ lock' = NoOne /\ search'[s].at \notin Syncing,
         \/ UNCHANGED <<pass, inProgress>>
         \/ ~inProgress /\ inProgress' = TRUE /\ pass' = [pass EXCEPT !.at = "count"],
         search[s].at \in Pruning =>
           \/ OneVault
           \/ /\ search'[s].at \in Pruning
              /\ search'[s].note = search[s].note /\ search'[s].vault = search[s].vault
  PROVE  Inv'
<1>1. RowsTyped'
  BY DEF Inv, RowsTyped
<1>2. \A n \in Notes : Stamped(n)'
  <2> SUFFICES ASSUME NEW n \in Notes, Orderly, disk[n] # NoFile, source[n] = Fp(n)
               PROVE  chunks[n] = RowsOf(disk[n].text) \/ Pruned(n)'
    BY DEF Stamped, Fp
  <2>1. CASE OneVault
    BY <2>1, OneVaultPrunes DEF Inv, Stamped
  <2>2. CASE ~OneVault
    BY <2>2 DEF Inv, Stamped, Pruned
  <2>3. QED
    BY <2>1, <2>2
<1>3. \A u \in Searches \ {s} : Sound(search[u])'
  BY StillSound DEF Inv
<1>4. QED
  BY <1>1, <1>2, <1>3, HandlerSteps

-----------------------------------------------------------------------------
(* The vault changes *)

\* Every handler notices that the vault changed, and keeps what else it holds.
LEMMA Noticed ==
  ASSUME HandlersTyped, VaultChanged
  PROVE  /\ search' \in [Searches -> Handler]
         /\ \A s \in Searches :
              /\ search'[s].at = search[s].at /\ search'[s].vault = search[s].vault
              /\ search'[s].note = search[s].note /\ search'[s].fp = search[s].fp
              /\ search'[s].text = search[s].text /\ search'[s].todo = search[s].todo
              /\ search'[s].present = search[s].present /\ ~search'[s].quiet
<1>1. \A h \in Handler : [h EXCEPT !.quiet = FALSE] \in Handler
  BY DEF Handler
<1>2. \A s \in Searches : search[s] \in Handler
  BY DEF HandlersTyped
<1>3. \A s \in Searches : search'[s] = [search[s] EXCEPT !.quiet = FALSE]
  BY DEF VaultChanged
<1>4. search' \in [Searches -> Handler]
  BY <1>1, <1>2 DEF VaultChanged
<1>5. QED
  BY <1>2, <1>3, <1>4 DEF Handler

LEMMA WriteKeeps ==
  ASSUME Inv, DistinctTimes, NEW n \in Notes, NEW t \in Texts, WriteNote(n, t) PROVE Inv'
<1>1. /\ clock \in Nat /\ clock' = clock + 1
      /\ disk' = [disk EXCEPT ![n] = [text |-> t, mtime |-> clock']]
      /\ UNCHANGED <<chunks, source, lock, pass, inProgress>>
  BY DEF WriteNote, DistinctTimes, index, Inv, DiskTyped
<1>2. /\ search' \in [Searches -> Handler]
      /\ \A s \in Searches :
           /\ search'[s].at = search[s].at /\ search'[s].vault = search[s].vault
           /\ search'[s].note = search[s].note /\ search'[s].fp = search[s].fp
           /\ search'[s].text = search[s].text /\ search'[s].todo = search[s].todo
           /\ search'[s].present = search[s].present /\ ~search'[s].quiet
  BY Noticed DEF WriteNote, Inv
<1>3. /\ Fp(n)' = <<clock', SizeOf[t]>> /\ disk'[n] # NoFile
      /\ \A m \in Notes \ {n} : disk'[m] = disk[m] /\ Fp(m)' = Fp(m)
  BY <1>1, SentinelsAssumption DEF Fp, Inv, DiskTyped
<1>4. DiskTyped'
  BY <1>1 DEF Inv, DiskTyped, File
<1>5. RowsTyped'
  BY <1>1 DEF Inv, RowsTyped, Fps
<1>6. \A s \in Searches : Equipped(search[s])'
  BY <1>1, <1>2 DEF Inv, HandlersTyped, Equipped, Fps
<1>7. source[n] # Fp(n)' /\ \A f \in Fps : f[1] <= clock => f # Fp(n)'
  BY <1>1, <1>3, SentinelsAssumption, ConstantsAssumption DEF Inv, RowsTyped, Fps
<1>8. \A m \in Notes : Stamped(m)'
  BY <1>1, <1>2, <1>3, <1>7 DEF Inv, Stamped, Pruned
<1>9. ASSUME NEW s \in Searches PROVE Sound(search[s])'
  <2> DEFINE h == search[s]
  <2>1. /\ search'[s].at = h.at /\ search'[s].note = h.note /\ search'[s].fp = h.fp
        /\ search'[s].text = h.text /\ search'[s].present = h.present
        /\ search'[s].vault = h.vault /\ ~search'[s].quiet
    BY <1>2
  <2>2. Equipped(h) /\ Sound(h) /\ h \in Handler
    BY DEF Inv, HandlersTyped
  <2>3. Orderly => Working(search[s])'
    <3>1. h.at \in AtNote => h.note \in Notes /\ h.fp # Fp(n)'
      BY <1>7, <2>2 DEF Equipped, Handler
    <3>2. QED
      BY <1>1, <1>3, <1>7, <2>1, <2>2, <3>1 DEF Sound, Working, AtNote
  <2>4. Orderly => Absent(search[s])'
    BY <1>1, <1>3, <1>7, <2>1, <2>2 DEF Sound, Absent
  <2>5. QED
    BY <2>1, <2>3, <2>4 DEF Sound, Listed, Synced
<1>10. MutexHeld' /\ PassHeld'
  BY <1>1, <1>2 DEF Inv, MutexHeld, PassHeld
<1>11. QED
  BY <1>2, <1>4, <1>5, <1>6, <1>8, <1>9, <1>10 DEF Inv, HandlersTyped

LEMMA DeleteKeeps ==
  ASSUME Inv, NEW n \in Notes, DeleteNote(n) PROVE Inv'
<1>1. /\ disk' = [disk EXCEPT ![n] = NoFile]
      /\ UNCHANGED <<clock, chunks, source, lock, pass, inProgress>>
  BY DEF DeleteNote, index
<1>2. /\ search' \in [Searches -> Handler]
      /\ \A s \in Searches :
           /\ search'[s].at = search[s].at /\ search'[s].vault = search[s].vault
           /\ search'[s].note = search[s].note /\ search'[s].fp = search[s].fp
           /\ search'[s].text = search[s].text /\ search'[s].todo = search[s].todo
           /\ search'[s].present = search[s].present /\ ~search'[s].quiet
  BY Noticed DEF DeleteNote, Inv
<1>3. /\ disk'[n] = NoFile
      /\ \A m \in Notes \ {n} : disk'[m] = disk[m] /\ Fp(m)' = Fp(m)
  BY <1>1 DEF Fp, Inv, DiskTyped
<1>4. DiskTyped' /\ RowsTyped'
  BY <1>1 DEF Inv, DiskTyped, RowsTyped
<1>5. \A s \in Searches : Equipped(search[s])'
  BY <1>1, <1>2 DEF Inv, HandlersTyped, Equipped, Fps
<1>6. \A m \in Notes : Stamped(m)'
  BY <1>1, <1>2, <1>3 DEF Inv, Stamped, Pruned
<1>7. ASSUME NEW s \in Searches PROVE Sound(search[s])'
  <2> DEFINE h == search[s]
  <2>1. /\ search'[s].at = h.at /\ search'[s].note = h.note /\ search'[s].fp = h.fp
        /\ search'[s].text = h.text /\ search'[s].present = h.present
        /\ search'[s].vault = h.vault /\ ~search'[s].quiet
    BY <1>2
  <2>2. Equipped(h) /\ Sound(h) /\ h \in Handler
    BY DEF Inv, HandlersTyped
  <2>3. h.at \in AtNote => h.note \in Notes
    BY <2>2 DEF Equipped, Handler
  <2>4. Orderly => Working(search[s])'
    BY <1>1, <1>3, <2>1, <2>2, <2>3 DEF Sound, Working, AtNote
  <2>5. Orderly => Absent(search[s])'
    BY <1>1, <1>3, <2>1, <2>2 DEF Sound, Absent
  <2>6. QED
    BY <2>1, <2>4, <2>5 DEF Sound, Listed, Synced
<1>8. MutexHeld' /\ PassHeld'
  BY <1>1, <1>2 DEF Inv, MutexHeld, PassHeld
<1>9. QED
  BY <1>2, <1>4, <1>5, <1>6, <1>7, <1>8 DEF Inv, HandlersTyped

-----------------------------------------------------------------------------
(* The steps of a sync *)

\* A handler that goes on from h to g, both known to be typed.
LEMMA Advances ==
  ASSUME search \in [Searches -> Handler], NEW s \in Searches, NEW h \in Handler,
         search' = [search EXCEPT ![s] = h]
  PROVE  /\ search' \in [Searches -> Handler] /\ search'[s] = h
         /\ \A u \in Searches \ {s} : search'[u] = search[u]
OBVIOUS

\* A statement fails: the mutex is released, whatever was done stays.
LEMMA ErrorKeeps ==
  ASSUME Inv, NEW s \in Searches, search[s].at \in Syncing, SyncError(s), SyncFrame,
         UNCHANGED index
  PROVE  Inv'
<1>1. search[s] \in Handler /\ Equipped(search[s]) /\ search \in [Searches -> Handler]
  BY DEF Inv, HandlersTyped
<1> DEFINE h == [search[s] EXCEPT !.at = "spawn", !.synced = FALSE]
<1>2. /\ h \in Handler /\ h.at = "spawn" /\ ~h.synced /\ h.todo = search[s].todo
      /\ h.present = search[s].present /\ h.vault = search[s].vault
  BY <1>1 DEF Handler, Points
<1>3. search' = [search EXCEPT ![s] = h]
  BY <1>1 DEF SyncError, Handler
<1>4. /\ search' \in [Searches -> Handler] /\ search'[s] = h
      /\ \A u \in Searches \ {s} : search'[u] = search[u]
  BY <1>1, <1>2, <1>3, Advances
<1>5. Equipped(search[s])' /\ Sound(search[s])'
  BY <1>1, <1>2, <1>4
     DEF Equipped, Sound, Working, Absent, Listed, Synced, Syncing, AtNote, Pruning
<1>6. search'[s].at \notin Syncing /\ lock = s /\ lock' = NoOne
  BY <1>2, <1>4 DEF Syncing, AtNote, Pruning, SyncError, Inv, MutexHeld
<1>7. QED
  <2>1. CASE OneVault
    BY <1>4, <1>5, <1>6, <2>1, HandlerMoves DEF SyncFrame, SearchFrame, vault, index
  <2>2. CASE ~Orderly
    BY <1>4, <1>5, <1>6, <2>2, HandlerSteps DEF SyncFrame, SearchFrame, vault, index, Stamped,
       Sound, Inv, RowsTyped
  <2>3. QED
    BY <2>1, <2>2 DEF SyncError, Orderly, Unfailing

LEMMA RequestKeeps ==
  ASSUME Inv, NEW s \in Searches, NEW v \in Vaults, Request(s, v) PROVE Inv'
<1> DEFINE h == [Idle EXCEPT !.at = "sync", !.vault = v]
<1>1. h \in Handler /\ h.at = "sync" /\ h.vault = v /\ h.todo = {} /\ h.present = {}
  BY DEF Idle, Handler, Points
<1>2. /\ search' \in [Searches -> Handler] /\ search'[s] = h
      /\ \A u \in Searches \ {s} : search'[u] = search[u]
  BY <1>1, Advances DEF Request, Step, Inv, HandlersTyped
<1>3. Equipped(search[s])' /\ Sound(search[s])'
  BY <1>1, <1>2
     DEF Equipped, Sound, Working, Absent, Listed, Synced, Syncing, AtNote, Pruning
<1>4. search'[s].at \notin Syncing /\ search[s].at \notin Syncing
  BY <1>1, <1>2 DEF Syncing, AtNote, Pruning, Request, SearchAt
<1>5. QED
  BY <1>2, <1>3, <1>4, HandlerMoves
     DEF Request, SyncFrame, SearchFrame, vault, index, Syncing

\* A note of this vault that is not listed is not there.
LEMMA SyncBeginKeeps ==
  ASSUME Inv, NEW s \in Searches, SyncBegin(s) PROVE Inv'
<1> DEFINE found == {n \in Notes : VaultOf[n] = search[s].vault /\ disk[n] # NoFile}
           h == [search[s] EXCEPT !.at = "files", !.present = found, !.todo = found,
                                  !.quiet = TRUE, !.synced = TRUE]
<1>1. search[s] \in Handler /\ Equipped(search[s]) /\ search \in [Searches -> Handler]
  BY DEF Inv, HandlersTyped
<1>2. /\ h \in Handler /\ h.at = "files" /\ h.todo = found /\ h.present = found
      /\ h.vault = search[s].vault /\ search[s].at = "sync"
  BY <1>1 DEF Handler, Points, Syncing, SyncBegin, SearchAt
<1>3. /\ search' \in [Searches -> Handler] /\ search'[s] = h
      /\ \A u \in Searches \ {s} : search'[u] = search[u]
  BY <1>1, <1>2, Advances DEF SyncBegin, Step
<1>4. \A n \in Notes \ found : VaultOf[n] = search[s].vault => disk[n] = NoFile
  OBVIOUS
<1>5. Equipped(search[s])'
  BY <1>1, <1>2, <1>3 DEF Equipped, AtNote, Pruning
<1>6. UNCHANGED <<disk, clock, chunks, source>>
  BY DEF SyncBegin, SyncFrame, SearchFrame, vault, index
<1>7. Sound(search[s])'
  BY <1>2, <1>3, <1>4, <1>6 DEF Sound, Working, Absent, Listed, Synced, AtNote, Readable
<1>8. lock = NoOne /\ lock' = s /\ search'[s].at \in Syncing
  BY <1>2, <1>3 DEF SyncBegin, Syncing
<1>9. QED
  BY <1>2, <1>3, <1>5, <1>6, <1>7, <1>8, HandlerMoves DEF SyncBegin, SyncFrame, Pruning

LEMMA SyncFingerprintKeeps ==
  ASSUME Inv, NEW s \in Searches, SyncFingerprint(s) PROVE Inv'
<1>1. /\ search[s] \in Handler /\ Equipped(search[s]) /\ search \in [Searches -> Handler]
      /\ Sound(search[s]) /\ search[s].at = "files"
  BY DEF Inv, HandlersTyped, SyncFingerprint, SearchAt
<1>2. /\ UNCHANGED <<disk, clock, chunks, source, lock, pass, inProgress>>
  BY DEF SyncFingerprint, SyncFrame, SearchFrame, vault, index
<1>3. PICK n \in search[s].todo :
        \/ /\ disk[n] = NoFile \/ (disk[n] # NoFile /\ Fp(n) = source[n])
           /\ search' = [search EXCEPT ![s].todo = @ \ {n}]
        \/ /\ disk[n] # NoFile /\ Fp(n) # source[n]
           /\ search' = [search EXCEPT ![s].at = "read", ![s].note = n, ![s].fp = Fp(n)]
  BY DEF SyncFingerprint
<1>4. n \in Notes /\ n \in search[s].present
  BY <1>1 DEF Handler, Equipped
<1>5. CASE /\ disk[n] = NoFile \/ (disk[n] # NoFile /\ Fp(n) = source[n])
           /\ search' = [search EXCEPT ![s].todo = @ \ {n}]
  <2> DEFINE h == [search[s] EXCEPT !.todo = @ \ {n}]
  <2>1. /\ h \in Handler /\ h.at = "files" /\ h.todo = search[s].todo \ {n}
        /\ h.present = search[s].present /\ h.vault = search[s].vault /\ h.quiet = search[s].quiet
    BY <1>1 DEF Handler
  <2>2. search' = [search EXCEPT ![s] = h]
    BY <1>1, <1>5 DEF Handler
  <2>3. /\ search' \in [Searches -> Handler] /\ search'[s] = h
        /\ \A u \in Searches \ {s} : search'[u] = search[u]
    BY <1>1, <2>1, <2>2, Advances
  <2>4. Equipped(search[s])'
    BY <1>1, <2>1, <2>3 DEF Equipped, AtNote, Pruning
  <2>5. Sound(search[s])'
    BY <1>1, <1>2, <1>5, <2>1, <2>3
       DEF Sound, Working, Absent, Listed, Synced, AtNote, Syncing, Readable, Fp
  <2>6. QED
    BY <1>1, <1>2, <2>1, <2>3, <2>4, <2>5, HandlerMoves DEF Pruning
<1>6. CASE /\ disk[n] # NoFile /\ Fp(n) # source[n]
           /\ search' = [search EXCEPT ![s].at = "read", ![s].note = n, ![s].fp = Fp(n)]
  <2> DEFINE h == [search[s] EXCEPT !.at = "read", !.note = n, !.fp = Fp(n)]
  <2>1. Fp(n) \in Fps /\ Fp(n)[1] <= clock
    BY <1>4, <1>6, FpTyped DEF Inv, DiskTyped, File
  <2>2. /\ h \in Handler /\ h.at = "read" /\ h.note = n /\ h.fp = Fp(n)
        /\ h.todo = search[s].todo /\ h.present = search[s].present /\ h.vault = search[s].vault
        /\ h.quiet = search[s].quiet
    BY <1>1, <1>4, <2>1 DEF Handler, Points, Syncing, AtNote
  <2>3. search' = [search EXCEPT ![s] = h]
    BY <1>1, <1>6 DEF Handler
  <2>4. /\ search' \in [Searches -> Handler] /\ search'[s] = h
        /\ \A u \in Searches \ {s} : search'[u] = search[u]
    BY <1>1, <2>2, <2>3, Advances
  <2>5. Equipped(search[s])'
    BY <1>1, <1>2, <2>1, <2>2, <2>4 DEF Equipped, Pruning
  <2>6. Sound(search[s])'
    BY <1>1, <1>2, <1>6, <2>2, <2>4
       DEF Sound, Working, Absent, Listed, Synced, AtNote, Syncing, Readable, Fp
  <2>7. search[s].at \in Syncing /\ search'[s].at \in Syncing
    BY <1>1, <2>2, <2>4 DEF Syncing, AtNote
  <2>8. QED
    BY <1>1, <1>2, <2>4, <2>5, <2>6, <2>7, HandlerMoves DEF Pruning
<1>7. QED
  BY <1>3, <1>5, <1>6

\* The file at hand is dealt with.
Dealt(h) == [h EXCEPT !.at = "files", !.todo = @ \ {h.note}, !.note = NoOne, !.fp = NoFp,
                      !.text = NoText]

LEMMA NextFileMoves ==
  ASSUME Inv, NEW s \in Searches, search[s].at \in Syncing, NextFile(s)
  PROVE  /\ search' \in [Searches -> Handler] /\ Equipped(search[s])'
         /\ search'[s].at = "files" /\ search'[s].todo = search[s].todo \ {search[s].note}
         /\ search'[s].present = search[s].present /\ search'[s].vault = search[s].vault
         /\ search'[s].quiet = search[s].quiet
         /\ \A u \in Searches \ {s} : search'[u] = search[u]
<1> DEFINE h == Dealt(search[s])
<1>1. search[s] \in Handler /\ Equipped(search[s]) /\ search \in [Searches -> Handler]
  BY DEF Inv, HandlersTyped
<1>2. /\ h \in Handler /\ h.at = "files" /\ h.todo = search[s].todo \ {search[s].note}
      /\ h.present = search[s].present /\ h.vault = search[s].vault /\ h.quiet = search[s].quiet
  BY <1>1 DEF Handler, Dealt, Points, Syncing
<1>3. search' = [search EXCEPT ![s] = h]
  BY <1>1 DEF NextFile, Handler, Dealt
<1>4. /\ search' \in [Searches -> Handler] /\ search'[s] = h
      /\ \A u \in Searches \ {s} : search'[u] = search[u]
  BY <1>1, <1>2, <1>3, Advances
<1>5. Equipped(search[s])'
  BY <1>1, <1>2, <1>4 DEF Equipped, Syncing, AtNote, Pruning
<1>6. QED
  BY <1>2, <1>4, <1>5

LEMMA SyncReadKeeps ==
  ASSUME Inv, NEW s \in Searches, SyncRead(s) PROVE Inv'
<1> DEFINE n == search[s].note
<1>1. /\ search[s] \in Handler /\ Equipped(search[s]) /\ search \in [Searches -> Handler]
      /\ Sound(search[s]) /\ search[s].at = "read" /\ search[s].at \in Syncing
  BY DEF Inv, HandlersTyped, SyncRead, SearchAt, Syncing, AtNote
<1>2. n \in Notes /\ n \in search[s].present /\ (Orderly /\ disk[n] # NoFile => source[n] # Fp(n))
  BY <1>1 DEF Equipped, Handler, Sound, Working, AtNote
<1>3. SyncFrame /\ UNCHANGED <<disk, clock, pass, inProgress>>
  BY DEF SyncRead, SyncFrame, SearchFrame, vault
<1>4. CASE ~Readable(n) /\ NextFile(s) /\ UNCHANGED <<index, lock>>
  <2>1. /\ search' \in [Searches -> Handler] /\ Equipped(search[s])'
        /\ search'[s].at = "files" /\ search'[s].todo = search[s].todo \ {n}
        /\ search'[s].present = search[s].present /\ search'[s].vault = search[s].vault
        /\ search'[s].quiet = search[s].quiet
        /\ \A u \in Searches \ {s} : search'[u] = search[u]
    BY <1>1, <1>4, NextFileMoves
  <2>2. UNCHANGED <<disk, clock, chunks, source, lock>>
    BY <1>3, <1>4 DEF index
  <2>3. Sound(search[s])'
    BY <1>1, <1>4, <2>1, <2>2
       DEF Sound, Working, Absent, Listed, Synced, AtNote, Readable, Fp
  <2>4. search'[s].at \in Syncing
    BY <2>1 DEF Syncing
  <2>5. QED
    BY <1>1, <1>3, <2>1, <2>2, <2>3, <2>4, HandlerMoves DEF Pruning
<1>5. CASE /\ Readable(n)
           /\ chunks' = [chunks EXCEPT ![n] = NoText]
           /\ search' = [search EXCEPT ![s].at = "insert", ![s].text = disk[n].text]
           /\ UNCHANGED <<source, embedded, vectors, lock>>
  <2> DEFINE h == [search[s] EXCEPT !.at = "insert", !.text = disk[n].text]
  <2>1. disk[n] # NoFile /\ disk[n].text \in Texts
    BY <1>2, <1>5 DEF Readable, Inv, DiskTyped, File
  <2>2. /\ h \in Handler /\ h.at = "insert" /\ h.note = n /\ h.fp = search[s].fp
        /\ h.text = disk[n].text /\ h.todo = search[s].todo
        /\ h.present = search[s].present /\ h.vault = search[s].vault /\ h.quiet = search[s].quiet
    BY <1>1, <2>1 DEF Handler, Points, Syncing, AtNote
  <2>3. search' = [search EXCEPT ![s] = h]
    BY <1>1, <1>5 DEF Handler
  <2>4. /\ search' \in [Searches -> Handler] /\ search'[s] = h
        /\ \A u \in Searches \ {s} : search'[u] = search[u]
    BY <1>1, <2>2, <2>3, Advances
  <2>5. Equipped(search[s])'
    BY <1>1, <1>3, <2>1, <2>2, <2>4 DEF Equipped, AtNote, Pruning
  <2>6. Sound(search[s])'
    BY <1>1, <1>3, <1>5, <2>2, <2>4
       DEF Sound, Working, Absent, Listed, Synced, AtNote, Syncing, Readable, Fp
  <2>7. RowsTyped'
    BY <1>3, <1>5 DEF Inv, RowsTyped
  <2>8. \A m \in Notes : Stamped(m)'
    BY <1>1, <1>2, <1>3, <1>5, <2>4, StillPruned
       DEF Inv, RowsTyped, Stamped, Fp, Pruning
  <2>9. \A u \in Searches \ {s} : Sound(search[u])'
    BY <1>1, <1>2, <1>3, <1>5, <2>4, OneHolder, OutsideSound DEF Inv
  <2>10. search'[s].at \in Syncing
    BY <2>2, <2>4 DEF Syncing, AtNote
  <2>11. QED
    BY <1>1, <1>3, <1>5, <2>4, <2>5, <2>6, <2>7, <2>8, <2>9, <2>10, HandlerSteps
<1>6. CASE Readable(n) /\ SyncError(s) /\ UNCHANGED index
  BY <1>1, <1>3, <1>6, ErrorKeeps
<1>7. QED
  BY <1>4, <1>5, <1>6 DEF SyncRead

LEMMA SyncInsertKeeps ==
  ASSUME Inv, NEW s \in Searches, SyncInsert(s) PROVE Inv'
<1> DEFINE n == search[s].note
           h == [search[s] EXCEPT !.at = "stamp"]
<1>1. /\ search[s] \in Handler /\ Equipped(search[s]) /\ search \in [Searches -> Handler]
      /\ Sound(search[s]) /\ search[s].at = "insert" /\ search[s].at \in Syncing
  BY DEF Inv, HandlersTyped, SyncInsert, SearchAt, Syncing, AtNote
<1>2. /\ n \in Notes /\ (Orderly /\ disk[n] # NoFile => source[n] # Fp(n))
      /\ RowsOf(search[s].text) \in Texts \cup {NoText}
  BY <1>1 DEF Equipped, Handler, Sound, Working, AtNote, RowsOf
<1>3. SyncFrame /\ UNCHANGED <<disk, clock, pass, inProgress>>
  BY DEF SyncInsert, SyncFrame, SearchFrame, vault
<1>4. CASE SyncError(s) /\ UNCHANGED index
  BY <1>1, <1>3, <1>4, ErrorKeeps
<1>5. CASE /\ chunks' = [chunks EXCEPT ![n] = RowsOf(search[s].text)]
           /\ Goto(s, "stamp") /\ UNCHANGED <<source, embedded, vectors, lock>>
  <2>1. /\ h \in Handler /\ h.at = "stamp" /\ h.note = n /\ h.fp = search[s].fp
        /\ h.text = search[s].text /\ h.todo = search[s].todo
        /\ h.present = search[s].present /\ h.vault = search[s].vault /\ h.quiet = search[s].quiet
    BY <1>1 DEF Handler, Points, Syncing, AtNote
  <2>2. search' = [search EXCEPT ![s] = h]
    BY <1>1, <1>5 DEF Goto, Handler
  <2>3. /\ search' \in [Searches -> Handler] /\ search'[s] = h
        /\ \A u \in Searches \ {s} : search'[u] = search[u]
    BY <1>1, <2>1, <2>2, Advances
  <2>4. Equipped(search[s])'
    BY <1>1, <1>3, <2>1, <2>3 DEF Equipped, AtNote, Pruning
  <2>5. chunks'[n] = RowsOf(search[s].text)
    BY <1>2, <1>5 DEF Inv, RowsTyped
  <2>6. Orderly => Working(search[s])'
    BY <1>1, <1>3, <1>5, <2>1, <2>3, <2>5 DEF Sound, Working, AtNote, Fp, RowsOf
  <2>7. Sound(search[s])'
    BY <1>1, <1>3, <1>5, <2>1, <2>3, <2>6
       DEF Sound, Absent, Listed, Synced, Syncing, AtNote, Readable, Fp
  <2>8. RowsTyped'
    BY <1>2, <1>3, <1>5 DEF Inv, RowsTyped
  <2>9. \A m \in Notes : Stamped(m)'
    BY <1>1, <1>2, <1>3, <1>5, <2>3, StillPruned
       DEF Inv, RowsTyped, Stamped, Fp, RowsOf, Pruning
  <2>10. \A u \in Searches \ {s} : Sound(search[u])'
    BY <1>1, <1>2, <1>3, <1>5, <2>3, OneHolder, OutsideSound DEF Inv
  <2>11. search'[s].at \in Syncing
    BY <2>1, <2>3 DEF Syncing, AtNote
  <2>12. QED
    BY <1>1, <1>3, <1>5, <2>3, <2>4, <2>7, <2>8, <2>9, <2>10, <2>11, HandlerSteps
<1>6. QED
  BY <1>4, <1>5 DEF SyncInsert

\* The fingerprint was taken before the text was read: stamped rows are current.
LEMMA SyncStampKeeps ==
  ASSUME Inv, NEW s \in Searches, SyncStamp(s) PROVE Inv'
<1> DEFINE n == search[s].note
           f == search[s].fp
<1>1. /\ search[s] \in Handler /\ Equipped(search[s]) /\ search \in [Searches -> Handler]
      /\ Sound(search[s]) /\ search[s].at = "stamp" /\ search[s].at \in Syncing
  BY DEF Inv, HandlersTyped, SyncStamp, SearchAt, Syncing, AtNote
<1>2. /\ n \in Notes /\ n \in search[s].present /\ f \in Fps /\ f[1] <= clock
      /\ (Orderly /\ disk[n] # NoFile => source[n] # Fp(n))
      /\ Orderly /\ disk[n] # NoFile /\ f = Fp(n) => search[s].text = disk[n].text
      /\ Orderly /\ search[s].quiet => disk[n] # NoFile /\ f = Fp(n)
      /\ Orderly => chunks[n] = RowsOf(search[s].text)
  BY <1>1 DEF Equipped, Handler, Sound, Working, AtNote
<1>3. SyncFrame /\ UNCHANGED <<disk, clock, pass, inProgress>>
  BY DEF SyncStamp, SyncFrame, SearchFrame, vault
<1>4. CASE SyncError(s) /\ UNCHANGED index
  BY <1>1, <1>3, <1>4, ErrorKeeps
<1>5. CASE /\ source' = [source EXCEPT ![n] = f]
           /\ NextFile(s) /\ UNCHANGED <<chunks, embedded, vectors, lock>>
  <2>1. /\ search' \in [Searches -> Handler] /\ Equipped(search[s])'
        /\ search'[s].at = "files" /\ search'[s].todo = search[s].todo \ {n}
        /\ search'[s].present = search[s].present /\ search'[s].vault = search[s].vault
        /\ search'[s].quiet = search[s].quiet
        /\ \A u \in Searches \ {s} : search'[u] = search[u]
    BY <1>1, <1>5, NextFileMoves
  <2>2. /\ source'[n] = f /\ \A m \in Notes \ {n} : source'[m] = source[m]
    BY <1>2, <1>5 DEF Inv, RowsTyped
  <2>3. RowsTyped'
    BY <1>2, <1>3, <1>5 DEF Inv, RowsTyped
  <2>4. \A m \in Notes : Stamped(m)'
    BY <1>1, <1>2, <1>3, <1>5, <2>1, <2>2, StillPruned
       DEF Inv, Stamped, Fp, RowsOf, Pruning
  <2>5. Orderly => Absent(search[s])'
    BY <1>1, <1>2, <1>3, <2>1, <2>2 DEF Sound, Absent, Fp
  <2>6. Orderly => Listed(search[s])'
    BY <1>1, <1>2, <1>3, <2>1, <2>2 DEF Sound, Listed, Readable, Fp
  <2>7. Sound(search[s])'
    BY <2>1, <2>5, <2>6 DEF Sound, Working, Synced, AtNote
  <2>8. \A u \in Searches \ {s} : Sound(search[u])'
    BY <1>1, <1>2, <1>3, <2>1, <2>2, OneHolder, OutsideSound DEF Inv
  <2>9. search'[s].at \in Syncing
    BY <2>1 DEF Syncing
  <2>10. QED
    BY <1>1, <1>3, <1>5, <2>1, <2>3, <2>4, <2>7, <2>8, <2>9, HandlerSteps
<1>6. QED
  BY <1>4, <1>5 DEF SyncStamp

-----------------------------------------------------------------------------
(* Pruning, the end of a sync and the query *)

\* What is pruned was not found: it is in another vault, it is gone, or it came back
\* and is not stamped.  Another search is under way in this vault only.
LEMMA PruneApart ==
  ASSUME Inv, NEW s \in Searches, search[s].at \in Syncing,
         NEW n \in Notes \ search[s].present
  PROVE  /\ Orderly /\ disk[n] # NoFile /\ source[n] = Fp(n) => VaultOf[n] # search[s].vault
         /\ Searches # {s} => (Orderly /\ disk[n] # NoFile => source[n] # Fp(n))
<1>1. /\ Orderly => Absent(search[s])
      /\ search[s].vault \in Vaults /\ VaultOf[n] \in Vaults
  BY ConstantsAssumption
     DEF Inv, Sound, HandlersTyped, Equipped, Syncing, AtNote, Pruning
<1>2. Searches # {s} => ~OneSearch
  BY DEF OneSearch
<1>3. QED
  BY <1>1, <1>2 DEF Absent, Orderly, OneVault

LEMMA PruneChunksKeeps ==
  ASSUME Inv, NEW s \in Searches, PruneChunks(s) PROVE Inv'
<1>1. /\ search[s] \in Handler /\ Equipped(search[s]) /\ search \in [Searches -> Handler]
      /\ Sound(search[s]) /\ search[s].at = "files" /\ search[s].at \in Syncing
  BY DEF Inv, HandlersTyped, PruneChunks, SearchAt, Syncing
<1>2. SyncFrame /\ UNCHANGED <<disk, clock, pass, inProgress>>
  BY DEF PruneChunks, SyncFrame, SearchFrame, vault
<1>3. PICK n \in Removed(s) :
        \/ /\ chunks' = [chunks EXCEPT ![n] = NoText]
           /\ search' = [search EXCEPT ![s].at = "pruneVectors", ![s].note = n]
           /\ UNCHANGED <<source, embedded, vectors, lock>>
        \/ SyncError(s) /\ UNCHANGED index
  BY DEF PruneChunks
<1>4. /\ n \in Notes \ search[s].present
      /\ Orderly /\ disk[n] # NoFile /\ source[n] = Fp(n) => VaultOf[n] # search[s].vault
      /\ Searches # {s} => (Orderly /\ disk[n] # NoFile => source[n] # Fp(n))
  BY <1>1, PruneApart DEF Removed
<1>5. CASE SyncError(s) /\ UNCHANGED index
  BY <1>1, <1>2, <1>5, ErrorKeeps
<1>6. CASE /\ chunks' = [chunks EXCEPT ![n] = NoText]
           /\ search' = [search EXCEPT ![s].at = "pruneVectors", ![s].note = n]
           /\ UNCHANGED <<source, embedded, vectors, lock>>
  <2> DEFINE h == [search[s] EXCEPT !.at = "pruneVectors", !.note = n]
  <2>1. /\ h \in Handler /\ h.at = "pruneVectors" /\ h.note = n
        /\ h.todo = search[s].todo /\ h.present = search[s].present /\ h.vault = search[s].vault
        /\ h.quiet = search[s].quiet
    BY <1>1, <1>4 DEF Handler, Points, Syncing, Pruning
  <2>2. search' = [search EXCEPT ![s] = h]
    BY <1>1, <1>6 DEF Handler
  <2>3. /\ search' \in [Searches -> Handler] /\ search'[s] = h
        /\ \A u \in Searches \ {s} : search'[u] = search[u]
    BY <1>1, <2>1, <2>2, Advances
  <2>4. Equipped(search[s])'
    BY <1>1, <1>4, <2>1, <2>3 DEF Equipped, AtNote
  <2>5. Sound(search[s])'
    BY <1>1, <1>2, <1>6, <2>1, <2>3
       DEF Sound, Working, Absent, Listed, Synced, AtNote, Readable, Fp
  <2>6. RowsTyped'
    BY <1>2, <1>6 DEF Inv, RowsTyped
  <2>7. \A m \in Notes : Stamped(m)'
    <3>1. VaultOf[n] # search[s].vault => Pruned(n)'
      BY <2>1, <2>3 DEF Pruned, Pruning
    <3>2. QED
      BY <1>1, <1>2, <1>4, <1>6, <2>3, <3>1, StillPruned
         DEF Inv, RowsTyped, Stamped, Fp, Pruning
  <2>8. \A u \in Searches \ {s} : Sound(search[u])'
    BY <1>1, <1>2, <1>4, <1>6, <2>3, OneHolder, OutsideSound DEF Inv
  <2>9. search'[s].at \in Syncing
    BY <2>1, <2>3 DEF Syncing, Pruning
  <2>10. QED
    BY <1>1, <1>2, <1>6, <2>3, <2>4, <2>5, <2>6, <2>7, <2>8, <2>9, HandlerSteps
<1>7. QED
  BY <1>3, <1>5, <1>6

LEMMA PruneVectorsKeeps ==
  ASSUME Inv, NEW s \in Searches, PruneVectors(s) PROVE Inv'
<1> DEFINE h == [search[s] EXCEPT !.at = "pruneSource"]
<1>1. /\ search[s] \in Handler /\ Equipped(search[s]) /\ search \in [Searches -> Handler]
      /\ Sound(search[s]) /\ search[s].at = "pruneVectors" /\ search[s].at \in Syncing
  BY DEF Inv, HandlersTyped, PruneVectors, SearchAt, Syncing, Pruning
<1>2. SyncFrame /\ UNCHANGED <<disk, clock, pass, inProgress>>
  BY DEF PruneVectors, SyncFrame, SearchFrame, vault
<1>3. CASE SyncError(s) /\ UNCHANGED index
  BY <1>1, <1>2, <1>3, ErrorKeeps
<1>4. CASE Goto(s, "pruneSource") /\ UNCHANGED <<chunks, source, embedded, lock>>
  <2>1. /\ h \in Handler /\ h.at = "pruneSource" /\ h.note = search[s].note
        /\ h.todo = search[s].todo /\ h.present = search[s].present /\ h.vault = search[s].vault
        /\ h.quiet = search[s].quiet
    BY <1>1 DEF Handler, Points, Syncing, Pruning
  <2>2. search' = [search EXCEPT ![s] = h]
    BY <1>1, <1>4 DEF Goto, Handler
  <2>3. /\ search' \in [Searches -> Handler] /\ search'[s] = h
        /\ \A u \in Searches \ {s} : search'[u] = search[u]
    BY <1>1, <2>1, <2>2, Advances
  <2>4. Equipped(search[s])'
    BY <1>1, <2>1, <2>3 DEF Equipped, AtNote, Pruning
  <2>5. Sound(search[s])'
    BY <1>1, <1>2, <1>4, <2>1, <2>3
       DEF Sound, Working, Absent, Listed, Synced, AtNote, Readable, Fp
  <2>6. search'[s].at \in Syncing
    BY <2>1, <2>3 DEF Syncing, Pruning
  <2>7. QED
    BY <1>1, <1>2, <1>4, <2>1, <2>3, <2>4, <2>5, <2>6, HandlerMoves DEF Pruning
<1>5. QED
  BY <1>3, <1>4 DEF PruneVectors

LEMMA PruneSourceKeeps ==
  ASSUME Inv, NEW s \in Searches, PruneSource(s) PROVE Inv'
<1> DEFINE n == search[s].note
<1>1. /\ search[s] \in Handler /\ Equipped(search[s]) /\ search \in [Searches -> Handler]
      /\ Sound(search[s]) /\ search[s].at = "pruneSource" /\ search[s].at \in Syncing
  BY DEF Inv, HandlersTyped, PruneSource, SearchAt, Syncing, Pruning
<1>2. SyncFrame /\ UNCHANGED <<disk, clock, pass, inProgress>>
  BY DEF PruneSource, SyncFrame, SearchFrame, vault
<1>3. /\ n \in Notes \ search[s].present
      /\ Orderly /\ disk[n] # NoFile /\ source[n] = Fp(n) => VaultOf[n] # search[s].vault
      /\ Searches # {s} => (Orderly /\ disk[n] # NoFile => source[n] # Fp(n))
  <2>1. n \in Notes \ search[s].present
    BY <1>1 DEF Equipped, Pruning
  <2>2. QED
    BY <1>1, <2>1, PruneApart
<1>4. CASE SyncError(s) /\ UNCHANGED index
  BY <1>1, <1>2, <1>4, ErrorKeeps
<1>5. CASE /\ source' = [source EXCEPT ![n] = NoFp]
           /\ NextFile(s) /\ UNCHANGED <<chunks, vectors, lock>>
  <2>1. /\ search' \in [Searches -> Handler] /\ Equipped(search[s])'
        /\ search'[s].at = "files" /\ search'[s].todo = search[s].todo \ {n}
        /\ search'[s].present = search[s].present /\ search'[s].vault = search[s].vault
        /\ search'[s].quiet = search[s].quiet
        /\ \A u \in Searches \ {s} : search'[u] = search[u]
    BY <1>1, <1>5, NextFileMoves
  <2>2. source'[n] = NoFp /\ \A m \in Notes \ {n} : source'[m] = source[m]
    BY <1>3, <1>5 DEF Inv, RowsTyped
  <2>3. \A m \in Notes : Fp(m)' = Fp(m) /\ (disk[m] # NoFile => Fp(m) # NoFp)
    <3>1. ASSUME NEW m \in Notes, disk[m] # NoFile PROVE Fp(m) \in Fps
      BY <3>1, FpTyped DEF Inv
    <3>2. \A m \in Notes : Fp(m)' = Fp(m)
      BY <1>2 DEF Fp
    <3>3. QED
      BY <3>1, <3>2, SentinelsAssumption DEF Fps
  <2>4. RowsTyped'
    BY <1>2, <1>3, <1>5 DEF Inv, RowsTyped
  <2>5. \A m \in Notes : Stamped(m)'
    <3>1. ASSUME NEW m \in Notes \ {n} PROVE Pruned(m) => Pruned(m)'
      BY <2>1, StillPruned
    <3>2. ASSUME NEW m \in Notes, m = n PROVE Stamped(m)'
      <4>1. source'[m] = NoFp /\ (disk'[m] # NoFile => Fp(m)' # NoFp)
        BY <1>2, <2>2, <2>3, <3>2
      <4>2. QED
        BY <4>1 DEF Stamped
    <3>3. ASSUME NEW m \in Notes \ {n} PROVE Stamped(m)'
      <4>1. Stamped(m) /\ source'[m] = source[m] /\ chunks' = chunks /\ disk' = disk
        BY <1>2, <1>5, <2>2 DEF Inv
      <4>2. Fp(m)' = Fp(m) /\ (Pruned(m) => Pruned(m)')
        BY <2>3, <3>1
      <4>3. QED
        BY <4>1, <4>2 DEF Stamped
    <3>4. QED
      BY <3>2, <3>3
  <2>6. Orderly => Absent(search[s])'
    BY <1>1, <1>2, <2>1, <2>2, <2>3 DEF Sound, Absent, Fp
  <2>7. Orderly => Listed(search[s])'
    <3>1. n \notin search[s].todo
      BY <1>1, <1>3 DEF Equipped
    <3>2. QED
      BY <1>1, <1>2, <1>3, <2>1, <2>2, <3>1 DEF Sound, Listed, Readable, Fp
  <2>8. Sound(search[s])'
    BY <2>1, <2>6, <2>7 DEF Sound, Working, Synced, AtNote
  <2>9. \A u \in Searches \ {s} : Sound(search[u])'
    BY <1>1, <1>2, <1>3, <2>1, <2>2, OneHolder, OutsideSound DEF Inv
  <2>10. search'[s].at \in Syncing
    BY <2>1 DEF Syncing
  <2>11. QED
    BY <1>1, <1>2, <1>5, <2>1, <2>4, <2>5, <2>8, <2>9, <2>10, HandlerSteps
<1>6. QED
  BY <1>4, <1>5 DEF PruneSource

\* Everything was dealt with: what can be read is stamped.
LEMMA SyncEndKeeps ==
  ASSUME Inv, NEW s \in Searches, SyncEnd(s) PROVE Inv'
<1> DEFINE h == [search[s] EXCEPT !.at = "spawn"]
<1>1. /\ search[s] \in Handler /\ Equipped(search[s]) /\ search \in [Searches -> Handler]
      /\ Sound(search[s]) /\ search[s].at = "files" /\ search[s].at \in Syncing
      /\ search[s].todo = {}
  BY DEF Inv, HandlersTyped, SyncEnd, SearchAt, Syncing
<1>2. UNCHANGED <<disk, clock, chunks, source, pass, inProgress>> /\ lock' = NoOne
  BY DEF SyncEnd, SyncFrame, SearchFrame, vault, index
<1>3. /\ h \in Handler /\ h.at = "spawn" /\ h.todo = search[s].todo
      /\ h.present = search[s].present /\ h.vault = search[s].vault /\ h.quiet = search[s].quiet
  BY <1>1 DEF Handler, Points
<1>4. /\ search' \in [Searches -> Handler] /\ search'[s] = h
      /\ \A u \in Searches \ {s} : search'[u] = search[u]
  <2>1. search' = [search EXCEPT ![s] = h]
    BY <1>1 DEF SyncEnd, Goto, Handler
  <2>2. QED
    BY <1>1, <1>3, <2>1, Advances
<1>5. Equipped(search[s])'
  BY <1>1, <1>3, <1>4 DEF Equipped, AtNote, Pruning
<1>6. Sound(search[s])'
  BY <1>1, <1>2, <1>3, <1>4
     DEF Sound, Working, Absent, Listed, Synced, AtNote, Syncing, Pruning, Readable, Fp
<1>7. lock = s /\ search'[s].at \notin Syncing
  BY <1>1, <1>3, <1>4 DEF Inv, MutexHeld, Syncing, AtNote, Pruning
<1>8. QED
  BY <1>1, <1>2, <1>4, <1>5, <1>6, <1>7, HandlerMoves DEF Pruning

LEMMA SpawnKeeps ==
  ASSUME Inv, NEW s \in Searches, SpawnEmbedding(s) PROVE Inv'
<1> DEFINE h == [search[s] EXCEPT !.at = "retrieve"]
<1>1. /\ search[s] \in Handler /\ Equipped(search[s]) /\ search \in [Searches -> Handler]
      /\ Sound(search[s]) /\ search[s].at = "spawn"
  BY DEF Inv, HandlersTyped, SpawnEmbedding, SearchAt
<1>2. UNCHANGED <<disk, clock, chunks, source, lock>>
  BY DEF SpawnEmbedding, SearchFrame, vault, index
<1>3. /\ h \in Handler /\ h.at = "retrieve" /\ h.todo = search[s].todo
      /\ h.present = search[s].present /\ h.vault = search[s].vault /\ h.quiet = search[s].quiet
      /\ h.synced = search[s].synced
  BY <1>1 DEF Handler, Points
<1>4. /\ search' \in [Searches -> Handler] /\ search'[s] = h
      /\ \A u \in Searches \ {s} : search'[u] = search[u]
  <2>1. search' = [search EXCEPT ![s] = h]
    BY <1>1 DEF SpawnEmbedding, Goto, Handler
  <2>2. QED
    BY <1>1, <1>3, <2>1, Advances
<1>5. Equipped(search[s])'
  BY <1>1, <1>3, <1>4 DEF Equipped, AtNote, Pruning
<1>6. Sound(search[s])'
  BY <1>1, <1>2, <1>3, <1>4
     DEF Sound, Working, Absent, Listed, Synced, AtNote, Syncing, Pruning, Readable, Fp
<1>7. search[s].at \notin Syncing /\ search'[s].at \notin Syncing
  BY <1>1, <1>3, <1>4 DEF Syncing, AtNote, Pruning
<1>8. \/ UNCHANGED <<pass, inProgress>>
      \/ ~inProgress /\ inProgress' = TRUE /\ pass' = [pass EXCEPT !.at = "count"]
  BY DEF SpawnEmbedding
<1>9. QED
  BY <1>1, <1>2, <1>4, <1>5, <1>6, <1>7, <1>8, HandlerMoves DEF Pruning

LEMMA RetrieveKeeps ==
  ASSUME Inv, NEW s \in Searches, Retrieve(s) PROVE Inv'
<1>1. Idle \in Handler /\ Idle.at = "idle" /\ Idle.todo = {}
  BY DEF Idle, Handler, Points
<1>2. /\ search' \in [Searches -> Handler] /\ search'[s] = Idle
      /\ \A u \in Searches \ {s} : search'[u] = search[u]
  BY <1>1, Advances DEF Retrieve, Step, Inv, HandlersTyped
<1>3. Equipped(search[s])' /\ Sound(search[s])'
  BY <1>1, <1>2
     DEF Equipped, Sound, Working, Absent, Listed, Synced, Syncing, AtNote, Pruning
<1>4. search'[s].at \notin Syncing /\ search[s].at \notin Syncing
  BY <1>1, <1>2 DEF Syncing, AtNote, Pruning, Retrieve, SearchAt
<1>5. QED
  BY <1>2, <1>3, <1>4, HandlerMoves
     DEF Retrieve, SyncFrame, SearchFrame, vault, index, Syncing

-----------------------------------------------------------------------------
(* The embedding pass, crashes and restarts touch neither notes nor rows *)

LEMMA ApartKeeps ==
  ASSUME Inv, UNCHANGED <<disk, clock, chunks, source, search>>, PassHeld', MutexHeld'
  PROVE  Inv'
<1>1. DiskTyped' /\ RowsTyped' /\ HandlersTyped'
  BY DEF Inv, DiskTyped, RowsTyped, HandlersTyped, Equipped
<1>2. \A n \in Notes : Stamped(n)'
  BY DEF Inv, Stamped, Fp, Pruned
<1>3. \A s \in Searches : Sound(search[s])'
  BY StillSound DEF Inv
<1>4. QED
  BY <1>1, <1>2, <1>3 DEF Inv

\* What a step of the pass does to the mutex.
LEMMA PassEffect ==
  ASSUME Inv, PassStep
  PROVE  /\ UNCHANGED <<disk, clock, chunks, source, search>> /\ PassHeld'
         /\ \/ lock' = lock
                 /\ (pass'.at \in {"insert", "stamp"} <=> pass.at \in {"insert", "stamp"})
            \/ lock = NoOne /\ lock' \in {NoOne, Pass}
                 /\ (pass'.at \in {"insert", "stamp"} <=> lock' = Pass)
            \/ pass.at \in {"insert", "stamp"} /\ lock' = NoOne
                 /\ pass'.at \notin {"insert", "stamp"}
<1>1. /\ pass \in PassRecord /\ (~inProgress => pass = NoPass)
      /\ NoPass \in PassRecord /\ NoPass.at = "none"
  BY DEF Inv, PassHeld, NoPass, PassRecord, PassPoints
<1>2. UNCHANGED <<disk, clock, chunks, source, search>> /\ up
  BY DEF PassStep, PassCount, PassList, PassFingerprint, PassRead, PassEmbed, PassEmbedFails,
         PassStore, PassInsert, PassStamp, PassEnd, PassFrame, PassAt, vault, index
<1> DEFINE Ends == pass' = NoPass /\ inProgress' = FALSE
           Goes(p) == pass' = p /\ p \in PassRecord /\ inProgress' = inProgress /\ inProgress
<1>3. CASE PassCount \/ PassList \/ PassEnd
  <2>1. pass.pending \subseteq Notes /\ Pending \subseteq Notes /\ inProgress
    BY <1>1, <1>3 DEF PassRecord, Pending, PassCount, PassList, PassEnd, PassAt
  <2>2. /\ lock' = lock /\ pass.at \notin {"insert", "stamp"}
        /\ \/ Ends
           \/ pass' = [pass EXCEPT !.at = "list"] /\ UNCHANGED inProgress
           \/ pass' = [pass EXCEPT !.at = "next", !.pending = Pending] /\ UNCHANGED inProgress
    BY <1>3 DEF PassCount, PassList, PassEnd, PassAt, EndPass
  <2>3. pass' \in PassRecord /\ pass'.at \notin {"insert", "stamp", "read"}
    BY <1>1, <1>3, <2>1, <2>2 DEF PassRecord, PassPoints, PassEnd, PassAt
  <2>4. QED
    BY <1>1, <1>2, <2>1, <2>2, <2>3 DEF PassHeld
<1>4. CASE PassFingerprint
  <2>1. PICK n \in pass.pending :
          \/ disk[n] = NoFile /\ pass' = [pass EXCEPT !.pending = @ \ {n}]
          \/ /\ disk[n] # NoFile
             /\ pass' = [pass EXCEPT !.at = "read", !.note = n, !.fp = Fp(n),
                                     !.pending = @ \ {n}]
    BY <1>4 DEF PassFingerprint
  <2>2. /\ pass.at = "next" /\ inProgress /\ UNCHANGED <<lock, inProgress>>
    BY <1>1, <1>4 DEF PassFingerprint, PassAt
  <2>3. /\ pass.pending \ {n} \in SUBSET Notes /\ n \in Notes
        /\ disk[n] # NoFile => Fp(n) \in Fps
    BY <1>1, FpTyped DEF Inv, PassRecord
  <2>4. /\ pass' \in PassRecord /\ pass'.at \notin {"insert", "stamp"}
        /\ pass'.at = "read" => pass'.note \in Notes
    BY <1>1, <2>1, <2>2, <2>3 DEF PassRecord, PassPoints
  <2>5. QED
    BY <1>2, <2>2, <2>4 DEF PassHeld
<1>5. CASE PassRead
  <2>1. /\ pass.at = "read" /\ inProgress /\ UNCHANGED <<lock, inProgress>>
        /\ pass.pending \in SUBSET Notes
    BY <1>1, <1>5 DEF PassRead, PassAt, PassRecord
  <2>2. CASE SkipNote
    <3>1. pass' \in PassRecord /\ pass'.at = "next"
      BY <2>1, <2>2 DEF SkipNote, NoPass, PassRecord, PassPoints
    <3>2. QED
      BY <1>2, <2>1, <3>1 DEF PassHeld
  <2>3. CASE /\ Readable(pass.note)
             /\ pass' = [pass EXCEPT !.text = disk[pass.note].text,
                                     !.at = IF disk[pass.note].text \in Empty
                                            THEN "store" ELSE "embed"]
    <3>1. pass.note \in Notes => disk[pass.note].text \in Texts
      BY <2>3 DEF Readable, Inv, DiskTyped, File
    <3>2. pass.note \in Notes
      BY <1>5 DEF Inv, PassHeld, PassRead, PassAt
    <3>3. pass' \in PassRecord /\ pass'.at \in {"store", "embed"}
      BY <1>1, <2>3, <3>1, <3>2 DEF PassRecord, PassPoints
    <3>4. QED
      BY <1>2, <2>1, <3>3 DEF PassHeld
  <2>4. QED
    BY <1>5, <2>2, <2>3 DEF PassRead
<1>6. CASE PassEmbed \/ PassEmbedFails
  <2>1. pass.at = "embed" /\ inProgress /\ lock' = lock /\ pass.pending \in SUBSET Notes
    BY <1>1, <1>6 DEF PassEmbed, PassEmbedFails, PassAt, PassRecord
  <2>2. \/ Ends
        \/ pass' = [pass EXCEPT !.at = "store"] /\ UNCHANGED inProgress
        \/ SkipNote /\ UNCHANGED inProgress
    BY <1>6 DEF PassEmbed, PassEmbedFails, EndPass
  <2>3. pass' \in PassRecord /\ pass'.at \notin {"insert", "stamp", "read"}
    BY <1>1, <2>1, <2>2 DEF SkipNote, NoPass, PassRecord, PassPoints
  <2>4. QED
    BY <1>1, <1>2, <2>1, <2>2, <2>3 DEF PassHeld, SkipNote
<1>7. CASE PassStore \/ PassInsert \/ PassStamp
  <2>1. /\ pass.at \in {"store", "insert", "stamp"} /\ inProgress
        /\ pass.at = "store" => lock = NoOne /\ lock' \in {NoOne, Pass}
        /\ pass.pending \in SUBSET Notes
    BY <1>1, <1>7 DEF PassStore, PassInsert, PassStamp, PassAt, PassRecord, StoreError
  <2>2. \/ Ends /\ lock' = NoOne
        \/ /\ pass.at = "store" /\ lock' = Pass
           /\ pass' = [pass EXCEPT !.at = "insert"] /\ UNCHANGED inProgress
        \/ /\ pass.at = "insert" /\ lock' = lock
           /\ pass' = [pass EXCEPT !.at = "stamp"] /\ UNCHANGED inProgress
        \/ pass.at = "stamp" /\ lock' = NoOne /\ SkipNote /\ UNCHANGED inProgress
    BY <1>7 DEF PassStore, PassInsert, PassStamp, PassAt, StoreError, EndPass
  <2>3. pass.at = "insert" => lock # NoOne
    BY ConstantsAssumption DEF Inv, MutexHeld
  <2>4. CASE Ends /\ lock' = NoOne
    BY <1>1, <1>2, <2>1, <2>4, ConstantsAssumption DEF PassHeld
  <2>5. CASE pass.at = "store" /\ lock' = Pass /\ pass' = [pass EXCEPT !.at = "insert"]
               /\ UNCHANGED inProgress
    <3>1. pass' \in PassRecord /\ pass'.at = "insert"
      BY <1>1, <2>5 DEF PassRecord, PassPoints
    <3>2. QED
      BY <1>2, <2>1, <2>5, <3>1 DEF PassHeld
  <2>6. CASE pass.at = "insert" /\ lock' = lock /\ pass' = [pass EXCEPT !.at = "stamp"]
               /\ UNCHANGED inProgress
    <3>1. pass' \in PassRecord /\ pass'.at = "stamp"
      BY <1>1, <2>6 DEF PassRecord, PassPoints
    <3>2. QED
      BY <1>2, <2>1, <2>3, <2>6, <3>1 DEF PassHeld
  <2>7. CASE pass.at = "stamp" /\ lock' = NoOne /\ SkipNote /\ UNCHANGED inProgress
    <3>1. pass' \in PassRecord /\ pass'.at = "next"
      BY <2>1, <2>7 DEF SkipNote, NoPass, PassRecord, PassPoints
    <3>2. QED
      BY <1>2, <2>1, <2>7, <3>1 DEF PassHeld
  <2>8. QED
    BY <2>2, <2>4, <2>5, <2>6, <2>7
<1>8. QED
  BY <1>3, <1>4, <1>5, <1>6, <1>7 DEF PassStep

LEMMA PassKeeps == ASSUME Inv, PassStep PROVE Inv'
<1>1. MutexHeld'
  BY PassEffect, ConstantsAssumption DEF Inv, MutexHeld
<1>2. QED
  BY <1>1, PassEffect, ApartKeeps

\* No request is served and no pass runs.
Nothing == search = [s \in Searches |-> Idle] /\ pass = NoPass /\ lock = NoOne

LEMMA NothingRuns ==
  Nothing => HandlersTyped /\ MutexHeld /\ PassHeld /\ \A s \in Searches : Sound(search[s])
<1> SUFFICES ASSUME Nothing
             PROVE  HandlersTyped /\ MutexHeld /\ PassHeld /\ \A s \in Searches : Sound(search[s])
  OBVIOUS
<1>0. search = [s \in Searches |-> Idle] /\ pass = NoPass /\ lock = NoOne
  BY DEF Nothing
<1>1. Idle \in Handler /\ Idle.at = "idle" /\ Idle.todo = {}
  BY DEF Idle, Handler, Points
<1>2. HandlersTyped
  BY <1>0, <1>1 DEF HandlersTyped, Equipped, AtNote, Pruning
<1>3. MutexHeld /\ PassHeld
  BY <1>0, <1>1, ConstantsAssumption
     DEF MutexHeld, PassHeld, NoPass, PassRecord, PassPoints, Syncing, AtNote, Pruning
<1>4. \A s \in Searches : Sound(search[s])
  BY <1>0, <1>1 DEF Sound, Working, Absent, Listed, Synced, Syncing, AtNote, Pruning
<1>5. QED
  BY <1>2, <1>3, <1>4

LEMMA CrashKeeps == ASSUME Inv, crashes \in Nat, Crash PROVE Inv'
<1>1. /\ UNCHANGED <<disk, clock, chunks, source>>
      /\ search' = [s \in Searches |-> Idle] /\ pass' = NoPass /\ lock' = NoOne
  BY DEF Crash, vault, index
<1>2. (HandlersTyped /\ MutexHeld /\ PassHeld /\ \A s \in Searches : Sound(search[s]))'
  <2>1. Nothing'
    BY <1>1 DEF Nothing
  <2>2. QED
    BY <2>1, NothingRuns, PTL
<1>3. DiskTyped' /\ RowsTyped'
  BY <1>1 DEF Inv, DiskTyped, RowsTyped
<1>4. \A n \in Notes : Stamped(n)'
  <2>1. Orderly => OneVault
    BY DEF Crash, Orderly, Unfailing
  <2>2. QED
    BY <1>1, <2>1, OneVaultPrunes DEF Inv, Stamped, Fp
<1>5. QED
  BY <1>2, <1>3, <1>4 DEF Inv

LEMMA RestartKeeps == ASSUME Inv, Restart PROVE Inv'
<1>1. UNCHANGED <<disk, clock, chunks, source, search, pass, lock, inProgress>>
  BY DEF Restart, vault, index
<1>2. PassHeld' /\ MutexHeld'
  BY <1>1 DEF Inv, PassHeld, MutexHeld
<1>3. QED
  BY <1>1, <1>2, ApartKeeps

-----------------------------------------------------------------------------
(* The invariant, and what it says of the notes that can be read *)

LEMMA InvInit == Init => Inv
<1> SUFFICES ASSUME Init PROVE Inv
  OBVIOUS
<1>1. HandlersTyped /\ MutexHeld /\ PassHeld /\ \A s \in Searches : Sound(search[s])
  BY NothingRuns DEF Init, Nothing
<1>2. DiskTyped /\ RowsTyped /\ \A n \in Notes : Stamped(n)
  BY DEF Init, DiskTyped, RowsTyped, Stamped
<1>3. QED
  BY <1>1, <1>2 DEF Inv

\* The engine crashes a number of times.
LEMMA Crashes == Spec => [](crashes \in Nat)
<1>1. Init => crashes \in Nat
  BY DEF Init
<1>2. crashes \in Nat /\ [Next]_vars => (crashes \in Nat)'
  <2>1. ASSUME NEW s \in Searches, SearchStep(s) \/ \E v \in Vaults : Request(s, v)
        PROVE  crashes' = crashes
    BY <2>1 DEF SearchStep, Request, SyncBegin, SyncFingerprint, SyncRead, SyncInsert,
                SyncStamp, PruneChunks, PruneVectors, PruneSource, SyncEnd, SpawnEmbedding,
                Retrieve, SyncFrame, SearchFrame
  <2>2. ASSUME PassStep PROVE crashes' = crashes
    BY <2>2 DEF PassStep, PassCount, PassList, PassFingerprint, PassRead, PassEmbed,
                PassEmbedFails, PassStore, PassInsert, PassStamp, PassEnd, PassFrame
  <2>3. ASSUME NEW n \in Notes, DeleteNote(n) \/ \E t \in Texts : WriteNote(n, t)
        PROVE  crashes' = crashes
    BY <2>3 DEF DeleteNote, WriteNote
  <2>4. ASSUME crashes \in Nat, Crash \/ Restart \/ UNCHANGED vars PROVE crashes' \in Nat
    BY <2>4 DEF Crash, Restart, vars, engine
  <2>5. QED
    BY <2>1, <2>2, <2>3, <2>4 DEF Next
<1>3. QED
  BY <1>1, <1>2, PTL DEF Spec

LEMMA InvNext == DistinctTimes /\ crashes \in Nat /\ Inv /\ [Next]_vars => Inv'
<1> SUFFICES ASSUME DistinctTimes, crashes \in Nat, Inv, [Next]_vars PROVE Inv'
  OBVIOUS
<1>1. CASE UNCHANGED vars
  <2>1. UNCHANGED <<disk, clock, chunks, source, search, pass, lock, inProgress>>
    BY <1>1 DEF vars, vault, index, engine
  <2>2. PassHeld' /\ MutexHeld'
    BY <2>1 DEF Inv, PassHeld, MutexHeld
  <2>3. QED
    BY <2>1, <2>2, ApartKeeps
<1>2. ASSUME NEW n \in Notes, DeleteNote(n) \/ \E t \in Texts : WriteNote(n, t) PROVE Inv'
  BY <1>2, DeleteKeeps, WriteKeeps
<1>3. ASSUME NEW s \in Searches, SearchStep(s) \/ \E v \in Vaults : Request(s, v) PROVE Inv'
  BY <1>3, RequestKeeps, SyncBeginKeeps, SyncFingerprintKeeps, SyncReadKeeps,
     SyncInsertKeeps, SyncStampKeeps, PruneChunksKeeps, PruneVectorsKeeps,
     PruneSourceKeeps, SyncEndKeeps, SpawnKeeps, RetrieveKeeps DEF SearchStep
<1>4. QED
  BY <1>1, <1>2, <1>3, PassKeeps, CrashKeeps, RestartKeeps DEF Next

\* search/index.rs: the mutex is held over a whole sync; a stamped note has its rows; and
\* what a sync that is under way relies on still holds, whatever the others did since.
THEOREM IndexInvariant == ASSUME DistinctTimes PROVE Spec => []Inv
<1>1. Inv /\ crashes \in Nat /\ [Next]_vars => Inv'
  BY InvNext
<1>2. QED
  BY <1>1, InvInit, Crashes, PTL DEF Spec

\* sync_vault_blocking: a search whose sync succeeded, in a vault that has not changed
\* since, finds the rows of each note that can be read to be those of its text,
\* whatever failed, crashed or was interrupted before if there is one vault only.
THEOREM PresentAreExact == ASSUME DistinctTimes, Orderly PROVE Spec => []PresentNotesAreExact
<1>1. Inv => PresentNotesAreExact
  <2> SUFFICES ASSUME Inv, NEW s \in Searches, FreshSearch(s), NEW n \in Notes, Readable(n),
                      VaultOf[n] = search[s].vault
               PROVE  chunks[n] = Truth(n)
    BY DEF PresentNotesAreExact
  <2>1. source[n] = Fp(n)
    BY DEF Inv, Sound, Synced, FreshSearch, SearchAt
  <2>2. ~Pruned(n)
    BY ConstantsAssumption DEF Inv, MutexHeld, FreshSearch, Pruned, Syncing
  <2>3. QED
    BY <2>1, <2>2 DEF Inv, Stamped, Readable, Truth
<1>2. QED
  BY <1>1, IndexInvariant, PTL

-----------------------------------------------------------------------------
(* While no statement fails: nothing is left of what is not in the vault *)

Neat == Unfailing /\ (OneVault \/ OneSearch)

\* Every text can be read: no note is skipped for good.
Legible == Binary = {}

\* Only a note that is about to be stamped has rows and no stamp.
Rowless(n) ==
  source[n] = NoFp /\ (\A s \in Searches : ~(search[s].at = "stamp" /\ search[s].note = n))
    => chunks[n] = NoText

\* What a sync found is in its vault; what it prunes has lost its rows.
Found(h) ==
  h.at \in Syncing =>
    /\ \A n \in h.present : VaultOf[n] = h.vault /\ (h.quiet => disk[n] # NoFile)
    /\ h.at \in Pruning => chunks[h.note] = NoText

\* After a sync of a vault that stays quiet, the stamped notes are in it.
Exact(h) ==
  h.at \in {"spawn", "retrieve"} /\ h.quiet /\ h.synced /\ lock \notin Searches =>
    \A n \in Notes : source[n] # NoFp => VaultOf[n] = h.vault /\ disk[n] # NoFile

\* A sync that began after one whose vault has been quiet has a quiet vault too.
Later(h, g) == h.at \in {"spawn", "retrieve"} /\ h.quiet /\ g.at \in Syncing => g.quiet

Tidy == /\ \A n \in Notes : Rowless(n)
        /\ \A s \in Searches : Found(search[s]) /\ Exact(search[s])
        /\ \A s, u \in Searches : Later(search[s], search[u])

\* The steps a handler takes inside of the mutex.
Within(s) ==
  \/ SyncFingerprint(s) \/ SyncRead(s) \/ SyncInsert(s) \/ SyncStamp(s)
  \/ PruneChunks(s) \/ PruneVectors(s) \/ PruneSource(s)

\* What such a step does when no statement fails.
LEMMA WithinEffect ==
  ASSUME Inv, Unfailing, NEW s \in Searches, Within(s)
  PROVE  /\ lock = s /\ lock' = s /\ UNCHANGED <<disk, clock, pass>>
         /\ search[s].at \in Syncing /\ search'[s].at \in Syncing
         /\ search'[s].present = search[s].present /\ search'[s].vault = search[s].vault
         /\ search'[s].quiet = search[s].quiet
         /\ \A u \in Searches \ {s} : search'[u] = search[u]
<1>1. /\ search[s] \in Handler /\ search \in [Searches -> Handler] /\ search[s].at \in Syncing
      /\ lock = s
  BY DEF Inv, HandlersTyped, MutexHeld, Within, SyncFingerprint, SyncRead, SyncInsert,
         SyncStamp, PruneChunks, PruneVectors, PruneSource, SearchAt, Syncing, AtNote, Pruning
<1>2. UNCHANGED <<disk, clock, pass>> /\ lock' = lock
  BY DEF Within, SyncFingerprint, SyncRead, SyncInsert, SyncStamp, PruneChunks, PruneVectors,
         PruneSource, SyncFrame, SearchFrame, vault, SyncError, Unfailing
<1>3. CASE SyncFingerprint(s)
  BY <1>1, <1>2, <1>3 DEF SyncFingerprint, SearchAt, Handler, Syncing, AtNote
<1>4. CASE NextFile(s)
  BY <1>1, <1>2, <1>4, NextFileMoves DEF Syncing
<1>5. ASSUME NEW n \in Notes, search' = [search EXCEPT ![s].at = "pruneVectors", ![s].note = n]
      PROVE  /\ search'[s].at = "pruneVectors" /\ search'[s].present = search[s].present
             /\ search'[s].vault = search[s].vault /\ search'[s].quiet = search[s].quiet
             /\ \A u \in Searches \ {s} : search'[u] = search[u]
  BY <1>1, <1>5 DEF Handler
<1>6. CASE PruneChunks(s)
  <2>1. PICK n \in Removed(s) :
          search' = [search EXCEPT ![s].at = "pruneVectors", ![s].note = n]
    BY <1>6 DEF PruneChunks, SyncError, Unfailing
  <2>2. n \in Notes
    BY DEF Removed
  <2>3. QED
    BY <1>1, <1>2, <1>5, <2>1, <2>2 DEF Syncing, Pruning
<1>7. CASE \/ Goto(s, "stamp") \/ Goto(s, "pruneSource")
           \/ search' = [search EXCEPT ![s].at = "insert",
                                       ![s].text = disk[search[s].note].text]
  BY <1>1, <1>2, <1>7 DEF Goto, Handler, Syncing, AtNote, Pruning
<1>8. QED
  BY <1>3, <1>4, <1>6, <1>7
     DEF Within, SyncRead, SyncInsert, SyncStamp, PruneVectors, PruneSource, SyncError, Unfailing

\* Inside of the mutex only the rows of the note at hand are at stake.
LEMMA WithinTidy ==
  ASSUME Inv, Tidy, Unfailing, NEW s \in Searches, Within(s), \A n \in Notes : Rowless(n)',
         search'[s].at \in Pruning => chunks'[search'[s].note] = NoText
  PROVE  Tidy'
<1>1. /\ lock = s /\ lock' = s /\ UNCHANGED <<disk, clock, pass>>
      /\ search[s].at \in Syncing /\ search'[s].at \in Syncing
      /\ search'[s].present = search[s].present /\ search'[s].vault = search[s].vault
      /\ search'[s].quiet = search[s].quiet
      /\ \A u \in Searches \ {s} : search'[u] = search[u]
  BY WithinEffect
<1>2. \A u \in Searches \ {s} : search[u].at \notin Syncing
  BY <1>1, OneHolder DEF Inv
<1>3. \A u \in Searches : Found(search[u])' /\ Exact(search[u])'
  <2>1. Found(search[s])' /\ Exact(search[s])'
    BY <1>1 DEF Tidy, Found, Exact
  <2>2. \A u \in Searches \ {s} : Found(search[u])' /\ Exact(search[u])'
    BY <1>1, <1>2 DEF Found, Exact
  <2>3. QED
    BY <2>1, <2>2
<1>4. ASSUME NEW u \in Searches, NEW w \in Searches PROVE Later(search[u], search[w])'
  <2>1. search'[s].at \notin {"spawn", "retrieve"}
    BY <1>1 DEF Syncing, AtNote, Pruning
  <2>2. Later(search[u], search[w])
    BY DEF Tidy
  <2>3. QED
    BY <1>1, <2>1, <2>2 DEF Later
<1>5. QED
  BY <1>3, <1>4 DEF Tidy

LEMMA SyncFingerprintTidy ==
  ASSUME Inv, Tidy, Unfailing, NEW s \in Searches, SyncFingerprint(s) PROVE Tidy'
<1>1. /\ search[s] \in Handler /\ search[s].at = "files" /\ Within(s)
      /\ UNCHANGED <<chunks, source>>
  BY DEF SyncFingerprint, SearchAt, Inv, HandlersTyped, Within, index
<1>2. /\ search'[s].at \notin Pruning
      /\ \A u \in Searches \ {s} : search'[u] = search[u]
  <2>1. search'[s].at \in {"files", "read"}
    BY <1>1 DEF SyncFingerprint, Inv, HandlersTyped, Handler
  <2>2. QED
    BY <1>1, <2>1, WithinEffect DEF Pruning
<1>3. \A n \in Notes : Rowless(n)'
  BY <1>1, <1>2 DEF Tidy, Rowless
<1>4. QED
  BY <1>1, <1>2, <1>3, WithinTidy

LEMMA SyncReadTidy ==
  ASSUME Inv, Tidy, Unfailing, NEW s \in Searches, SyncRead(s) PROVE Tidy'
<1>1. /\ search[s] \in Handler /\ search[s].at = "read" /\ Within(s)
      /\ search \in [Searches -> Handler] /\ source' = source
  BY DEF SyncRead, SearchAt, Inv, HandlersTyped, Within, index, SyncError, Unfailing
<1>2. \/ chunks' = chunks /\ NextFile(s)
      \/ /\ chunks' = [chunks EXCEPT ![search[s].note] = NoText]
         /\ search' = [search EXCEPT ![s].at = "insert", ![s].text = disk[search[s].note].text]
  BY DEF SyncRead, SyncError, Unfailing, index
<1>3. search'[s].at \in {"files", "insert"} /\ \A u \in Searches \ {s} : search'[u] = search[u]
  <2>1. NextFile(s) => search'[s].at = "files"
    BY <1>1, NextFileMoves DEF Syncing, AtNote
  <2>2. QED
    BY <1>1, <1>2, <2>1, WithinEffect DEF Handler
<1>4. \A n \in Notes : Rowless(n)'
  BY <1>1, <1>2, <1>3 DEF Tidy, Rowless, Inv, RowsTyped
<1>5. QED
  BY <1>1, <1>3, <1>4, WithinTidy DEF Pruning

LEMMA SyncInsertTidy ==
  ASSUME Inv, Tidy, Unfailing, NEW s \in Searches, SyncInsert(s) PROVE Tidy'
<1>1. /\ search[s] \in Handler /\ search[s].at = "insert" /\ Within(s)
      /\ search \in [Searches -> Handler] /\ source' = source
      /\ search' = [search EXCEPT ![s].at = "stamp"]
      /\ chunks' = [chunks EXCEPT ![search[s].note] = RowsOf(search[s].text)]
  BY DEF SyncInsert, SearchAt, Inv, HandlersTyped, Within, SyncError, Unfailing, Goto
<1>2. /\ search'[s].at = "stamp" /\ search'[s].note = search[s].note
      /\ \A u \in Searches \ {s} : search'[u] = search[u]
  BY <1>1, WithinEffect DEF Handler
<1>3. \A n \in Notes : Rowless(n)'
  BY <1>1, <1>2 DEF Tidy, Rowless, Inv, RowsTyped
<1>4. QED
  BY <1>1, <1>2, <1>3, WithinTidy DEF Pruning

LEMMA SyncStampTidy ==
  ASSUME Inv, Tidy, Unfailing, NEW s \in Searches, SyncStamp(s) PROVE Tidy'
<1>1. /\ search[s].at = "stamp" /\ Within(s) /\ NextFile(s) /\ chunks' = chunks
      /\ source' = [source EXCEPT ![search[s].note] = search[s].fp]
  BY DEF SyncStamp, SearchAt, Within, SyncError, Unfailing
<1>2. search[s].fp # NoFp
  BY <1>1, SentinelsAssumption DEF Inv, HandlersTyped, Equipped, AtNote, Fps
<1>3. search'[s].at = "files" /\ \A u \in Searches \ {s} : search'[u] = search[u]
  BY <1>1, NextFileMoves DEF Syncing, AtNote
<1>4. \A n \in Notes : Rowless(n)'
  BY <1>1, <1>2, <1>3 DEF Tidy, Rowless, Inv, RowsTyped
<1>5. QED
  BY <1>1, <1>3, <1>4, WithinTidy DEF Pruning

LEMMA PruneChunksTidy ==
  ASSUME Inv, Tidy, Unfailing, NEW s \in Searches, PruneChunks(s) PROVE Tidy'
<1>1. /\ search[s] \in Handler /\ search[s].at = "files" /\ Within(s)
      /\ search \in [Searches -> Handler] /\ source' = source
  BY DEF PruneChunks, SearchAt, Inv, HandlersTyped, Within, SyncError, Unfailing
<1>2. PICK n \in Removed(s) :
        /\ chunks' = [chunks EXCEPT ![n] = NoText]
        /\ search' = [search EXCEPT ![s].at = "pruneVectors", ![s].note = n]
  BY DEF PruneChunks, SyncError, Unfailing
<1>3. n \in Notes /\ chunks'[n] = NoText
  BY <1>2 DEF Removed, Inv, RowsTyped
<1>4. /\ search'[s].at = "pruneVectors" /\ search'[s].note = n
      /\ \A u \in Searches \ {s} : search'[u] = search[u]
  BY <1>1, <1>2, <1>3, WithinEffect DEF Handler
<1>5. \A m \in Notes : Rowless(m)'
  BY <1>1, <1>2, <1>3, <1>4 DEF Tidy, Rowless, Inv, RowsTyped
<1>6. QED
  BY <1>1, <1>3, <1>4, <1>5, WithinTidy

LEMMA PruneVectorsTidy ==
  ASSUME Inv, Tidy, Unfailing, NEW s \in Searches, PruneVectors(s) PROVE Tidy'
<1>1. /\ search[s] \in Handler /\ search[s].at = "pruneVectors" /\ Within(s)
      /\ search \in [Searches -> Handler] /\ UNCHANGED <<chunks, source>>
      /\ search' = [search EXCEPT ![s].at = "pruneSource"]
  BY DEF PruneVectors, SearchAt, Inv, HandlersTyped, Within, SyncError, Unfailing, Goto
<1>2. /\ search'[s].at = "pruneSource" /\ search'[s].note = search[s].note
      /\ \A u \in Searches \ {s} : search'[u] = search[u]
  BY <1>1, WithinEffect DEF Handler
<1>3. \A n \in Notes : Rowless(n)'
  BY <1>1, <1>2 DEF Tidy, Rowless
<1>4. chunks[search[s].note] = NoText
  BY <1>1 DEF Tidy, Found, Syncing, Pruning
<1>5. QED
  BY <1>1, <1>2, <1>3, <1>4, WithinTidy

LEMMA PruneSourceTidy ==
  ASSUME Inv, Tidy, Unfailing, NEW s \in Searches, PruneSource(s) PROVE Tidy'
<1>1. /\ search[s].at = "pruneSource" /\ Within(s) /\ NextFile(s) /\ chunks' = chunks
      /\ source' = [source EXCEPT ![search[s].note] = NoFp]
  BY DEF PruneSource, SearchAt, Within, SyncError, Unfailing
<1>2. chunks[search[s].note] = NoText
  BY <1>1 DEF Tidy, Found, Syncing, Pruning
<1>3. search'[s].at = "files" /\ \A u \in Searches \ {s} : search'[u] = search[u]
  BY <1>1, NextFileMoves DEF Syncing, Pruning
<1>4. \A n \in Notes : Rowless(n)'
  BY <1>1, <1>2, <1>3 DEF Tidy, Rowless, Inv, RowsTyped
<1>5. QED
  BY <1>1, <1>3, <1>4, WithinTidy DEF Pruning

\* A sync begins where none is under way.
LEMMA SyncBeginTidy ==
  ASSUME Inv, Tidy, NEW s \in Searches, SyncBegin(s) PROVE Tidy'
<1> DEFINE found == {n \in Notes : VaultOf[n] = search[s].vault /\ disk[n] # NoFile}
           h == [search[s] EXCEPT !.at = "files", !.present = found, !.todo = found,
                                  !.quiet = TRUE, !.synced = TRUE]
<1>1. /\ search[s] \in Handler /\ search \in [Searches -> Handler] /\ search[s].at = "sync"
      /\ search' = [search EXCEPT ![s] = h] /\ lock = NoOne /\ lock' = s
      /\ UNCHANGED <<disk, chunks, source>>
  BY DEF SyncBegin, SearchAt, Step, Inv, HandlersTyped, SyncFrame, SearchFrame, vault, index
<1>2. /\ h \in Handler /\ h.at = "files" /\ h.present = found /\ h.vault = search[s].vault
      /\ h.quiet = TRUE
  BY <1>1 DEF Handler, Points, Syncing
<1>3. search'[s] = h /\ \A u \in Searches \ {s} : search'[u] = search[u]
  BY <1>1, <1>2, Advances
<1>4. \A u \in Searches \ {s} : search[u].at \notin Syncing
  BY <1>1, OneHolder DEF Inv
<1>5. \A n \in Notes : Rowless(n)'
  BY <1>1, <1>2, <1>3 DEF Tidy, Rowless
<1>6. \A u \in Searches : Found(search[u])' /\ Exact(search[u])'
  <2>1. Found(search[s])'
    BY <1>1, <1>2, <1>3 DEF Found, Pruning
  <2>2. \A u \in Searches \ {s} : Found(search[u])'
    BY <1>3, <1>4 DEF Found
  <2>3. QED
    BY <1>1, <2>1, <2>2 DEF Exact
<1>7. \A u, w \in Searches : Later(search[u], search[w])'
  BY <1>2, <1>3, <1>4 DEF Later
<1>8. QED
  BY <1>5, <1>6, <1>7 DEF Tidy

\* A sync ends: what is left is what it found, for every search of its vault.
LEMMA SyncEndTidy ==
  ASSUME Inv, Tidy, Neat, NEW s \in Searches, SyncEnd(s) PROVE Tidy'
<1> DEFINE h == [search[s] EXCEPT !.at = "spawn"]
<1>1. /\ search[s] \in Handler /\ search \in [Searches -> Handler] /\ search[s].at = "files"
      /\ search' = [search EXCEPT ![s] = h] /\ lock = s /\ lock' = NoOne
      /\ UNCHANGED <<disk, chunks, source>> /\ Removed(s) = {}
  BY DEF SyncEnd, SearchAt, Goto, Inv, HandlersTyped, SyncFrame, SearchFrame, vault, index,
         MutexHeld, Syncing, Handler
<1>2. /\ h \in Handler /\ h.at = "spawn" /\ h.vault = search[s].vault /\ h.quiet = search[s].quiet
  BY <1>1 DEF Handler, Points
<1>3. search'[s] = h /\ \A u \in Searches \ {s} : search'[u] = search[u]
  BY <1>1, <1>2, Advances
<1>4. \A u \in Searches : search'[u].at \notin Syncing
  BY <1>1, <1>2, <1>3, OneHolder DEF Inv, Syncing, AtNote, Pruning
<1>5. \A n \in Notes : Rowless(n)'
  BY <1>1, <1>2, <1>3 DEF Tidy, Rowless
<1>6. \A u \in Searches : Found(search[u])'
  BY <1>4 DEF Found
<1>7. \A n \in Notes : source[n] # NoFp =>
        VaultOf[n] = search[s].vault /\ (search[s].quiet => disk[n] # NoFile)
  <2>1. \A n \in Notes : source[n] # NoFp => n \in search[s].present
    BY <1>1 DEF Removed
  <2>2. QED
    BY <1>1, <2>1 DEF Tidy, Found, Syncing
<1>8. ASSUME NEW u \in Searches PROVE Exact(search[u])'
  <2>1. CASE u = s
    BY <1>1, <1>2, <1>3, <1>7, <2>1 DEF Exact
  <2>2. CASE u # s
    <3>1. OneVault /\ Later(search[u], search[s])
      BY <2>2 DEF Neat, OneSearch, Tidy
    <3>2. search[u].at # "idle" => search[u].vault = search[s].vault
      BY <1>1, <3>1 DEF OneVault, Inv, HandlersTyped, Equipped
    <3>3. search'[u] = search[u]
      BY <1>3, <2>2
    <3>4. QED
      BY <1>1, <1>7, <3>1, <3>2, <3>3 DEF Exact, Later, Syncing
  <2>3. QED
    BY <2>1, <2>2
<1>9. \A u, w \in Searches : Later(search[u], search[w])'
  BY <1>4 DEF Later
<1>10. QED
  BY <1>5, <1>6, <1>8, <1>9 DEF Tidy

\* Outside of the mutex a handler changes nothing that is at stake.
LEMMA OutsideTidy ==
  ASSUME Inv, Tidy, NEW s \in Searches, UNCHANGED <<disk, chunks, source, lock>>,
         search[s].at \notin Syncing,
         search'[s].at \in {"idle", "sync"} \/ search' = [search EXCEPT ![s].at = "retrieve"],
         search[s].at # "spawn" => search'[s].at \in {"idle", "sync"},
         \A u \in Searches \ {s} : search'[u] = search[u]
  PROVE  Tidy'
<1>1. search[s] \in Handler /\ search \in [Searches -> Handler]
  BY DEF Inv, HandlersTyped
<1>2. /\ search'[s].at \notin Syncing
      /\ search'[s].at \in {"spawn", "retrieve"} =>
           /\ search[s].at = "spawn"
           /\ search'[s].quiet = search[s].quiet /\ search'[s].synced = search[s].synced
           /\ search'[s].vault = search[s].vault
  BY <1>1 DEF Syncing, AtNote, Pruning, Handler
<1>3. \A n \in Notes : Rowless(n)'
  BY <1>2 DEF Tidy, Rowless, Syncing, AtNote
<1>4. ASSUME NEW u \in Searches PROVE Found(search[u])' /\ Exact(search[u])'
  <2>1. CASE u = s
    BY <1>2, <2>1 DEF Tidy, Found, Exact
  <2>2. CASE u # s
    BY <2>2 DEF Tidy, Found, Exact
  <2>3. QED
    BY <2>1, <2>2
<1>5. ASSUME NEW u \in Searches, NEW w \in Searches PROVE Later(search[u], search[w])'
  BY <1>2 DEF Tidy, Later
<1>6. QED
  BY <1>3, <1>4, <1>5 DEF Tidy

LEMMA HandlerTidy ==
  ASSUME Inv, Tidy, NEW s \in Searches,
         SpawnEmbedding(s) \/ Retrieve(s) \/ \E v \in Vaults : Request(s, v)
  PROVE  Tidy'
<1>1. /\ search \in [Searches -> Handler] /\ search[s].at \in {"spawn", "retrieve", "idle"}
      /\ UNCHANGED <<disk, chunks, source, lock>>
  BY DEF Inv, HandlersTyped, SpawnEmbedding, Retrieve, Request, SearchAt, SyncFrame,
         SearchFrame, vault, index
<1>2. \A u \in Searches \ {s} : search'[u] = search[u]
  BY <1>1 DEF SpawnEmbedding, Retrieve, Request, Goto, Step
<1>3. CASE SpawnEmbedding(s)
  BY <1>1, <1>2, <1>3, OutsideTidy DEF SpawnEmbedding, SearchAt, Goto, Syncing, AtNote, Pruning
<1>4. CASE Retrieve(s) \/ \E v \in Vaults : Request(s, v)
  <2>1. search'[s].at \in {"idle", "sync"} /\ search[s].at # "spawn"
    <3>1. CASE Retrieve(s)
      BY <1>1, <3>1 DEF Retrieve, Step, Idle, SearchAt
    <3>2. ASSUME NEW v \in Vaults, Request(s, v)
          PROVE  search'[s].at = "sync" /\ search[s].at = "idle"
      <4>1. [Idle EXCEPT !.at = "sync", !.vault = v].at = "sync"
        BY DEF Idle
      <4>2. QED
        BY <1>1, <3>2, <4>1 DEF Request, Step, SearchAt
    <3>3. QED
      BY <1>4, <3>1, <3>2
  <2>2. search[s].at \notin Syncing
    BY <1>1 DEF Syncing, AtNote, Pruning
  <2>3. QED
    BY <1>1, <1>2, <2>1, <2>2, OutsideTidy
<1>5. QED
  BY <1>3, <1>4

\* The vault changes: nothing is claimed any more of the searches under way.
LEMMA EditTidy ==
  ASSUME Inv, Tidy, NEW n \in Notes, DeleteNote(n) \/ \E t \in Texts : WriteNote(n, t)
  PROVE  Tidy'
<1>1. VaultChanged /\ UNCHANGED <<chunks, source>>
  BY DEF DeleteNote, WriteNote, index
<1>2. \A s \in Searches :
        /\ search'[s].at = search[s].at /\ search'[s].vault = search[s].vault
        /\ search'[s].note = search[s].note /\ search'[s].present = search[s].present
        /\ ~search'[s].quiet
  BY <1>1, Noticed DEF Inv
<1>3. \A m \in Notes : Rowless(m)'
  BY <1>1, <1>2 DEF Tidy, Rowless
<1>4. \A s \in Searches : Found(search[s])' /\ Exact(search[s])'
  BY <1>1, <1>2 DEF Tidy, Found, Exact
<1>5. \A s, u \in Searches : Later(search[s], search[u])'
  BY <1>2 DEF Later
<1>6. QED
  BY <1>3, <1>4, <1>5 DEF Tidy

LEMMA ApartTidy ==
  ASSUME Tidy, UNCHANGED <<disk, chunks, source, search>>, lock' \in Searches <=> lock \in Searches
  PROVE  Tidy'
<1>1. \A n \in Notes : Rowless(n)'
  BY DEF Tidy, Rowless
<1>2. \A s \in Searches : Found(search[s])' /\ Exact(search[s])'
  BY DEF Tidy, Found, Exact
<1>3. \A s, u \in Searches : Later(search[s], search[u])'
  BY DEF Tidy, Later
<1>4. QED
  BY <1>1, <1>2, <1>3 DEF Tidy

LEMMA TidyInit == Init => Tidy
<1> SUFFICES ASSUME Init PROVE Tidy
  OBVIOUS
<1>1. \A s \in Searches : search[s].at = "idle"
  BY DEF Init, Idle
<1>2. \A n \in Notes : Rowless(n)
  BY DEF Init, Rowless
<1>3. \A s \in Searches : Found(search[s]) /\ Exact(search[s])
  BY <1>1 DEF Found, Exact, Syncing, AtNote, Pruning
<1>4. \A s, u \in Searches : Later(search[s], search[u])
  BY <1>1 DEF Later
<1>5. QED
  BY <1>2, <1>3, <1>4 DEF Tidy

LEMMA TidyNext == Neat /\ crashes \in Nat /\ Inv /\ Tidy /\ [Next]_vars => Tidy'
<1> SUFFICES ASSUME Neat, crashes \in Nat, Inv, Tidy, [Next]_vars PROVE Tidy'
  OBVIOUS
<1>1. CASE UNCHANGED vars
  BY <1>1, ApartTidy DEF vars, vault, index, engine
<1>2. ASSUME NEW n \in Notes, DeleteNote(n) \/ \E t \in Texts : WriteNote(n, t) PROVE Tidy'
  BY <1>2, EditTidy
<1>3. ASSUME NEW s \in Searches, SearchStep(s) \/ \E v \in Vaults : Request(s, v) PROVE Tidy'
  BY <1>3, SyncBeginTidy, SyncFingerprintTidy, SyncReadTidy, SyncInsertTidy, SyncStampTidy,
     PruneChunksTidy, PruneVectorsTidy, PruneSourceTidy, SyncEndTidy, HandlerTidy
     DEF SearchStep, Neat
<1>4. CASE PassStep
  BY <1>4, PassEffect, ApartTidy, ConstantsAssumption DEF Inv, MutexHeld
<1>5. CASE Crash
  BY <1>5 DEF Crash, Neat, Unfailing
<1>6. CASE Restart
  BY <1>6, ApartTidy DEF Restart, vault, index
<1>7. QED
  BY <1>1, <1>2, <1>3, <1>4, <1>5, <1>6 DEF Next

\* sync_vault_blocking ("Bring the index in line with the Markdown notes under root",
\* index.rs:154): while no statement fails and every note can be read, a search whose
\* sync succeeded, in a vault that has not changed since, finds the rows of exactly the
\* notes of that vault, and of no other.  With several vaults, one search at a time.
THEOREM FreshAreExact ==
  ASSUME DistinctTimes, Neat, Legible PROVE Spec => []FreshSearchIsExact
<1>1. Inv /\ Tidy => FreshSearchIsExact
  <2> SUFFICES ASSUME Inv, Tidy, NEW s \in Searches, FreshSearch(s), NEW n \in Notes
               PROVE  chunks[n] = IF VaultOf[n] = search[s].vault THEN Truth(n) ELSE NoText
    BY DEF FreshSearchIsExact
  <2>1. Orderly /\ lock \notin Searches
    BY ConstantsAssumption DEF Neat, Orderly, FreshSearch
  <2>2. \A u \in Searches : search[u].at # "stamp" /\ search[u].at \notin Pruning
    BY <2>1 DEF Inv, MutexHeld, Syncing, AtNote
  <2>3. source[n] = NoFp => chunks[n] = NoText
    BY <2>2 DEF Tidy, Rowless
  <2>4. source[n] # NoFp => VaultOf[n] = search[s].vault /\ disk[n] # NoFile
    BY <2>1 DEF Tidy, Exact, FreshSearch, SearchAt
  <2>5. CASE VaultOf[n] = search[s].vault /\ disk[n] # NoFile
    <3>1. Readable(n)
      BY <2>5 DEF Readable, Legible
    <3>2. source[n] = Fp(n)
      BY <2>1, <2>5, <3>1 DEF Inv, Sound, Synced, FreshSearch, SearchAt
    <3>3. chunks[n] = RowsOf(disk[n].text)
      BY <2>1, <2>2, <2>5, <3>2 DEF Inv, Stamped, Pruned
    <3>4. QED
      BY <2>5, <3>3 DEF Truth
  <2>6. CASE ~(VaultOf[n] = search[s].vault /\ disk[n] # NoFile)
    BY <2>3, <2>4, <2>6 DEF Truth
  <2>7. QED
    BY <2>5, <2>6
<1>2. Inv /\ crashes \in Nat /\ Tidy /\ [Next]_vars => Tidy'
  BY TidyNext
<1>3. QED
  BY <1>1, <1>2, TidyInit, IndexInvariant, Crashes, PTL DEF Spec

-----------------------------------------------------------------------------
(* While no statement fails: the vectors are those of the text they are stamped with *)

Embedding == {"read", "embed", "store", "insert", "stamp"}

\* embedded_fingerprint is a column of the note's row, taken in the past.
VectorsTyped == /\ embedded \in [Notes -> Fps \cup {NoFp}]
                /\ vectors \in [Notes -> Texts \cup {NoText}]
                /\ \A n \in Notes : embedded[n] # NoFp => embedded[n][1] <= clock
                /\ \A n \in Notes : source[n] = NoFp => embedded[n] = NoFp

\* The pass is at the vectors of n, or a sync is at the row of n.
Stored(n) == pass.at \in {"insert", "stamp"} /\ pass.note = n
Erased(n) == \E s \in Searches : search[s].at = "pruneSource" /\ search[s].note = n

\* A note stamped as embedded has its vectors, unless they are being replaced.
Embedded(n) ==
  disk[n] # NoFile /\ embedded[n] = Fp(n) =>
    vectors[n] = RowsOf(disk[n].text) \/ Stored(n) \/ Erased(n)

\* What the pass has taken is current, unless the note changed; and a note that is
\* stamped and taken once more was taken as it is stamped.
Taken ==
  pass.at \in Embedding =>
    /\ pass.note \in Notes /\ pass.fp \in Fps /\ pass.fp[1] <= clock
    /\ disk[pass.note] # NoFile /\ embedded[pass.note] = Fp(pass.note)
         => pass.fp = Fp(pass.note)
    /\ pass.at # "read" =>
         /\ pass.text \in Texts
         /\ disk[pass.note] # NoFile /\ pass.fp = Fp(pass.note) => pass.text = disk[pass.note].text
    /\ pass.at = "stamp" => vectors[pass.note] = RowsOf(pass.text)

InStep == VectorsTyped /\ (\A n \in Notes : Embedded(n)) /\ Taken

LEMMA InStepInit == Init => InStep
<1> SUFFICES ASSUME Init PROVE InStep
  OBVIOUS
<1>1. VectorsTyped /\ \A n \in Notes : Embedded(n)
  BY DEF Init, VectorsTyped, Embedded
<1>2. Taken
  BY DEF Init, NoPass, Taken, Embedding
<1>3. QED
  BY <1>1, <1>2 DEF InStep

\* A changed note carries a new mtime: what is stamped or taken is not current any more.
LEMMA EditInStep ==
  ASSUME Inv, InStep, DistinctTimes, NEW n \in Notes,
         DeleteNote(n) \/ \E t \in Texts : WriteNote(n, t)
  PROVE  InStep'
<1>1. /\ VaultChanged /\ UNCHANGED <<source, embedded, vectors, pass>>
      /\ clock \in Nat /\ clock' \in Nat /\ clock <= clock'
  BY DEF DeleteNote, WriteNote, index, DistinctTimes, Inv, DiskTyped
<1>2. /\ \A m \in Notes \ {n} : disk'[m] = disk[m] /\ Fp(m)' = Fp(m)
      /\ disk'[n] # NoFile =>
           /\ Fp(n)' \in Fps /\ Fp(n)' # NoFp
           /\ \A f \in Fps : f[1] <= clock => f # Fp(n)'
  <2>1. CASE DeleteNote(n)
    BY <2>1 DEF DeleteNote, Fp, Inv, DiskTyped
  <2>2. ASSUME NEW t \in Texts, WriteNote(n, t)
        PROVE  /\ \A m \in Notes \ {n} : disk'[m] = disk[m] /\ Fp(m)' = Fp(m)
               /\ Fp(n)' = <<clock + 1, SizeOf[t]>>
    BY <1>1, <2>2 DEF WriteNote, DistinctTimes, Fp, Inv, DiskTyped
  <2>3. \A t \in Texts : <<clock + 1, SizeOf[t]>> \in Fps
    BY <1>1, ConstantsAssumption DEF Fps
  <2>4. QED
    BY <1>1, <2>1, <2>2, <2>3, SentinelsAssumption DEF Fps
<1>3. \A m \in Notes : Erased(m)' <=> Erased(m)
  <2>1. \A s \in Searches : search'[s].at = search[s].at /\ search'[s].note = search[s].note
    BY <1>1, Noticed DEF Inv
  <2>2. QED
    BY <2>1 DEF Erased
<1>4. VectorsTyped'
  BY <1>1 DEF InStep, VectorsTyped, Fps
<1>5. ASSUME NEW m \in Notes PROVE Embedded(m)'
  <2>1. CASE m = n
    <3>1. disk'[n] # NoFile => embedded[n] # Fp(n)'
      BY <1>2 DEF InStep, VectorsTyped
    <3>2. QED
      BY <1>1, <2>1, <3>1 DEF Embedded
  <2>2. CASE m # n
    BY <1>1, <1>2, <1>3, <2>2 DEF InStep, Embedded, Stored
  <2>3. QED
    BY <2>1, <2>2
<1>6. Taken'
  <2>1. CASE pass.note = n
    <3>1. pass.at \in Embedding => pass.fp \in Fps /\ pass.fp[1] <= clock
      BY DEF InStep, Taken
    <3>2. disk'[n] # NoFile /\ pass.at \in Embedding => pass.fp # Fp(n)'
      BY <1>2, <3>1
    <3>3. disk'[n] # NoFile => embedded[n] # Fp(n)'
      BY <1>2 DEF InStep, VectorsTyped
    <3>4. QED
      BY <1>1, <2>1, <3>1, <3>2, <3>3 DEF InStep, Taken, Fps
  <2>2. CASE pass.note # n
    BY <1>1, <1>2, <2>2 DEF InStep, Taken, Fps
  <2>3. QED
    BY <2>1, <2>2
<1>7. QED
  BY <1>4, <1>5, <1>6 DEF InStep

\* A handler that touches neither the vectors nor their stamps.
LEMMA AsideInStep ==
  ASSUME InStep, UNCHANGED <<disk, clock, embedded, vectors>>,
         \A n \in Notes : source'[n] = NoFp => source[n] = NoFp,
         \A n \in Notes : Erased(n) => Erased(n)',
         \/ pass' = pass
         \/ pass.at \notin {"insert", "stamp"} /\ pass'.at \notin Embedding
  PROVE  InStep'
<1>1. VectorsTyped'
  BY DEF InStep, VectorsTyped
<1>2. \A n \in Notes : Embedded(n)'
  BY DEF InStep, Embedded, Stored, Fp
<1>3. Taken'
  BY DEF InStep, Taken, Fp
<1>4. QED
  BY <1>1, <1>2, <1>3 DEF InStep

LEMMA HandlerInStep ==
  ASSUME Inv, InStep, Unfailing, NEW s \in Searches,
         SearchStep(s) \/ \E v \in Vaults : Request(s, v), ~PruneVectors(s), ~PruneSource(s)
  PROVE  InStep'
<1>1. UNCHANGED <<disk, clock, embedded, vectors>> /\ search \in [Searches -> Handler]
  BY DEF SearchStep, Request, SyncBegin, SyncFingerprint, SyncRead, SyncInsert, SyncStamp,
         PruneChunks, SyncEnd, SpawnEmbedding, Retrieve, SyncFrame, SearchFrame, vault, index,
         Inv, HandlersTyped
<1>2. search[s].at # "pruneSource"
  BY DEF SearchStep, Request, SyncBegin, SyncFingerprint, SyncRead, SyncInsert, SyncStamp,
         PruneChunks, SyncEnd, SpawnEmbedding, Retrieve, SearchAt
<1>3. \A u \in Searches \ {s} : search'[u] = search[u]
  BY <1>1 DEF SearchStep, Request, SyncBegin, SyncFingerprint, SyncRead, SyncInsert, SyncStamp,
         PruneChunks, SyncEnd, SpawnEmbedding, Retrieve, SyncError, NextFile, Goto, Step
<1>4. \A n \in Notes : source'[n] = NoFp => source[n] = NoFp
  <2>1. CASE SyncStamp(s)
    <3>1. search[s].fp # NoFp /\ search[s].note \in Notes
      BY <2>1, SentinelsAssumption
         DEF SyncStamp, SearchAt, Inv, HandlersTyped, Handler, Equipped, AtNote, Fps
    <3>2. source' = [source EXCEPT ![search[s].note] = search[s].fp]
      BY <2>1 DEF SyncStamp, SyncError, Unfailing
    <3>3. QED
      BY <3>1, <3>2 DEF Inv, RowsTyped
  <2>2. CASE ~SyncStamp(s)
    BY <2>2 DEF SearchStep, Request, SyncBegin, SyncFingerprint, SyncRead, SyncInsert,
         PruneChunks, SyncEnd, SpawnEmbedding, Retrieve, index
  <2>3. QED
    BY <2>1, <2>2
<1>5. \A n \in Notes : Erased(n) => Erased(n)'
  BY <1>2, <1>3 DEF Erased
<1>6. \/ pass' = pass
      \/ pass.at \notin {"insert", "stamp"} /\ pass'.at \notin Embedding
  <2>1. CASE SpawnEmbedding(s)
    BY <2>1 DEF SpawnEmbedding, Inv, PassHeld, NoPass, PassRecord, Embedding
  <2>2. CASE ~SpawnEmbedding(s)
    BY <2>2 DEF SearchStep, Request, SyncBegin, SyncFingerprint, SyncRead, SyncInsert, SyncStamp,
         PruneChunks, SyncEnd, Retrieve, SyncFrame
  <2>3. QED
    BY <2>1, <2>2
<1>7. QED
  BY <1>1, <1>4, <1>5, <1>6, AsideInStep

\* delete_source holds the mutex: the pass is not at its vectors.
LEMMA PruneVectorsInStep ==
  ASSUME Inv, InStep, Unfailing, NEW s \in Searches, PruneVectors(s) PROVE InStep'
<1> DEFINE n == search[s].note
<1>1. /\ search[s] \in Handler /\ search \in [Searches -> Handler] /\ n \in Notes
      /\ search[s].at = "pruneVectors" /\ lock = s
      /\ UNCHANGED <<disk, clock, source, embedded, pass>>
      /\ vectors' = [vectors EXCEPT ![n] = NoText]
      /\ search' = [search EXCEPT ![s].at = "pruneSource"]
  BY DEF PruneVectors, SearchAt, Inv, HandlersTyped, Equipped, Pruning, Syncing, MutexHeld,
         SyncError, Unfailing, Goto, SyncFrame, SearchFrame, vault
<1>2. /\ search'[s].at = "pruneSource" /\ search'[s].note = n
      /\ \A u \in Searches \ {s} : search'[u] = search[u]
  BY <1>1 DEF Handler
<1>3. pass.at \notin {"insert", "stamp"}
  BY <1>1, ConstantsAssumption DEF Inv, MutexHeld
<1>4. VectorsTyped'
  BY <1>1 DEF InStep, VectorsTyped
<1>5. ASSUME NEW m \in Notes PROVE Embedded(m)'
  <2>1. Erased(m) => Erased(m)'
    BY <1>1, <1>2 DEF Erased
  <2>2. m = n => Erased(m)'
    BY <1>2 DEF Erased
  <2>3. m # n => vectors'[m] = vectors[m]
    BY <1>1 DEF InStep, VectorsTyped
  <2>4. QED
    BY <1>1, <2>1, <2>2, <2>3 DEF InStep, Embedded, Stored, Fp
<1>6. Taken'
  BY <1>1, <1>3 DEF InStep, Taken, Fp
<1>7. QED
  BY <1>4, <1>5, <1>6 DEF InStep

LEMMA PruneSourceInStep ==
  ASSUME Inv, InStep, Unfailing, NEW s \in Searches, PruneSource(s) PROVE InStep'
<1> DEFINE n == search[s].note
<1>1. /\ n \in Notes /\ search[s].at = "pruneSource" /\ NextFile(s)
      /\ UNCHANGED <<disk, clock, vectors, pass>>
      /\ source' = [source EXCEPT ![n] = NoFp] /\ embedded' = [embedded EXCEPT ![n] = NoFp]
  BY DEF PruneSource, SearchAt, Inv, HandlersTyped, Handler, Equipped, Pruning,
         SyncError, Unfailing, SyncFrame, SearchFrame, vault
<1>2. \A u \in Searches \ {s} : search'[u] = search[u]
  BY <1>1, NextFileMoves DEF Syncing, Pruning
<1>3. \A m \in Notes : Fp(m)' = Fp(m) /\ (disk[m] # NoFile => Fp(m) # NoFp)
  <2>1. \A m \in Notes : disk[m] # NoFile => Fp(m) \in Fps
    BY FpTyped DEF Inv
  <2>2. QED
    BY <1>1, <2>1, SentinelsAssumption DEF Fps, Fp
<1>4. VectorsTyped'
  BY <1>1 DEF InStep, VectorsTyped, Inv, RowsTyped
<1>5. ASSUME NEW m \in Notes PROVE Embedded(m)'
  <2>1. m = n => embedded'[m] = NoFp
    BY <1>1 DEF InStep, VectorsTyped
  <2>2. m # n => embedded'[m] = embedded[m] /\ (Erased(m) => Erased(m)')
    BY <1>1, <1>2 DEF InStep, VectorsTyped, Erased
  <2>3. QED
    BY <1>1, <1>3, <2>1, <2>2 DEF InStep, Embedded, Stored
<1>6. Taken'
  <2>1. \A m \in Notes : embedded'[m] \in {embedded[m], NoFp}
    BY <1>1 DEF InStep, VectorsTyped
  <2>2. QED
    BY <1>1, <1>3, <2>1 DEF InStep, Taken
<1>7. QED
  BY <1>4, <1>5, <1>6 DEF InStep

\* The pass looks for what is pending, or ends: no note is in its hands then.
LEMMA PassListInStep ==
  ASSUME Inv, InStep, Unfailing,
         PassCount \/ PassList \/ PassEmbedFails \/ PassEnd \/ (PassRead /\ SkipNote)
  PROVE  InStep'
<1>1. /\ UNCHANGED <<disk, clock, source, embedded, vectors, search>> /\ pass \in PassRecord
      /\ pass.at \notin {"insert", "stamp"}
  BY DEF PassCount, PassList, PassEmbedFails, PassEnd, PassRead, PassAt, PassFrame, vault,
         index, Inv, PassHeld
<1>2. pass'.at \in {"none", "list", "next"}
  <2>1. \/ pass' = NoPass \/ SkipNote
        \/ pass' = [pass EXCEPT !.at = "list"]
        \/ pass' = [pass EXCEPT !.at = "next", !.pending = Pending]
    BY DEF PassCount, PassList, PassEmbedFails, PassEnd, EndPass
  <2>2. NoPass.at = "none" /\ (SkipNote => pass'.at = "next")
    BY DEF NoPass, SkipNote
  <2>3. QED
    BY <1>1, <2>1, <2>2 DEF PassRecord
<1>3. QED
  BY <1>1, <1>2, AsideInStep DEF Embedding, Erased

\* read_and_chunk: the fingerprint first.
LEMMA PassFingerprintInStep == ASSUME Inv, InStep, PassFingerprint PROVE InStep'
<1>1. /\ UNCHANGED <<disk, clock, source, embedded, vectors, search>> /\ pass \in PassRecord
      /\ pass.at = "next"
  BY DEF PassFingerprint, PassAt, PassFrame, vault, index, Inv, PassHeld
<1>2. PICK n \in pass.pending :
        \/ disk[n] = NoFile /\ pass' = [pass EXCEPT !.pending = @ \ {n}]
        \/ /\ disk[n] # NoFile
           /\ pass' = [pass EXCEPT !.at = "read", !.note = n, !.fp = Fp(n), !.pending = @ \ {n}]
  BY DEF PassFingerprint
<1>3. n \in Notes
  BY <1>1 DEF PassRecord
<1>4. CASE disk[n] = NoFile /\ pass' = [pass EXCEPT !.pending = @ \ {n}]
  BY <1>1, <1>4, AsideInStep DEF PassRecord, Embedding, Erased
<1>5. CASE /\ disk[n] # NoFile
           /\ pass' = [pass EXCEPT !.at = "read", !.note = n, !.fp = Fp(n), !.pending = @ \ {n}]
  <2>1. pass'.at = "read" /\ pass'.note = n /\ pass'.fp = Fp(n)
    BY <1>1, <1>5 DEF PassRecord
  <2>2. Fp(n) \in Fps /\ Fp(n)[1] <= clock
    BY <1>3, <1>5, FpTyped DEF Inv
  <2>3. VectorsTyped'
    BY <1>1 DEF InStep, VectorsTyped
  <2>4. \A m \in Notes : Embedded(m)'
    BY <1>1 DEF InStep, Embedded, Stored, Erased, Fp
  <2>5. Fp(n)' = Fp(n)
    BY <1>1 DEF Fp
  <2>6. Taken'
    BY <1>1, <1>3, <2>1, <2>2, <2>5 DEF Taken
  <2>7. QED
    BY <2>3, <2>4, <2>6 DEF InStep
<1>6. QED
  BY <1>2, <1>4, <1>5

\* The text is read after the fingerprint: if that is still current, so is the text.
LEMMA PassReadInStep == ASSUME Inv, InStep, Unfailing, PassRead \/ PassEmbed PROVE InStep'
<1> DEFINE n == pass.note
<1>1. /\ UNCHANGED <<disk, clock, source, embedded, vectors, search>> /\ pass \in PassRecord
      /\ pass.at \in {"read", "embed"} /\ pass.at \in Embedding
  BY DEF PassRead, PassEmbed, PassAt, PassFrame, vault, index, Inv, PassHeld, Embedding
<1>2. CASE PassRead /\ SkipNote
  BY <1>2, PassListInStep
<1>3. CASE \/ /\ Readable(n) /\ pass.at = "read"
              /\ pass' = [pass EXCEPT !.text = disk[n].text,
                                      !.at = IF disk[n].text \in Empty THEN "store" ELSE "embed"]
           \/ pass.at = "embed" /\ pass' = [pass EXCEPT !.at = "store"]
  <2>1. /\ pass'.at \in {"embed", "store"} /\ pass'.note = n /\ pass'.fp = pass.fp
        /\ pass'.text = IF pass.at = "read" THEN disk[n].text ELSE pass.text
        /\ pass.at = "read" => disk[n] # NoFile
    BY <1>1, <1>3 DEF PassRecord, Readable
  <2>2. n \in Notes /\ (pass.at = "read" => disk[n].text \in Texts)
    BY <1>1, <2>1 DEF InStep, Taken, Inv, DiskTyped, File
  <2>3. VectorsTyped'
    BY <1>1 DEF InStep, VectorsTyped
  <2>4. \A m \in Notes : Embedded(m)'
    BY <1>1 DEF InStep, Embedded, Stored, Erased, Fp
  <2>5. Taken'
    BY <1>1, <2>1, <2>2 DEF InStep, Taken, Fp
  <2>6. QED
    BY <2>3, <2>4, <2>5 DEF InStep
<1>4. QED
  BY <1>2, <1>3 DEF PassRead, PassEmbed, PassAt

\* store_embeddings_blocking: the stamp comes after the vectors.
LEMMA PassStoreInStep == ASSUME Inv, InStep, Unfailing, PassStore PROVE InStep'
<1> DEFINE n == pass.note
<1>1. /\ UNCHANGED <<disk, clock, source, embedded, search>> /\ pass \in PassRecord
      /\ pass.at = "store" /\ vectors' = [vectors EXCEPT ![n] = NoText]
      /\ pass' = [pass EXCEPT !.at = "insert"]
  BY DEF PassStore, PassAt, PassFrame, vault, StoreError, Unfailing, Inv, PassHeld
<1>2. /\ pass'.at = "insert" /\ pass'.note = n /\ pass'.fp = pass.fp /\ pass'.text = pass.text
      /\ n \in Notes
  BY <1>1 DEF PassRecord, InStep, Taken, Embedding
<1>3. VectorsTyped'
  BY <1>1 DEF InStep, VectorsTyped
<1>4. ASSUME NEW m \in Notes PROVE Embedded(m)'
  <2>1. m # n => vectors'[m] = vectors[m] /\ ~Stored(m)
    BY <1>1 DEF InStep, VectorsTyped, Stored
  <2>2. m = n => Stored(m)'
    BY <1>2 DEF Stored
  <2>3. QED
    BY <1>1, <2>1, <2>2 DEF InStep, Embedded, Erased, Fp
<1>5. Taken'
  BY <1>1, <1>2 DEF InStep, Taken, Embedding, Fp
<1>6. QED
  BY <1>3, <1>4, <1>5 DEF InStep

LEMMA PassInsertInStep == ASSUME Inv, InStep, Unfailing, PassInsert PROVE InStep'
<1> DEFINE n == pass.note
<1>1. /\ UNCHANGED <<disk, clock, source, embedded, search>> /\ pass \in PassRecord
      /\ pass.at = "insert" /\ vectors' = [vectors EXCEPT ![n] = RowsOf(pass.text)]
      /\ pass' = [pass EXCEPT !.at = "stamp"]
  BY DEF PassInsert, PassAt, PassFrame, vault, StoreError, Unfailing, Inv, PassHeld
<1>2. /\ pass'.at = "stamp" /\ pass'.note = n /\ pass'.fp = pass.fp /\ pass'.text = pass.text
      /\ n \in Notes /\ RowsOf(pass.text) \in Texts \cup {NoText}
  BY <1>1 DEF PassRecord, InStep, Taken, Embedding, RowsOf
<1>3. VectorsTyped' /\ vectors'[n] = RowsOf(pass.text)
  BY <1>1, <1>2 DEF InStep, VectorsTyped
<1>4. ASSUME NEW m \in Notes PROVE Embedded(m)'
  <2>1. m # n => vectors'[m] = vectors[m] /\ ~Stored(m)
    BY <1>1 DEF InStep, VectorsTyped, Stored
  <2>2. m = n => Stored(m)'
    BY <1>2 DEF Stored
  <2>3. QED
    BY <1>1, <2>1, <2>2 DEF InStep, Embedded, Erased, Fp
<1>5. Taken'
  BY <1>1, <1>2, <1>3 DEF InStep, Taken, Embedding, Fp, RowsOf
<1>6. QED
  BY <1>3, <1>4, <1>5 DEF InStep

LEMMA PassStampInStep == ASSUME Inv, InStep, Unfailing, PassStamp PROVE InStep'
<1> DEFINE n == pass.note
           f == IF source[n] = NoFp THEN embedded[n] ELSE pass.fp
<1>1. /\ UNCHANGED <<disk, clock, source, vectors, search>> /\ pass \in PassRecord
      /\ pass.at = "stamp" /\ embedded' = [embedded EXCEPT ![n] = f] /\ SkipNote
  BY DEF PassStamp, PassAt, PassFrame, vault, StoreError, Unfailing, Inv, PassHeld
<1>2. /\ n \in Notes /\ pass.fp \in Fps /\ pass.fp[1] <= clock
      /\ disk[n] # NoFile /\ pass.fp = Fp(n) => pass.text = disk[n].text
      /\ vectors[n] = RowsOf(pass.text)
  BY <1>1 DEF InStep, Taken, Embedding
<1>3. embedded'[n] = f /\ \A m \in Notes \ {n} : embedded'[m] = embedded[m]
  BY <1>1, <1>2 DEF InStep, VectorsTyped
<1>4. VectorsTyped'
  BY <1>1, <1>2, <1>3 DEF InStep, VectorsTyped
<1>5. ASSUME NEW m \in Notes PROVE Embedded(m)'
  <2>1. CASE m = n
    <3>1. disk[n] # NoFile => Fp(n) # NoFp
      BY <1>2, FpTyped, SentinelsAssumption DEF Inv, Fps
    <3>2. disk[n] # NoFile /\ f = Fp(n) => vectors[n] = RowsOf(disk[n].text)
      BY <1>2, <3>1 DEF InStep, VectorsTyped
    <3>3. QED
      BY <1>1, <1>3, <2>1, <3>2 DEF Embedded, Fp, RowsOf
  <2>2. CASE m # n
    BY <1>1, <1>3, <2>2 DEF InStep, Embedded, Stored, Erased, Fp
  <2>3. QED
    BY <2>1, <2>2
<1>6. Taken'
  BY <1>1 DEF Taken, Embedding, SkipNote, NoPass
<1>7. QED
  BY <1>4, <1>5, <1>6 DEF InStep

LEMMA InStepNext ==
  DistinctTimes /\ Unfailing /\ crashes \in Nat /\ Inv /\ InStep /\ [Next]_vars => InStep'
<1> SUFFICES ASSUME DistinctTimes, Unfailing, crashes \in Nat, Inv, InStep, [Next]_vars
             PROVE  InStep'
  OBVIOUS
<1>1. CASE UNCHANGED vars
  BY <1>1, AsideInStep DEF vars, vault, index, engine, Erased
<1>2. ASSUME NEW n \in Notes, DeleteNote(n) \/ \E t \in Texts : WriteNote(n, t) PROVE InStep'
  BY <1>2, EditInStep
<1>3. ASSUME NEW s \in Searches, SearchStep(s) \/ \E v \in Vaults : Request(s, v) PROVE InStep'
  BY <1>3, HandlerInStep, PruneVectorsInStep, PruneSourceInStep
<1>4. CASE PassStep
  BY <1>4, PassListInStep, PassFingerprintInStep, PassReadInStep, PassStoreInStep,
     PassInsertInStep, PassStampInStep DEF PassStep
<1>5. CASE Crash
  BY <1>5 DEF Crash, Unfailing
<1>6. CASE Restart
  BY <1>6, AsideInStep DEF Restart, vault, index, Erased
<1>7. QED
  BY <1>1, <1>2, <1>3, <1>4, <1>5, <1>6 DEF Next

\* store_embeddings_blocking ("so the two stay in lockstep", index.rs:472): as long as no
\* statement fails and the engine does not crash, a note that is not pending, and has not
\* changed since, has the vectors of its own text, however searches, the pass and the
\* edits of any number of vaults interleave, and however often the embedder fails.
THEOREM VectorsKept == ASSUME DistinctTimes, Unfailing PROVE Spec => []VectorsInLockstep
<1>1. Inv /\ InStep => VectorsInLockstep
  <2> SUFFICES ASSUME Inv, InStep, lock = NoOne, NEW n \in Notes, disk[n] # NoFile,
                      embedded[n] = Fp(n)
               PROVE  vectors[n] = Truth(n)
    BY DEF VectorsInLockstep
  <2>1. ~Stored(n) /\ ~Erased(n)
    BY ConstantsAssumption DEF Inv, MutexHeld, Stored, Erased, Syncing, Pruning
  <2>2. QED
    BY <2>1 DEF InStep, Embedded, Truth
<1>2. Inv /\ crashes \in Nat /\ InStep /\ [Next]_vars => InStep'
  BY InStepNext
<1>3. QED
  BY <1>1, <1>2, InStepInit, IndexInvariant, Crashes, PTL DEF Spec

=============================================================================
