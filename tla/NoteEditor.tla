----------------------------- MODULE NoteEditor -----------------------------
(***************************************************************************)
(* The note editor of the desktop app (features/editor/editor_state.dart)  *)
(* and everything that touches the open note: the debounced autosave, the  *)
(* switch to another note, the filename that follows the title             *)
(* (workspace_shell.dart, _TitleSync), renames and deletions from the      *)
(* explorer (file_tree.dart), and the summary of a meeting that is written *)
(* into the open note (listening_state.dart).                              *)
(*                                                                         *)
(* Dart runs one callback at a time: an action is the code between two     *)
(* awaits, and any other callback may run while a file operation or the    *)
(* engine is awaited.  A task is one call that is suspended at an await.   *)
(* A text is the note it belongs to, a revision, and the path its first    *)
(* line asks for.                                                          *)
(***************************************************************************)
EXTENDS Integers

CONSTANTS
  Paths,      \* paths of notes, the free ones included
  Files,      \* the paths that hold a note at first; they name the notes
  Tasks,      \* bound on the calls suspended at once
  NoFile, NoPath,
  Ops,        \* what the user does besides typing: subset of AllOps
  WriteFails, \* BOOLEAN: writeFile may throw
  MaxEdits    \* bound on the revisions of a behaviour

AllOps == {"open", "title", "rename", "delete", "summary"}

ASSUME ConstantsAssumption ==
  /\ Files \subseteq Paths /\ NoPath \notin Paths
  /\ Ops \subseteq AllOps /\ WriteFails \in BOOLEAN /\ MaxEdits \in Nat

VARIABLES
  disk,       \* path -> text, or NoFile
  openPath,   \* _openPath
  buffer,     \* the text controller
  dirty, loading,
  failed,     \* the last write threw (it was shown as _error)
  saveTimer,  \* _saveTimer is running
  titleTimer, \* the timer of _TitleSync is running
  task,       \* task -> the call it stands for
  edits,      \* revisions made so far
  raced       \* bookkeeping: the open note changed or moved under a write

editor == <<openPath, buffer, dirty, loading, failed, saveTimer>>
vars == <<disk, editor, titleTimer, task, edits, raced>>

-----------------------------------------------------------------------------
Text == [note : Files, rev : 0 .. MaxEdits, title : Paths]

ASSUME NoFileAssumption == NoFile \notin Text

Blank == [note |-> NoPath, rev |-> 0, title |-> NoPath]

\* A suspended call: path and text are what it snapshot, goal its destination.
Free == [kind |-> "none", at |-> "idle", path |-> NoPath, goal |-> NoPath,
         text |-> Blank]
Call(op, point) == [Free EXCEPT !.kind = op, !.at = point]

IsFree(t) == task[t].at = "idle"
At(t, point) == task[t].at = point
Suspend(t, call) == task' = [task EXCEPT ![t] = call]
Finish(t) == Suspend(t, Free)

Writing    == {t \in Tasks : At(t, "writing")}
Relocating == {t \in Tasks : task[t].at \in {"renaming", "moved", "deleting",
                                             "deleted"}}

\* notifyListeners: _TitleSync starts its timer again.
NotifyIf(heard) == titleTimer' = (titleTimer \/ heard)
Notify == NotifyIf(TRUE)

-----------------------------------------------------------------------------
(* Typing and saving *)

\* _onChanged; the caret moves, which notifies.
Edit(title) ==
  /\ openPath # NoPath /\ ~loading
  /\ edits < MaxEdits /\ edits' = edits + 1
  /\ buffer' = [buffer EXCEPT !.rev = edits', !.title = title]
  /\ dirty' = TRUE /\ saveTimer' = TRUE /\ Notify
  /\ UNCHANGED <<disk, openPath, loading, failed, task>>

\* What a call does once its save is over: open goes on to read, the title
\* sync to rename whatever note is open by then.  The start of a load and the end
\* of setContent notify.
AfterSave(t, call) ==
  \/ /\ call.kind = "open"
     /\ Suspend(t, [call EXCEPT !.at = "reading"]) /\ loading' = TRUE
  \/ /\ call.kind = "title" /\ openPath # NoPath
     /\ Suspend(t, [call EXCEPT !.at = "renaming", !.path = openPath])
     /\ UNCHANGED loading
  \/ /\ \/ call.kind \in {"autosave", "summary"}
        \/ call.kind = "title" /\ openPath = NoPath
     /\ Finish(t) /\ UNCHANGED loading

\* saveNow up to its await: a clean buffer is not written.
SaveNow(t, call) ==
  /\ saveTimer' = FALSE
  /\ \/ /\ openPath # NoPath /\ dirty
        /\ Suspend(t, [call EXCEPT !.at = "writing", !.path = openPath,
                                   !.text = buffer])
        /\ UNCHANGED loading
     \/ (openPath = NoPath \/ ~dirty) /\ AfterSave(t, call)

NotifyAfterSave(call) == NotifyIf(loading' \/ call.kind = "summary")

\* Mutation of WriteDone: the dirty flag is left set.
WriteDoneStillDirty(t) ==
  /\ At(t, "writing")
  /\ disk' = [disk EXCEPT ![task[t].path] = task[t].text]
  /\ failed' = FALSE
  /\ AfterSave(t, task[t]) /\ NotifyAfterSave(task[t])
  /\ UNCHANGED <<openPath, buffer, dirty, saveTimer, edits>>

\* The write lands, creating the file if it is not there; saveNow then clears
\* the flag, whatever the buffer holds by now.
WriteDone(t) ==
  /\ At(t, "writing")
  /\ disk' = [disk EXCEPT ![task[t].path] = task[t].text]
  /\ dirty' = FALSE /\ failed' = FALSE
  /\ AfterSave(t, task[t]) /\ NotifyAfterSave(task[t])
  /\ UNCHANGED <<openPath, buffer, saveTimer, edits>>

\* Mutation of WriteThrows: the flag is cleared as after a write.
WriteThrowsClean(t) ==
  /\ WriteFails /\ At(t, "writing")
  /\ failed' = TRUE /\ dirty' = FALSE
  /\ AfterSave(t, task[t]) /\ Notify
  /\ UNCHANGED <<disk, openPath, buffer, saveTimer, edits>>

\* A FileSystemException is shown and swallowed: the caller goes on.
WriteThrows(t) ==
  /\ WriteFails /\ At(t, "writing")
  /\ failed' = TRUE
  /\ AfterSave(t, task[t]) /\ Notify
  /\ UNCHANGED <<disk, openPath, buffer, dirty, saveTimer, edits>>

\* Timer(_autosaveDebounce, saveNow)
Autosave(t) ==
  /\ saveTimer /\ IsFree(t)
  /\ SaveNow(t, Call("autosave", "writing"))
  /\ UNCHANGED <<disk, openPath, buffer, dirty, failed, titleTimer, edits>>

-----------------------------------------------------------------------------
(* Opening another note *)

\* open(path): the pending save is flushed first.
Open(t, p) ==
  /\ "open" \in Ops /\ IsFree(t)
  /\ disk[p] # NoFile /\ p # openPath
  /\ SaveNow(t, [Call("open", "writing") EXCEPT !.goal = p])
  /\ NotifyAfterSave(Call("open", "writing"))
  /\ UNCHANGED <<disk, openPath, buffer, dirty, failed, edits>>

\* Mutation of ReadDone: the old buffer stays until the next frame.
ReadDoneLate(t) ==
  /\ At(t, "reading")
  /\ openPath' = IF disk[task[t].goal] = NoFile THEN openPath ELSE task[t].goal
  /\ loading' = FALSE /\ Notify
  /\ Finish(t)
  /\ UNCHANGED <<disk, buffer, dirty, failed, saveTimer, edits>>

\* The content replaces the buffer; a note that is gone is an error.
ReadDone(t) ==
  /\ At(t, "reading")
  /\ LET p == task[t].goal IN
       \/ /\ disk[p] # NoFile
          /\ openPath' = p /\ buffer' = disk[p] /\ dirty' = FALSE
       \/ disk[p] = NoFile /\ UNCHANGED <<openPath, buffer, dirty>>
  /\ loading' = FALSE /\ Notify
  /\ Finish(t)
  /\ UNCHANGED <<disk, failed, saveTimer, edits>>

-----------------------------------------------------------------------------
(* Titles, renames and deletions *)

\* _TitleSync._sync: a dirty note whose title is not its filename is saved.
TitleSync(t) ==
  /\ titleTimer /\ titleTimer' = FALSE
  /\ LET wanted == /\ openPath # NoPath /\ ~loading /\ dirty
                   /\ buffer.title # openPath
     IN  \/ /\ wanted /\ "title" \in Ops /\ IsFree(t)
            /\ SaveNow(t, [Call("title", "writing") EXCEPT !.goal = buffer.title,
                                                           !.text = buffer])
         \/ ~(wanted /\ "title" \in Ops) /\ UNCHANGED <<saveTimer, loading, task>>
  /\ UNCHANGED <<disk, openPath, buffer, dirty, failed, edits>>

\* A rename or move of a note in the explorer.
Rename(t, p, q) ==
  /\ "rename" \in Ops /\ IsFree(t) /\ disk[p] # NoFile /\ p # q
  /\ Suspend(t, [Call("rename", "renaming") EXCEPT !.path = p, !.goal = q])
  /\ UNCHANGED <<disk, editor, titleTimer, edits>>

\* FileSystemService.rename: no effect on an equal name, an error on a
\* collision or a missing file.  The tree is refreshed before anyone is told.
RenameDone(t) ==
  /\ At(t, "renaming")
  /\ LET p == task[t].path
         q == task[t].goal
         possible == p # q /\ disk[p] # NoFile /\ disk[q] = NoFile
     IN  \/ /\ possible
            /\ disk' = [disk EXCEPT ![q] = disk[p], ![p] = NoFile]
            /\ Suspend(t, [task[t] EXCEPT !.at = "moved"])
         \/ ~possible /\ Finish(t) /\ UNCHANGED disk
  /\ UNCHANGED <<editor, titleTimer, edits>>

\* Mutation of PathMoved: the pending autosave is cancelled.
PathMovedUnarmed(t) ==
  /\ At(t, "moved")
  /\ openPath' = IF openPath = task[t].path THEN task[t].goal ELSE openPath
  /\ saveTimer' = FALSE
  /\ NotifyIf(openPath = task[t].path)
  /\ Finish(t)
  /\ UNCHANGED <<disk, buffer, dirty, loading, failed, edits>>

\* handlePathMoved: the open path is rebound, buffer and timer stay.
PathMoved(t) ==
  /\ At(t, "moved")
  /\ openPath' = IF openPath = task[t].path THEN task[t].goal ELSE openPath
  /\ NotifyIf(openPath = task[t].path)
  /\ Finish(t)
  /\ UNCHANGED <<disk, buffer, dirty, loading, failed, saveTimer, edits>>

\* _confirmDelete, once the user agreed.
Delete(t, p) ==
  /\ "delete" \in Ops /\ IsFree(t) /\ disk[p] # NoFile
  /\ Suspend(t, [Call("delete", "deleting") EXCEPT !.path = p])
  /\ UNCHANGED <<disk, editor, titleTimer, edits>>

DeleteDone(t) ==
  /\ At(t, "deleting")
  /\ disk' = [disk EXCEPT ![task[t].path] = NoFile]
  /\ Suspend(t, [task[t] EXCEPT !.at = "deleted"])
  /\ UNCHANGED <<editor, titleTimer, edits>>

\* Mutation of PathDeleted: the buffer of the deleted note stays.
PathDeletedKeepsBuffer(t) ==
  /\ At(t, "deleted")
  /\ openPath' = IF openPath = task[t].path THEN NoPath ELSE openPath
  /\ saveTimer' = (saveTimer /\ openPath # task[t].path)
  /\ NotifyIf(openPath = task[t].path)
  /\ Finish(t)
  /\ UNCHANGED <<disk, buffer, dirty, loading, failed, edits>>

\* handlePathDeleted closes the editor on the deleted note.
PathDeleted(t) ==
  /\ At(t, "deleted")
  /\ \/ /\ openPath = task[t].path
        /\ openPath' = NoPath /\ buffer' = Blank
        /\ dirty' = FALSE /\ saveTimer' = FALSE
     \/ openPath # task[t].path /\ UNCHANGED <<openPath, buffer, dirty, saveTimer>>
  /\ NotifyIf(openPath = task[t].path)
  /\ Finish(t)
  /\ UNCHANGED <<disk, loading, failed, edits>>

-----------------------------------------------------------------------------
(* The summary of a meeting *)

\* summarise hands the current text to the engine and waits, for minutes; one
\* at a time (isSummarising).
Summarise(t) ==
  /\ "summary" \in Ops /\ IsFree(t) /\ openPath # NoPath
  /\ \A u \in Tasks : ~At(u, "waiting")
  /\ Suspend(t, [Call("summary", "waiting") EXCEPT !.text = buffer])
  /\ UNCHANGED <<disk, editor, titleTimer, edits>>

\* setContent: the composed text replaces the buffer of the open note and is
\* written at once.
SetContent(t) ==
  /\ At(t, "waiting") /\ openPath # NoPath
  /\ edits < MaxEdits /\ edits' = edits + 1
  /\ buffer' = [task[t].text EXCEPT !.rev = edits']
  /\ dirty' = TRUE /\ saveTimer' = FALSE /\ Notify
  /\ Suspend(t, [task[t] EXCEPT !.at = "writing", !.path = openPath,
                                !.text = buffer'])
  /\ UNCHANGED <<disk, openPath, loading, failed>>

\* The engine failed or deferred the meeting, or no note is open any more.
SummaryEnds(t) ==
  /\ At(t, "waiting")
  /\ Finish(t)
  /\ UNCHANGED <<disk, editor, titleTimer, edits>>

-----------------------------------------------------------------------------
Init ==
  /\ disk = [p \in Paths |-> IF p \in Files
                             THEN [note |-> p, rev |-> 0, title |-> p]
                             ELSE NoFile]
  /\ openPath = NoPath /\ buffer = Blank
  /\ dirty = FALSE /\ loading = FALSE /\ failed = FALSE
  /\ saveTimer = FALSE /\ titleTimer = FALSE
  /\ task = [t \in Tasks |-> Free]
  /\ edits = 0 /\ raced = FALSE

\* Suspended calls and timers run on.
Resume(t) ==
  \/ WriteDone(t) \/ WriteThrows(t) \/ ReadDone(t) \/ RenameDone(t)
  \/ PathMoved(t) \/ DeleteDone(t) \/ PathDeleted(t) \/ SetContent(t)
  \/ SummaryEnds(t)

Timers(t) == Autosave(t) \/ TitleSync(t)

User ==
  \/ \E title \in Paths : Edit(title)
  \/ \E t \in Tasks :
       \/ Summarise(t)
       \/ \E p \in Paths : Open(t, p) \/ Delete(t, p)
                             \/ \E q \in Paths : Rename(t, p, q)

\* The open note changed, moved or was replaced while a write was in flight, or
\* two relocations overlapped; opening a note with nothing in flight starts
\* afresh.
Races ==
  raced' =
    \/ /\ raced
       /\ openPath' = openPath \/ Writing # {} \/ Relocating # {}
    \/ /\ Writing # {}
       /\ buffer' # buffer \/ openPath' # openPath \/ Relocating # {}
    \/ \E t, u \in Relocating : t # u

Next == (User \/ \E t \in Tasks : Resume(t) \/ Timers(t)) /\ Races

Spec == Init /\ [][Next]_vars

\* File operations end and timers fire; typing and clicking are never owed.
Fairness ==
  /\ \A t \in Tasks : WF_vars(Resume(t) /\ Races)
  /\ WF_vars(\E t \in Tasks : Autosave(t) /\ Races)

FairSpec == Spec /\ Fairness

-----------------------------------------------------------------------------
(* Correctness *)

TypeOK ==
  /\ \A p \in Paths : disk[p] # NoFile => disk[p] \in Text
  /\ openPath \in Paths \cup {NoPath}
  /\ IF openPath = NoPath THEN buffer = Blank ELSE buffer \in Text
  /\ {dirty, loading, failed, saveTimer, titleTimer, raced} \subseteq BOOLEAN
  /\ \A t \in Tasks : task[t].kind \in AllOps \cup {"none", "autosave"}
  /\ edits \in 0 .. MaxEdits

Quiet == \A t \in Tasks : task[t].at \in {"idle", "waiting"}

\* A clean note is on disk as the editor shows it (editor_state.dart, _dirty),
\* unless a write overlapped with an edit, a switch or a move.
CleanMeansSaved ==
  Quiet /\ openPath # NoPath /\ ~dirty /\ ~raced => disk[openPath] = buffer

\* A dirty note is never forgotten: an autosave is due, a write is under way,
\* or a write failed and said so (editor_state.dart, _onChanged and saveNow).
DirtyIsScheduled ==
  dirty => saveTimer \/ Writing # {} \/ failed

\* A save goes to the file of the note it was made from: through flushes,
\* late writes and deletions no note is overwritten with another one's text
\* (editor_state.dart, open and saveNow; renames and summaries aside).
NotesNeverMix ==
  [][\A p \in Paths :
       disk[p] # NoFile /\ disk'[p] # NoFile =>
         disk'[p].note = disk[p].note]_vars

\* What the editor shows reaches the disk, on its own, unless a write was raced
\* (editor_state.dart, _autosaveDebounce; the disk does not fail).
EditsReachDisk ==
  dirty ~> (~dirty /\ (openPath = NoPath \/ raced \/ disk[openPath] = buffer))

\* "Switching files flushes pending saves first so unsaved content is never
\* lost" (editor_state.dart:4).  Does not hold: saveNow clears the flag of an
\* edit made while it was writing, and the switch that had the note written, or the
\* next one, drops that edit.
SwitchKeepsEdits ==
  [][\A t \in Tasks :
       At(t, "reading") /\ openPath # NoPath /\ openPath' # openPath
       => \E p \in Paths : disk[p] = buffer]_vars
=============================================================================
