---------------------------- MODULE EditorProofs ----------------------------
(* Proofs about NoteEditor, for every set of paths, notes and calls, every    *)
(* choice of operations, and with or without failing writes.                  *)
EXTENDS NoteEditor, TLAPS

------------------------------------------------------------------------------
(* The inductive invariant *)

\* A text the editor holds: a note's, or none.
Buffers == Text \cup {Blank}

Points == {"idle", "writing", "reading", "renaming", "moved", "deleting",
           "deleted", "waiting"}

CallRecord == [kind : AllOps \cup {"none", "autosave"}, at : Points,
               path : Paths \cup {NoPath}, goal : Paths \cup {NoPath}, text : Buffers]

\* What a suspended call holds for what is left of it.
Equipped(call) ==
  /\ call.at = "writing" => /\ call.path \in Paths /\ call.text \in Text
                            /\ call.kind \in {"open", "title"} => call.goal \in Paths
  /\ call.at = "reading" => call.goal \in Paths
  /\ call.at \in {"renaming", "moved"} => call.path \in Paths /\ call.goal \in Paths
  /\ call.at \in {"deleting", "deleted"} => call.path \in Paths
  /\ call.at = "waiting" => call.text \in Text /\ call.kind = "summary"

Calls == {call \in CallRecord : Equipped(call)}

TasksTyped == task \in [Tasks -> Calls]

DiskTyped == /\ DOMAIN disk = Paths /\ disk = [p \in Paths |-> disk[p]]
             /\ \A p \in Paths : disk[p] # NoFile => disk[p] \in Text

BufferTyped == /\ openPath \in Paths \cup {NoPath}
               /\ IF openPath = NoPath THEN buffer = Blank ELSE buffer \in Text

FlagsTyped == /\ dirty \in BOOLEAN /\ loading \in BOOLEAN /\ failed \in BOOLEAN
              /\ saveTimer \in BOOLEAN /\ titleTimer \in BOOLEAN /\ raced \in BOOLEAN
              /\ edits \in 0 .. MaxEdits

\* Only an open note is dirty.
DirtyIsOpen == dirty => openPath # NoPath

Inv == TasksTyped /\ DiskTyped /\ BufferTyped /\ FlagsTyped /\ DirtyIsOpen /\ DirtyIsScheduled

LEMMA InvType == Inv => TypeOK
BY DEF Inv, TasksTyped, DiskTyped, BufferTyped, FlagsTyped, TypeOK, Calls, CallRecord

LEMMA Initial == Init => Inv
<1> SUFFICES ASSUME Init PROVE Inv
  OBVIOUS
<1>1. TasksTyped
  <2>1. Free \in Calls
    BY DEF Free, Calls, CallRecord, Equipped, Points, Buffers, Blank
  <2>2. QED
    BY <2>1 DEF Init, TasksTyped
<1>2. DiskTyped
  BY ConstantsAssumption DEF Init, DiskTyped, Text
<1>3. BufferTyped /\ DirtyIsOpen /\ DirtyIsScheduled
  BY DEF Init, BufferTyped, DirtyIsOpen, DirtyIsScheduled
<1>4. FlagsTyped
  <2>1. edits \in 0 .. MaxEdits
    BY ConstantsAssumption DEF Init
  <2>2. QED
    BY <2>1 DEF Init, FlagsTyped
<1>5. QED
  BY <1>1, <1>2, <1>3, <1>4 DEF Inv

------------------------------------------------------------------------------
(* Suspended calls *)

\* A call that is suspended leaves the others as they are.
LEMMA Suspended ==
  ASSUME TasksTyped, NEW t \in Tasks, NEW call \in Calls, Suspend(t, call)
  PROVE  /\ TasksTyped'
         /\ Writing' = IF call.at = "writing" THEN Writing \cup {t} ELSE Writing \ {t}
BY DEF TasksTyped, Suspend, Writing, At

LEMMA Finished ==
  ASSUME TasksTyped, NEW t \in Tasks, Finish(t)
  PROVE  TasksTyped' /\ Writing' = Writing \ {t}
<1>1. Free \in Calls /\ Free.at = "idle"
  BY DEF Free, Calls, CallRecord, Equipped, Points, Buffers, Blank
<1>2. QED
  BY <1>1, Suspended DEF Finish

\* A new call is a call record.
LEMMA NewCall ==
  ASSUME NEW op \in AllOps \cup {"autosave"}, NEW point \in Points
  PROVE  /\ Call(op, point) \in CallRecord
         /\ Call(op, point).kind = op /\ Call(op, point).at = point
BY DEF Call, Free, CallRecord, AllOps, Points, Buffers

\* What is left of a call after its save.
LEMMA SaveOver ==
  ASSUME TasksTyped, BufferTyped, loading \in BOOLEAN, NEW t \in Tasks, NEW call \in CallRecord,
         call.kind \in {"open", "title"} => call.goal \in Paths,
         AfterSave(t, call)
  PROVE  TasksTyped' /\ Writing' = Writing \ {t} /\ loading' \in BOOLEAN
<1>1. CASE call.kind = "open" /\ Suspend(t, [call EXCEPT !.at = "reading"]) /\ loading' = TRUE
  <2>1. [call EXCEPT !.at = "reading"] \in Calls
        /\ [call EXCEPT !.at = "reading"].at = "reading"
    BY <1>1 DEF Calls, CallRecord, Equipped, Points
  <2>2. QED
    BY <1>1, <2>1, Suspended
<1>2. CASE /\ call.kind = "title" /\ openPath # NoPath
           /\ Suspend(t, [call EXCEPT !.at = "renaming", !.path = openPath])
           /\ UNCHANGED loading
  <2>1. /\ [call EXCEPT !.at = "renaming", !.path = openPath] \in Calls
        /\ [call EXCEPT !.at = "renaming", !.path = openPath].at = "renaming"
    BY <1>2 DEF Calls, CallRecord, Equipped, Points, BufferTyped
  <2>2. QED
    BY <1>2, <2>1, Suspended
<1>3. CASE Finish(t) /\ UNCHANGED loading
  BY <1>3, Finished
<1>4. QED
  BY <1>1, <1>2, <1>3 DEF AfterSave

\* A save that begins.
LEMMA Saving ==
  ASSUME Inv, NEW t \in Tasks, NEW call \in CallRecord, call.at = "writing",
         call.kind \in {"open", "title"} => call.goal \in Paths,
         IsFree(t), SaveNow(t, call)
  PROVE  /\ TasksTyped' /\ loading' \in BOOLEAN /\ saveTimer' \in BOOLEAN
         /\ dirty => Writing' # {}
<1>1. CASE /\ openPath # NoPath /\ dirty
           /\ Suspend(t, [call EXCEPT !.at = "writing", !.path = openPath, !.text = buffer])
           /\ UNCHANGED loading
  <2> DEFINE save == [call EXCEPT !.at = "writing", !.path = openPath, !.text = buffer]
  <2>1. save \in CallRecord
    BY <1>1 DEF Inv, BufferTyped, CallRecord, Points, Buffers
  <2>2. /\ save.at = "writing" /\ save.path \in Paths /\ save.text \in Text
        /\ save.kind \in {"open", "title"} => save.goal \in Paths
    BY <1>1 DEF Inv, BufferTyped, CallRecord
  <2>3. save \in Calls
    BY <2>1, <2>2 DEF Calls, Equipped
  <2>4. QED
    BY <1>1, <2>2, <2>3, Suspended DEF SaveNow, Inv, FlagsTyped
<1>2. CASE (openPath = NoPath \/ ~dirty) /\ AfterSave(t, call)
  BY <1>2, SaveOver DEF SaveNow, Inv, DirtyIsOpen, FlagsTyped
<1>3. QED
  BY <1>1, <1>2 DEF SaveNow

\* Nothing of the note changes but a call.
LEMMA OnlyTasks ==
  ASSUME Inv, TasksTyped', UNCHANGED <<openPath, buffer, dirty, failed, saveTimer, edits>>,
         DiskTyped', loading' \in BOOLEAN, titleTimer' \in BOOLEAN, raced' \in BOOLEAN,
         Writing \subseteq Writing'
  PROVE  Inv'
BY DEF Inv, BufferTyped, FlagsTyped, DirtyIsOpen, DirtyIsScheduled

LEMMA RacedTyped == ASSUME Races PROVE raced' \in BOOLEAN
BY DEF Races

------------------------------------------------------------------------------
(* The user *)

LEMMA EditKeeps ==
  ASSUME Inv, Races, NEW title \in Paths, Edit(title) PROVE Inv'
<1>1. edits' \in 0 .. MaxEdits
  BY ConstantsAssumption DEF Edit, Inv, FlagsTyped
<1>2. buffer' \in Text
  BY <1>1 DEF Edit, Inv, BufferTyped, Text
<1>3. TasksTyped' /\ DiskTyped'
  BY DEF Edit, Inv, TasksTyped, DiskTyped
<1>4. titleTimer' \in BOOLEAN
  BY DEF Edit, Notify, NotifyIf
<1>5. QED
  BY <1>1, <1>2, <1>3, <1>4, RacedTyped
     DEF Edit, Inv, BufferTyped, FlagsTyped, DirtyIsOpen, DirtyIsScheduled

LEMMA OpenKeeps ==
  ASSUME Inv, Races, NEW t \in Tasks, NEW p \in Paths, Open(t, p) PROVE Inv'
<1> DEFINE call == [Call("open", "writing") EXCEPT !.goal = p]
<1>1. /\ call \in CallRecord /\ call.at = "writing" /\ call.kind = "open"
      /\ call.goal = p
  <2>1. /\ Call("open", "writing") \in CallRecord
        /\ Call("open", "writing").at = "writing" /\ Call("open", "writing").kind = "open"
    BY NewCall DEF AllOps, Points
  <2>2. QED
    BY <2>1 DEF CallRecord
<1>2. /\ TasksTyped' /\ loading' \in BOOLEAN /\ saveTimer' \in BOOLEAN
      /\ dirty => Writing' # {}
  BY <1>1, Saving DEF Open
<1>3. titleTimer' \in BOOLEAN
  BY DEF Open, NotifyAfterSave, NotifyIf
<1>4. QED
  BY <1>2, <1>3, RacedTyped
     DEF Open, Inv, DiskTyped, BufferTyped, FlagsTyped, DirtyIsOpen, DirtyIsScheduled

\* The calls that begin with a question to the user, the engine or the disk.
LEMMA Asks ==
  ASSUME BufferTyped, NEW t \in Tasks,
         \/ Summarise(t)
         \/ \E p \in Paths : Delete(t, p) \/ \E q \in Paths : Rename(t, p, q)
  PROVE  \E call \in Calls : /\ Suspend(t, call)
                             /\ call.at \in {"waiting", "deleting", "renaming"}
<1>1. CASE Summarise(t)
  <2> DEFINE call == [Call("summary", "waiting") EXCEPT !.text = buffer]
  <2>1. /\ Call("summary", "waiting") \in CallRecord
        /\ Call("summary", "waiting").at = "waiting"
        /\ Call("summary", "waiting").kind = "summary"
    BY NewCall DEF AllOps, Points
  <2>2. /\ call \in CallRecord /\ call.at = "waiting" /\ call.text \in Text
        /\ call.kind = "summary"
    BY <1>1, <2>1 DEF Summarise, BufferTyped, CallRecord, Buffers
  <2>3. QED
    BY <1>1, <2>2 DEF Summarise, Calls, Equipped
<1>2. ASSUME NEW p \in Paths, Delete(t, p)
      PROVE  \E call \in Calls : Suspend(t, call) /\ call.at = "deleting"
  <2> DEFINE call == [Call("delete", "deleting") EXCEPT !.path = p]
  <2>1. /\ Call("delete", "deleting") \in CallRecord
        /\ Call("delete", "deleting").at = "deleting"
    BY NewCall DEF AllOps, Points
  <2>2. call \in CallRecord /\ call.at = "deleting" /\ call.path \in Paths
    BY <2>1 DEF CallRecord
  <2>3. QED
    BY <1>2, <2>2 DEF Delete, Calls, Equipped
<1>3. ASSUME NEW p \in Paths, NEW q \in Paths, Rename(t, p, q)
      PROVE  \E call \in Calls : Suspend(t, call) /\ call.at = "renaming"
  <2> DEFINE call == [Call("rename", "renaming") EXCEPT !.path = p, !.goal = q]
  <2>1. /\ Call("rename", "renaming") \in CallRecord
        /\ Call("rename", "renaming").at = "renaming"
    BY NewCall DEF AllOps, Points
  <2>2. /\ call \in CallRecord /\ call.at = "renaming"
        /\ call.path \in Paths /\ call.goal \in Paths
    BY <2>1 DEF CallRecord
  <2>3. QED
    BY <1>3, <2>2 DEF Rename, Calls, Equipped
<1>4. QED
  BY <1>1, <1>2, <1>3

LEMMA AsksKeep ==
  ASSUME Inv, Races, NEW t \in Tasks,
         \/ Summarise(t)
         \/ \E p \in Paths : Delete(t, p) \/ \E q \in Paths : Rename(t, p, q)
  PROVE  Inv'
<1>1. PICK call \in Calls : /\ Suspend(t, call)
                            /\ call.at \in {"waiting", "deleting", "renaming"}
  BY Asks DEF Inv
<1>2. IsFree(t) /\ UNCHANGED <<disk, editor, titleTimer, edits>>
  BY DEF Summarise, Delete, Rename
<1>3. TasksTyped' /\ Writing' = Writing
  BY <1>1, <1>2, Suspended DEF Inv, IsFree, Writing, At
<1>4. QED
  BY <1>2, <1>3, OnlyTasks, RacedTyped DEF Inv, DiskTyped, FlagsTyped, editor

------------------------------------------------------------------------------
(* Suspended calls and timers *)

LEMMA AutosaveKeeps ==
  ASSUME Inv, Races, NEW t \in Tasks, Autosave(t) PROVE Inv'
<1>1. /\ Call("autosave", "writing") \in CallRecord
      /\ Call("autosave", "writing").at = "writing"
      /\ Call("autosave", "writing").kind = "autosave"
  BY NewCall DEF Points
<1>2. /\ TasksTyped' /\ loading' \in BOOLEAN /\ saveTimer' \in BOOLEAN
      /\ dirty => Writing' # {}
  BY <1>1, Saving DEF Autosave
<1>3. QED
  BY <1>2, RacedTyped
     DEF Autosave, Inv, DiskTyped, BufferTyped, FlagsTyped, DirtyIsOpen, DirtyIsScheduled

LEMMA TitleSyncKeeps ==
  ASSUME Inv, Races, NEW t \in Tasks, TitleSync(t) PROVE Inv'
<1>1. CASE UNCHANGED <<saveTimer, loading, task>>
  <2>1. TasksTyped' /\ Writing' = Writing
    BY <1>1 DEF Inv, TasksTyped, Writing, At
  <2>2. QED
    BY <1>1, <2>1, OnlyTasks, RacedTyped DEF TitleSync, Inv, DiskTyped, FlagsTyped
<1>2. CASE /\ openPath # NoPath /\ IsFree(t)
           /\ SaveNow(t, [Call("title", "writing") EXCEPT !.goal = buffer.title,
                                                         !.text = buffer])
  <2> DEFINE call == [Call("title", "writing") EXCEPT !.goal = buffer.title, !.text = buffer]
  <2>1. /\ Call("title", "writing") \in CallRecord
        /\ Call("title", "writing").at = "writing"
    BY NewCall DEF AllOps, Points
  <2>2. buffer \in Text /\ buffer.title \in Paths
    BY <1>2 DEF Inv, BufferTyped, Text
  <2>3. call \in CallRecord /\ call.at = "writing" /\ call.goal \in Paths
    BY <2>1, <2>2 DEF CallRecord, Buffers
  <2>4. /\ TasksTyped' /\ loading' \in BOOLEAN /\ saveTimer' \in BOOLEAN
        /\ dirty => Writing' # {}
    BY <1>2, <2>3, Saving
  <2>5. QED
    BY <2>4, RacedTyped
       DEF TitleSync, Inv, DiskTyped, BufferTyped, FlagsTyped, DirtyIsOpen, DirtyIsScheduled
<1>3. QED
  BY <1>1, <1>2 DEF TitleSync

\* The call that goes on holds what it needs.
LEMMA CallHolds ==
  ASSUME TasksTyped, NEW t \in Tasks PROVE task[t] \in CallRecord /\ Equipped(task[t])
BY DEF TasksTyped, Calls

\* A call that goes on to another point.
LEMMA CallGoesOn ==
  ASSUME NEW call \in CallRecord, NEW point \in Points
  PROVE  /\ [call EXCEPT !.at = point] \in CallRecord
         /\ [call EXCEPT !.at = point].at = point
         /\ [call EXCEPT !.at = point].path = call.path
         /\ [call EXCEPT !.at = point].goal = call.goal
BY DEF CallRecord

LEMMA WriteKeeps ==
  ASSUME Inv, Races, NEW t \in Tasks, WriteDone(t) \/ WriteThrows(t) PROVE Inv'
<1>1. /\ task[t] \in CallRecord /\ task[t].path \in Paths /\ task[t].text \in Text
      /\ task[t].kind \in {"open", "title"} => task[t].goal \in Paths
  BY CallHolds DEF Inv, Equipped, WriteDone, WriteThrows, At
<1>2. AfterSave(t, task[t])
  BY DEF WriteDone, WriteThrows
<1>3. TasksTyped' /\ loading' \in BOOLEAN
  BY <1>1, <1>2, SaveOver DEF Inv, FlagsTyped
<1>4. titleTimer' \in BOOLEAN
  BY DEF WriteDone, WriteThrows, NotifyAfterSave, Notify, NotifyIf
<1>5. DiskTyped'
  BY <1>1 DEF WriteDone, WriteThrows, Inv, DiskTyped
<1>6. BufferTyped' /\ DirtyIsOpen' /\ DirtyIsScheduled'
  BY DEF WriteDone, WriteThrows, Inv, BufferTyped, DirtyIsOpen, DirtyIsScheduled
<1>7. FlagsTyped'
  BY <1>3, <1>4, RacedTyped DEF WriteDone, WriteThrows, Inv, FlagsTyped
<1>8. QED
  BY <1>3, <1>5, <1>6, <1>7 DEF Inv

LEMMA ReadKeeps ==
  ASSUME Inv, Races, NEW t \in Tasks, ReadDone(t) PROVE Inv'
<1>1. task[t].goal \in Paths /\ ~At(t, "writing")
  BY CallHolds DEF Inv, Equipped, ReadDone, At
<1>2. TasksTyped' /\ Writing' = Writing
  BY <1>1, Finished DEF ReadDone, Inv, Writing
<1>3. BufferTyped' /\ DirtyIsOpen'
  BY <1>1, ConstantsAssumption DEF ReadDone, Inv, BufferTyped, DiskTyped, DirtyIsOpen
<1>4. FlagsTyped'
  BY RacedTyped DEF ReadDone, Inv, FlagsTyped, Notify, NotifyIf
<1>5. DiskTyped' /\ DirtyIsScheduled'
  BY <1>2 DEF ReadDone, Inv, DiskTyped, DirtyIsScheduled
<1>6. QED
  BY <1>2, <1>3, <1>4, <1>5 DEF Inv

LEMMA RelocationKeeps ==
  ASSUME Inv, Races, NEW t \in Tasks, RenameDone(t) \/ DeleteDone(t) PROVE Inv'
<1>1. /\ task[t] \in CallRecord /\ task[t].path \in Paths
      /\ At(t, "renaming") => task[t].goal \in Paths
  BY CallHolds DEF Inv, Equipped, RenameDone, DeleteDone, At
<1>2. ~At(t, "writing")
  BY DEF RenameDone, DeleteDone, At
<1>3. TasksTyped' /\ Writing' = Writing
  <2>1. CASE Finish(t)
    BY <1>2, <2>1, Finished DEF Inv, Writing
  <2>2. CASE RenameDone(t) /\ Suspend(t, [task[t] EXCEPT !.at = "moved"])
    <3>1. /\ [task[t] EXCEPT !.at = "moved"] \in CallRecord
          /\ [task[t] EXCEPT !.at = "moved"].at = "moved"
          /\ [task[t] EXCEPT !.at = "moved"].path = task[t].path
          /\ [task[t] EXCEPT !.at = "moved"].goal = task[t].goal
      BY <1>1, CallGoesOn DEF Points
    <3>2. [task[t] EXCEPT !.at = "moved"] \in Calls
      BY <1>1, <2>2, <3>1 DEF RenameDone, Calls, Equipped
    <3>3. QED
      BY <1>2, <2>2, <3>1, <3>2, Suspended DEF Inv, Writing
  <2>3. CASE DeleteDone(t) /\ Suspend(t, [task[t] EXCEPT !.at = "deleted"])
    <3>1. /\ [task[t] EXCEPT !.at = "deleted"] \in CallRecord
          /\ [task[t] EXCEPT !.at = "deleted"].at = "deleted"
          /\ [task[t] EXCEPT !.at = "deleted"].path = task[t].path
          /\ [task[t] EXCEPT !.at = "deleted"].goal = task[t].goal
      BY <1>1, CallGoesOn DEF Points
    <3>2. [task[t] EXCEPT !.at = "deleted"] \in Calls
      BY <1>1, <2>3, <3>1 DEF DeleteDone, Calls, Equipped
    <3>3. QED
      BY <1>2, <2>3, <3>1, <3>2, Suspended DEF Inv, Writing
  <2>4. QED
    BY <2>1, <2>2, <2>3 DEF RenameDone, DeleteDone
<1>4. DiskTyped'
  <2>1. CASE disk' = disk
    BY <2>1 DEF Inv, DiskTyped
  <2>2. CASE /\ disk' = [disk EXCEPT ![task[t].goal] = disk[task[t].path],
                                     ![task[t].path] = NoFile]
             /\ At(t, "renaming")
    <3>1. /\ task[t].path \in Paths /\ task[t].goal \in Paths
          /\ DOMAIN disk = Paths /\ \A p \in Paths : disk[p] # NoFile => disk[p] \in Text
      BY <1>1, <2>2 DEF Inv, DiskTyped
    <3>2. QED
      BY <2>2, <3>1 DEF DiskTyped
  <2>3. CASE disk' = [disk EXCEPT ![task[t].path] = NoFile]
    BY <1>1, <2>3 DEF Inv, DiskTyped
  <2>4. QED
    BY <2>1, <2>2, <2>3 DEF RenameDone, DeleteDone
<1>5. QED
  BY <1>3, <1>4, OnlyTasks, RacedTyped DEF RenameDone, DeleteDone, Inv, FlagsTyped, editor

LEMMA RebindingKeeps ==
  ASSUME Inv, Races, NEW t \in Tasks, PathMoved(t) \/ PathDeleted(t) PROVE Inv'
<1>1. task[t].path \in Paths /\ (At(t, "moved") => task[t].goal \in Paths)
  BY CallHolds DEF Inv, Equipped, PathMoved, PathDeleted, At
<1>2. TasksTyped' /\ Writing' = Writing
  BY Finished DEF PathMoved, PathDeleted, Inv, Writing, At
<1>3. BufferTyped' /\ DirtyIsOpen'
  BY <1>1, ConstantsAssumption DEF PathMoved, PathDeleted, Inv, BufferTyped, DirtyIsOpen
<1>4. FlagsTyped'
  BY RacedTyped DEF PathMoved, PathDeleted, Inv, FlagsTyped, NotifyIf
<1>5. DiskTyped' /\ DirtyIsScheduled'
  BY <1>2 DEF PathMoved, PathDeleted, Inv, DiskTyped, DirtyIsScheduled
<1>6. QED
  BY <1>2, <1>3, <1>4, <1>5 DEF Inv

LEMMA SummaryKeeps ==
  ASSUME Inv, Races, NEW t \in Tasks, SetContent(t) \/ SummaryEnds(t) PROVE Inv'
<1>1. task[t] \in CallRecord /\ task[t].text \in Text /\ task[t].kind = "summary"
  BY CallHolds DEF Inv, Equipped, SetContent, SummaryEnds, At
<1>2. CASE SetContent(t)
  <2>1. edits' \in 0 .. MaxEdits
    BY <1>2, ConstantsAssumption DEF SetContent, Inv, FlagsTyped
  <2>2. buffer' \in Text
    BY <1>1, <1>2, <2>1 DEF SetContent, Text
  <2> DEFINE save == [task[t] EXCEPT !.at = "writing", !.path = openPath, !.text = buffer']
  <2>3. /\ save \in CallRecord /\ save.at = "writing" /\ save.path \in Paths
        /\ save.text \in Text /\ save.kind = "summary"
    BY <1>1, <1>2, <2>2 DEF SetContent, Inv, BufferTyped, CallRecord, Points, Buffers
  <2>4. TasksTyped' /\ Writing' # {}
    <3>1. save \in Calls
      BY <2>3 DEF Calls, Equipped
    <3>2. QED
      BY <1>2, <2>3, <3>1, Suspended DEF SetContent, Inv
  <2>5. BufferTyped' /\ DiskTyped' /\ DirtyIsOpen' /\ DirtyIsScheduled'
    BY <1>2, <2>2, <2>4
       DEF SetContent, Inv, BufferTyped, DiskTyped, DirtyIsOpen, DirtyIsScheduled
  <2>6. FlagsTyped'
    BY <1>2, <2>1, RacedTyped DEF SetContent, Inv, FlagsTyped, Notify, NotifyIf
  <2>7. QED
    BY <2>4, <2>5, <2>6 DEF Inv
<1>3. CASE SummaryEnds(t)
  <2>1. TasksTyped' /\ Writing' = Writing
    BY <1>3, Finished DEF SummaryEnds, Inv, Writing, At
  <2>2. QED
    BY <1>3, <2>1, OnlyTasks, RacedTyped DEF SummaryEnds, Inv, DiskTyped, FlagsTyped, editor
<1>4. QED
  BY <1>2, <1>3

------------------------------------------------------------------------------
(* The theorems *)

LEMMA Keeps == Inv /\ [Next]_vars => Inv'
<1> SUFFICES ASSUME Inv, [Next]_vars PROVE Inv'
  OBVIOUS
<1>1. CASE UNCHANGED vars
  BY <1>1 DEF vars, editor, Inv, TasksTyped, DiskTyped, BufferTyped, FlagsTyped, DirtyIsOpen,
              DirtyIsScheduled, Writing, At
<1>2. CASE User /\ Races
  BY <1>2, EditKeeps, OpenKeeps, AsksKeep DEF User
<1>3. ASSUME NEW t \in Tasks, Resume(t), Races PROVE Inv'
  BY <1>3, WriteKeeps, ReadKeeps, RelocationKeeps, RebindingKeeps, SummaryKeeps DEF Resume
<1>4. ASSUME NEW t \in Tasks, Timers(t), Races PROVE Inv'
  BY <1>4, AutosaveKeeps, TitleSyncKeeps DEF Timers
<1>5. QED
  BY <1>1, <1>2, <1>3, <1>4 DEF Next

\* editor_state: the editor shows a text of a note as long as one is open, and
\* every suspended call holds a path and a text of a note for what is left of it.
THEOREM EditorInvariant == Spec => []Inv
BY Initial, Keeps, PTL DEF Spec

\* editor_state: texts, paths, flags and calls keep their types.
THEOREM EditorTyped == Spec => []TypeOK
BY EditorInvariant, InvType, PTL

\* editor_state, _onChanged and saveNow: a dirty note is never forgotten: an
\* autosave is due, a write is under way, or a write failed and said so.
THEOREM DirtyNeverForgotten == Spec => []DirtyIsScheduled
<1>1. Inv => DirtyIsScheduled
  BY DEF Inv
<1>2. QED
  BY <1>1, EditorInvariant, PTL

------------------------------------------------------------------------------
(* A clean note is on disk: the invariant *)

\* Every write under way is of what the editor shows, to the open path.
WritesAreCurrent == \A t \in Writing : task[t].text = buffer /\ task[t].path = openPath

\* Writes and relocations do not overlap, nor do two relocations.
Apart == /\ Writing = {} \/ Relocating = {}
         /\ \A t, u \in Relocating : t = u

\* A path that was just moved from or deleted holds no note.
Vacated == \A t \in Relocating :
             task[t].at \in {"moved", "deleted"} => disk[task[t].path] = NoFile

\* What the open note will be found under when the relocation is over.
SavedUnder(t) ==
  /\ task[t].at \in {"renaming", "deleting"} => disk[openPath] = buffer
  /\ task[t].at = "moved" =>
       disk[IF openPath = task[t].path THEN task[t].goal ELSE openPath] = buffer
  /\ task[t].at = "deleted" /\ openPath # task[t].path => disk[openPath] = buffer

OpenIsSaved == ~dirty /\ openPath # NoPath =>
                 /\ Relocating = {} => disk[openPath] = buffer
                 /\ \A t \in Relocating : SavedUnder(t)

CleanInv == ~raced => /\ WritesAreCurrent
                      /\ Apart => Vacated /\ OpenIsSaved

\* What a step that is not a race says of the state before it.
LEMMA NotRaced ==
  ASSUME Inv, CleanInv, Races, ~raced'
  PROVE  /\ Writing # {} => UNCHANGED <<buffer, openPath>>
         /\ Apart
         /\ raced => Writing = {} /\ Relocating = {} /\ openPath' # openPath
         /\ ~raced => WritesAreCurrent /\ Vacated /\ OpenIsSaved
<1>1. /\ Writing # {} => UNCHANGED <<buffer, openPath>>
      /\ Writing = {} \/ Relocating = {}
      /\ \A t, u \in Relocating : t = u
      /\ raced => Writing = {} /\ Relocating = {} /\ openPath' # openPath
  BY DEF Races
<1>2. QED
  BY <1>1 DEF Apart, CleanInv

\* What a step does to the calls.
LEMMA CallsAfterStep ==
  ASSUME TasksTyped, NEW t \in Tasks, NEW call \in Calls, Suspend(t, call)
  PROVE  /\ task'[t] = call /\ \A u \in Tasks \ {t} : task'[u] = task[u]
         /\ Writing' = IF call.at = "writing" THEN Writing \cup {t} ELSE Writing \ {t}
         /\ Relocating' = IF call.at \in {"renaming", "moved", "deleting", "deleted"}
                          THEN Relocating \cup {t} ELSE Relocating \ {t}
BY DEF TasksTyped, Suspend, Writing, Relocating, At

\* A step that changes only a call, which neither was nor becomes the second half
\* of a relocation.
LEMMA CallOnly ==
  ASSUME Inv, CleanInv, Races, UNCHANGED <<disk, buffer, openPath>>, dirty' = dirty,
         NEW t \in Tasks, NEW call \in Calls, Suspend(t, call),
         t \notin Relocating, call.at \notin {"moved", "deleted"},
         call.at = "writing" => call.text = buffer /\ call.path = openPath
  PROVE  CleanInv'
<1> SUFFICES ASSUME ~raced' PROVE WritesAreCurrent' /\ (Apart' => Vacated' /\ OpenIsSaved')
  BY DEF CleanInv
<1>1. /\ Apart /\ WritesAreCurrent /\ Vacated /\ OpenIsSaved
  BY NotRaced
<1>2. /\ task'[t] = call /\ \A u \in Tasks \ {t} : task'[u] = task[u]
      /\ Writing' = IF call.at = "writing" THEN Writing \cup {t} ELSE Writing \ {t}
      /\ Relocating' = IF call.at \in {"renaming", "moved", "deleting", "deleted"}
                       THEN Relocating \cup {t} ELSE Relocating \ {t}
  BY CallsAfterStep DEF Inv
<1>3. Writing \subseteq Tasks /\ Relocating \subseteq Tasks
  BY DEF Writing, Relocating
<1>4. WritesAreCurrent'
  BY <1>1, <1>2, <1>3 DEF WritesAreCurrent
<1>5. Vacated'
  BY <1>1, <1>2, <1>3 DEF Vacated
<1>6. ASSUME Apart' PROVE OpenIsSaved'
  <2>1. CASE Relocating' = Relocating
    BY <1>1, <1>2, <1>3, <2>1 DEF OpenIsSaved, SavedUnder
  <2>2. CASE Relocating' = Relocating \cup {t} /\ Relocating = {}
    BY <1>1, <1>2, <1>3, <2>2 DEF OpenIsSaved, SavedUnder
  <2>3. QED
    BY <1>2, <1>6, <2>1, <2>2 DEF Apart
<1>7. QED
  BY <1>4, <1>5, <1>6

\* What is left of a call after its save relocates nothing yet.
LEMMA Continues ==
  ASSUME BufferTyped, NEW t \in Tasks, NEW call \in CallRecord,
         call.kind \in {"open", "title"} => call.goal \in Paths, AfterSave(t, call)
  PROVE  \E c \in Calls : Suspend(t, c) /\ c.at \in {"reading", "renaming", "idle"}
<1>1. CASE call.kind = "open" /\ Suspend(t, [call EXCEPT !.at = "reading"])
  BY <1>1 DEF Calls, CallRecord, Equipped, Points
<1>2. CASE /\ call.kind = "title" /\ openPath # NoPath
           /\ Suspend(t, [call EXCEPT !.at = "renaming", !.path = openPath])
  <2>1. /\ [call EXCEPT !.at = "renaming", !.path = openPath] \in Calls
        /\ [call EXCEPT !.at = "renaming", !.path = openPath].at = "renaming"
    BY <1>2 DEF Calls, CallRecord, Equipped, Points, BufferTyped
  <2>2. QED
    BY <1>2, <2>1
<1>3. CASE Finish(t)
  <2>1. Free \in Calls /\ Free.at = "idle"
    BY DEF Free, Calls, CallRecord, Equipped, Points, Buffers, Blank
  <2>2. QED
    BY <1>3, <2>1 DEF Finish
<1>4. QED
  BY <1>1, <1>2, <1>3 DEF AfterSave

LEMMA SaveClean ==
  ASSUME Inv, CleanInv, Races, UNCHANGED <<disk, buffer, openPath, dirty>>,
         NEW t \in Tasks, IsFree(t), NEW call \in CallRecord, call.at = "writing",
         call.kind \in {"open", "title"} => call.goal \in Paths, SaveNow(t, call)
  PROVE  CleanInv'
<1>1. t \notin Relocating
  BY DEF IsFree, Relocating
<1>2. CASE /\ openPath # NoPath /\ dirty
           /\ Suspend(t, [call EXCEPT !.at = "writing", !.path = openPath, !.text = buffer])
  <2> DEFINE save == [call EXCEPT !.at = "writing", !.path = openPath, !.text = buffer]
  <2>1. /\ save \in CallRecord /\ save.at = "writing" /\ save.path = openPath
        /\ save.text = buffer
        /\ save.kind \in {"open", "title"} => save.goal \in Paths
    BY <1>2 DEF Inv, BufferTyped, CallRecord, Points, Buffers
  <2>2. save \in Calls
    BY <1>2, <2>1 DEF Inv, BufferTyped, Calls, Equipped
  <2>3. QED
    BY <1>1, <1>2, <2>1, <2>2, CallOnly
<1>3. CASE AfterSave(t, call)
  <2>1. PICK c \in Calls : Suspend(t, c) /\ c.at \in {"reading", "renaming", "idle"}
    BY <1>3, Continues DEF Inv
  <2>2. QED
    BY <1>1, <2>1, CallOnly
<1>4. QED
  BY <1>2, <1>3 DEF SaveNow

LEMMA NoCallClean ==
  ASSUME Inv, CleanInv, Races, UNCHANGED <<disk, task, openPath>>,
         UNCHANGED <<buffer, dirty>> \/ dirty'
  PROVE  CleanInv'
<1> SUFFICES ASSUME ~raced' PROVE WritesAreCurrent' /\ (Apart' => Vacated' /\ OpenIsSaved')
  BY DEF CleanInv
<1>1. /\ Apart /\ WritesAreCurrent /\ Vacated /\ OpenIsSaved
      /\ Writing # {} => UNCHANGED <<buffer, openPath>>
  BY NotRaced
<1>2. Writing' = Writing /\ Relocating' = Relocating
  BY DEF Writing, Relocating, At
<1>3. WritesAreCurrent' /\ Vacated'
  BY <1>1, <1>2 DEF WritesAreCurrent, Vacated
<1>4. OpenIsSaved'
  BY <1>1, <1>2 DEF OpenIsSaved, SavedUnder
<1>5. QED
  BY <1>3, <1>4

LEMMA UserClean ==
  ASSUME Inv, CleanInv, Races, User PROVE CleanInv'
<1>1. ASSUME NEW title \in Paths, Edit(title) PROVE CleanInv'
  BY <1>1, NoCallClean DEF Edit
<1>2. ASSUME NEW t \in Tasks, NEW p \in Paths, Open(t, p) PROVE CleanInv'
  <2>1. /\ Call("open", "writing") \in CallRecord
        /\ Call("open", "writing").at = "writing" /\ Call("open", "writing").kind = "open"
    BY NewCall DEF AllOps, Points
  <2> DEFINE call == [Call("open", "writing") EXCEPT !.goal = p]
  <2>2. call \in CallRecord /\ call.at = "writing" /\ call.goal \in Paths
    BY <2>1 DEF CallRecord
  <2>3. QED
    BY <1>2, <2>2, SaveClean DEF Open
<1>3. ASSUME NEW t \in Tasks,
             \/ Summarise(t)
             \/ \E p \in Paths : Delete(t, p) \/ \E q \in Paths : Rename(t, p, q)
      PROVE  CleanInv'
  <2>1. PICK call \in Calls : /\ Suspend(t, call)
                              /\ call.at \in {"waiting", "deleting", "renaming"}
    BY <1>3, Asks DEF Inv
  <2>2. /\ t \notin Relocating /\ UNCHANGED <<disk, buffer, openPath>> /\ dirty' = dirty
    BY <1>3 DEF Summarise, Delete, Rename, IsFree, Relocating, editor
  <2>3. QED
    BY <2>1, <2>2, CallOnly
<1>4. QED
  BY <1>1, <1>2, <1>3 DEF User

LEMMA TimersClean ==
  ASSUME Inv, CleanInv, Races, NEW t \in Tasks, Timers(t) PROVE CleanInv'
<1>1. CASE Autosave(t)
  <2>1. /\ Call("autosave", "writing") \in CallRecord
        /\ Call("autosave", "writing").at = "writing"
        /\ Call("autosave", "writing").kind = "autosave"
    BY NewCall DEF Points
  <2>2. QED
    BY <1>1, <2>1, SaveClean DEF Autosave
<1>2. CASE TitleSync(t)
  <2>1. CASE UNCHANGED task
    BY <1>2, <2>1, NoCallClean DEF TitleSync
  <2>2. CASE /\ openPath # NoPath /\ IsFree(t)
             /\ SaveNow(t, [Call("title", "writing") EXCEPT !.goal = buffer.title,
                                                           !.text = buffer])
    <3> DEFINE call == [Call("title", "writing") EXCEPT !.goal = buffer.title,
                                                       !.text = buffer]
    <3>1. /\ Call("title", "writing") \in CallRecord
          /\ Call("title", "writing").at = "writing"
      BY NewCall DEF AllOps, Points
    <3>2. buffer \in Text /\ buffer.title \in Paths
      BY <2>2 DEF Inv, BufferTyped, Text
    <3>3. call \in CallRecord /\ call.at = "writing" /\ call.goal \in Paths
      BY <3>1, <3>2 DEF CallRecord, Buffers
    <3>4. QED
      BY <1>2, <2>2, <3>3, SaveClean DEF TitleSync
  <2>3. QED
    BY <1>2, <2>1, <2>2 DEF TitleSync
<1>3. QED
  BY <1>1, <1>2 DEF Timers

LEMMA FreeIsIdle == Free \in Calls /\ Free.at = "idle"
BY DEF Free, Calls, CallRecord, Equipped, Points, Buffers, Blank

LEMMA WriteDoneClean ==
  ASSUME Inv, CleanInv, Races, NEW t \in Tasks, WriteDone(t) PROVE CleanInv'
<1> SUFFICES ASSUME ~raced' PROVE WritesAreCurrent' /\ (Apart' => Vacated' /\ OpenIsSaved')
  BY DEF CleanInv
<1>1. /\ task[t] \in CallRecord /\ task[t].path \in Paths
      /\ task[t].kind \in {"open", "title"} => task[t].goal \in Paths
  BY CallHolds DEF Inv, Equipped, WriteDone, At
<1>2. PICK c \in Calls : Suspend(t, c) /\ c.at \in {"reading", "renaming", "idle"}
  BY <1>1, Continues DEF WriteDone, Inv
<1>3. t \in Writing /\ Relocating = {} /\ WritesAreCurrent
  BY NotRaced DEF WriteDone, Writing, Apart
<1>4. /\ task'[t] = c /\ \A u \in Tasks \ {t} : task'[u] = task[u]
      /\ Writing' = Writing \ {t} /\ Relocating' \subseteq {t}
  BY <1>2, <1>3, CallsAfterStep DEF Inv
<1>5. /\ UNCHANGED <<openPath, buffer>>
      /\ disk' = [disk EXCEPT ![openPath] = buffer]
  BY <1>3 DEF WriteDone, WritesAreCurrent
<1>6. WritesAreCurrent' /\ Vacated'
  BY <1>2, <1>3, <1>4, <1>5 DEF WritesAreCurrent, Vacated, Writing
<1>7. OpenIsSaved'
  <2>1. openPath # NoPath => disk'[openPath] = buffer
    BY <1>5 DEF Inv, DiskTyped, BufferTyped
  <2>2. QED
    BY <1>2, <1>4, <1>5, <2>1 DEF OpenIsSaved, SavedUnder
<1>8. QED
  BY <1>6, <1>7

LEMMA FailureClean ==
  ASSUME Inv, CleanInv, Races, NEW t \in Tasks, WriteThrows(t) PROVE CleanInv'
<1>1. /\ task[t] \in CallRecord
      /\ task[t].kind \in {"open", "title"} => task[t].goal \in Paths
  BY CallHolds DEF Inv, Equipped, WriteThrows, At
<1>2. PICK c \in Calls : Suspend(t, c) /\ c.at \in {"reading", "renaming", "idle"}
  BY <1>1, Continues DEF WriteThrows, Inv
<1>3. t \notin Relocating
  BY DEF WriteThrows, Relocating, At
<1>4. QED
  BY <1>2, <1>3, CallOnly DEF WriteThrows

LEMMA ReadDoneClean ==
  ASSUME Inv, CleanInv, Races, NEW t \in Tasks, ReadDone(t) PROVE CleanInv'
<1>1. t \notin Relocating /\ t \notin Writing /\ Suspend(t, Free)
  BY DEF ReadDone, Relocating, Writing, At, Finish
<1>2. CASE UNCHANGED <<openPath, buffer, dirty>>
  BY <1>1, <1>2, FreeIsIdle, CallOnly DEF ReadDone
<1>3. CASE LET p == task[t].goal IN
             disk[p] # NoFile /\ openPath' = p /\ buffer' = disk[p] /\ dirty' = FALSE
  <2> SUFFICES ASSUME ~raced' PROVE WritesAreCurrent' /\ (Apart' => Vacated' /\ OpenIsSaved')
    BY DEF CleanInv
  <2>1. /\ Writing' = Writing /\ Relocating' = Relocating
        /\ \A u \in Tasks \ {t} : task'[u] = task[u]
    BY <1>1, FreeIsIdle, CallsAfterStep DEF Inv
  <2>2. disk'[openPath'] = buffer' /\ disk' = disk /\ disk[openPath'] # NoFile
    BY <1>3 DEF ReadDone
  <2>3. CASE raced
    <3>1. Writing = {} /\ Relocating = {}
      BY <2>3, NotRaced
    <3>2. QED
      BY <2>1, <2>2, <3>1 DEF WritesAreCurrent, Vacated, OpenIsSaved
  <2>4. CASE ~raced
    <3>1. /\ WritesAreCurrent /\ Vacated
          /\ Writing # {} => UNCHANGED <<buffer, openPath>>
      BY <2>4, NotRaced
    <3>2. WritesAreCurrent' /\ Vacated'
      BY <1>1, <2>1, <2>2, <3>1 DEF WritesAreCurrent, Vacated, Writing, Relocating
    <3>3. ASSUME NEW u \in Relocating PROVE SavedUnder(u)'
      <4>1. u \in Tasks \ {t} /\ task'[u] = task[u]
        BY <1>1, <2>1 DEF Relocating
      <4>2. task[u].at = "moved" => openPath' # task[u].path
        BY <2>2, <3>1 DEF Vacated
      <4>3. QED
        BY <2>2, <4>1, <4>2 DEF SavedUnder
    <3>4. QED
      BY <2>1, <2>2, <3>2, <3>3 DEF OpenIsSaved
  <2>5. QED
    BY <2>3, <2>4
<1>4. QED
  BY <1>2, <1>3 DEF ReadDone

\* The disk's half of a rename or a deletion.
LEMMA RelocationClean ==
  ASSUME Inv, CleanInv, Races, NEW t \in Tasks, RenameDone(t) \/ DeleteDone(t) PROVE CleanInv'
<1> SUFFICES ASSUME ~raced' PROVE WritesAreCurrent' /\ (Apart' => Vacated' /\ OpenIsSaved')
  BY DEF CleanInv
<1>1. /\ task[t] \in CallRecord /\ task[t].path \in Paths
      /\ At(t, "renaming") => task[t].goal \in Paths
  BY CallHolds DEF Inv, Equipped, RenameDone, DeleteDone, At
<1>2. /\ t \in Relocating /\ Relocating = {t} /\ Writing = {} /\ Vacated /\ OpenIsSaved
  <2>1. t \in Relocating
    BY DEF RenameDone, DeleteDone, Relocating, At
  <2>2. QED
    BY <2>1, NotRaced DEF Apart
<1>3. UNCHANGED <<openPath, buffer, dirty>>
  BY DEF RenameDone, DeleteDone, editor
<1>4. ~dirty /\ openPath # NoPath => disk[openPath] = buffer /\ openPath \in Paths
                                     /\ buffer \in Text
  BY <1>2 DEF RenameDone, DeleteDone, At, OpenIsSaved, SavedUnder, Inv, BufferTyped
<1>5. DOMAIN disk = Paths
  BY DEF Inv, DiskTyped
<1>6. CASE RenameDone(t) /\ Finish(t) /\ UNCHANGED disk
  <2>1. Writing' = {} /\ Relocating' = {}
    BY <1>2, <1>6, FreeIsIdle, CallsAfterStep DEF Finish, Inv
  <2>2. QED
    BY <1>3, <1>4, <1>6, <2>1 DEF WritesAreCurrent, Vacated, OpenIsSaved
<1>7. CASE /\ RenameDone(t) /\ Suspend(t, [task[t] EXCEPT !.at = "moved"])
           /\ task[t].path # task[t].goal /\ disk[task[t].goal] = NoFile
           /\ disk' = [disk EXCEPT ![task[t].goal] = disk[task[t].path],
                                   ![task[t].path] = NoFile]
  <2> DEFINE p == task[t].path
             q == task[t].goal
  <2>1. /\ [task[t] EXCEPT !.at = "moved"] \in CallRecord
        /\ [task[t] EXCEPT !.at = "moved"].at = "moved"
        /\ [task[t] EXCEPT !.at = "moved"].path = p
        /\ [task[t] EXCEPT !.at = "moved"].goal = q
    BY <1>1, CallGoesOn DEF Points
  <2>2. [task[t] EXCEPT !.at = "moved"] \in Calls /\ q \in Paths
    BY <1>1, <1>7, <2>1 DEF RenameDone, Calls, Equipped
  <2>3. /\ task'[t].at = "moved" /\ task'[t].path = p /\ task'[t].goal = q
        /\ Writing' = {} /\ Relocating' = {t}
    BY <1>2, <1>7, <2>1, <2>2, CallsAfterStep DEF Inv
  <2>4. /\ disk'[p] = NoFile /\ disk'[q] = disk[p]
        /\ \A r \in Paths \ {p, q} : disk'[r] = disk[r]
    BY <1>1, <1>5, <1>7, <2>2
  <2>5. ~dirty' /\ openPath' # NoPath =>
          disk'[IF openPath' = p THEN q ELSE openPath'] = buffer'
    BY <1>3, <1>4, <1>7, <2>4, NoFileAssumption
  <2>6. QED
    BY <2>3, <2>4, <2>5 DEF WritesAreCurrent, Vacated, OpenIsSaved, SavedUnder
<1>8. CASE /\ DeleteDone(t) /\ Suspend(t, [task[t] EXCEPT !.at = "deleted"])
           /\ disk' = [disk EXCEPT ![task[t].path] = NoFile]
  <2> DEFINE p == task[t].path
  <2>1. /\ [task[t] EXCEPT !.at = "deleted"] \in CallRecord
        /\ [task[t] EXCEPT !.at = "deleted"].at = "deleted"
        /\ [task[t] EXCEPT !.at = "deleted"].path = p
    BY <1>1, CallGoesOn DEF Points
  <2>2. [task[t] EXCEPT !.at = "deleted"] \in Calls
    BY <1>1, <2>1 DEF Calls, Equipped
  <2>3. /\ task'[t].at = "deleted" /\ task'[t].path = p
        /\ Writing' = {} /\ Relocating' = {t}
    BY <1>2, <1>8, <2>1, <2>2, CallsAfterStep DEF Inv
  <2>4. disk'[p] = NoFile /\ \A r \in Paths \ {p} : disk'[r] = disk[r]
    BY <1>1, <1>5, <1>8
  <2>5. QED
    BY <1>3, <1>4, <2>3, <2>4 DEF WritesAreCurrent, Vacated, OpenIsSaved, SavedUnder
<1>9. QED
  BY <1>6, <1>7, <1>8 DEF RenameDone, DeleteDone

\* The editor's half.
LEMMA RebindingClean ==
  ASSUME Inv, CleanInv, Races, NEW t \in Tasks, PathMoved(t) \/ PathDeleted(t) PROVE CleanInv'
<1> SUFFICES ASSUME ~raced' PROVE WritesAreCurrent' /\ (Apart' => Vacated' /\ OpenIsSaved')
  BY DEF CleanInv
<1>1. Relocating = {t} /\ Writing = {} /\ OpenIsSaved
  <2>1. t \in Relocating
    BY DEF PathMoved, PathDeleted, Relocating, At
  <2>2. QED
    BY <2>1, NotRaced DEF Apart
<1>2. Writing' = {} /\ Relocating' = {}
  BY <1>1, FreeIsIdle, CallsAfterStep DEF PathMoved, PathDeleted, Finish, Inv
<1>3. ~dirty' /\ openPath' # NoPath => disk'[openPath'] = buffer'
  <2> SUFFICES ASSUME ~dirty', openPath' # NoPath PROVE disk'[openPath'] = buffer'
    OBVIOUS
  <2>1. ~dirty /\ openPath # NoPath => SavedUnder(t)
    BY <1>1 DEF OpenIsSaved
  <2>2. CASE PathMoved(t)
    <3>1. /\ task[t].at = "moved" /\ UNCHANGED <<disk, buffer, dirty>>
          /\ openPath' = IF openPath = task[t].path THEN task[t].goal ELSE openPath
      BY <2>2 DEF PathMoved, At
    <3>2. openPath # NoPath
      <4>1. task[t].path # NoPath
        BY <3>1, CallHolds, ConstantsAssumption DEF Inv, Equipped
      <4>2. QED
        BY <3>1, <4>1
    <3>3. QED
      BY <2>1, <3>1, <3>2 DEF SavedUnder
  <2>3. CASE PathDeleted(t)
    <3>1. /\ task[t].at = "deleted" /\ openPath # task[t].path
          /\ UNCHANGED <<disk, buffer, dirty, openPath>>
      BY <2>3 DEF PathDeleted, At
    <3>2. QED
      BY <2>1, <3>1 DEF SavedUnder
  <2>4. QED
    BY <2>2, <2>3
<1>4. QED
  BY <1>2, <1>3 DEF WritesAreCurrent, Vacated, OpenIsSaved

LEMMA SummaryClean ==
  ASSUME Inv, CleanInv, Races, NEW t \in Tasks, SetContent(t) \/ SummaryEnds(t) PROVE CleanInv'
<1>1. t \notin Relocating /\ t \notin Writing
  BY DEF SetContent, SummaryEnds, Relocating, Writing, At
<1>2. CASE SummaryEnds(t)
  BY <1>1, <1>2, FreeIsIdle, CallOnly DEF SummaryEnds, Finish, editor
<1>3. CASE SetContent(t)
  <2> SUFFICES ASSUME ~raced' PROVE WritesAreCurrent' /\ (Apart' => Vacated' /\ OpenIsSaved')
    BY DEF CleanInv
  <2> DEFINE save == [task[t] EXCEPT !.at = "writing", !.path = openPath, !.text = buffer']
  <2>1. /\ task[t] \in CallRecord /\ task[t].text \in Text /\ task[t].kind = "summary"
    BY <1>3, CallHolds DEF Inv, Equipped, SetContent, At
  <2>2. buffer' \in Text
    <3>1. edits' \in 0 .. MaxEdits
      BY <1>3, ConstantsAssumption DEF SetContent, Inv, FlagsTyped
    <3>2. QED
      BY <1>3, <2>1, <3>1 DEF SetContent, Text
  <2>3. /\ save \in CallRecord /\ save.at = "writing" /\ save.path = openPath
        /\ save.text = buffer' /\ save.kind = "summary" /\ openPath \in Paths
    BY <1>3, <2>1, <2>2 DEF SetContent, Inv, BufferTyped, CallRecord, Points, Buffers
  <2>4. save \in Calls
    BY <2>2, <2>3 DEF Calls, Equipped
  <2>5. /\ task'[t] = save /\ \A u \in Tasks \ {t} : task'[u] = task[u]
        /\ Writing' = Writing \cup {t} /\ Relocating' = Relocating \ {t}
    BY <1>3, <2>3, <2>4, CallsAfterStep DEF SetContent, Inv
  <2>6. UNCHANGED <<disk, openPath>> /\ dirty'
    BY <1>3 DEF SetContent
  <2>7. /\ WritesAreCurrent /\ Vacated /\ (Writing # {} => UNCHANGED <<buffer, openPath>>)
    BY <2>6, NotRaced
  <2>8. WritesAreCurrent' /\ Vacated'
    BY <1>1, <2>3, <2>5, <2>6, <2>7 DEF WritesAreCurrent, Vacated, Writing, Relocating
  <2>9. QED
    BY <2>6, <2>8 DEF OpenIsSaved
<1>4. QED
  BY <1>2, <1>3

LEMMA CleanInitial == Init => CleanInv
<1> SUFFICES ASSUME Init PROVE CleanInv
  OBVIOUS
<1>1. Writing = {} /\ Relocating = {}
  BY FreeIsIdle DEF Init, Writing, Relocating, At
<1>2. QED
  BY <1>1 DEF Init, CleanInv, WritesAreCurrent, Vacated, OpenIsSaved

LEMMA CleanKeeps == Inv /\ CleanInv /\ [Next]_vars => CleanInv'
<1> SUFFICES ASSUME Inv, CleanInv, [Next]_vars PROVE CleanInv'
  OBVIOUS
<1>1. CASE UNCHANGED vars
  BY <1>1 DEF vars, editor, CleanInv, WritesAreCurrent, Apart, Vacated, OpenIsSaved, SavedUnder,
              Writing, Relocating, At
<1>2. CASE User /\ Races
  BY <1>2, UserClean
<1>3. ASSUME NEW t \in Tasks, Resume(t), Races PROVE CleanInv'
  BY <1>3, WriteDoneClean, FailureClean, ReadDoneClean, RelocationClean, RebindingClean,
     SummaryClean DEF Resume
<1>4. ASSUME NEW t \in Tasks, Timers(t), Races PROVE CleanInv'
  BY <1>4, TimersClean
<1>5. QED
  BY <1>1, <1>2, <1>3, <1>4 DEF Next

\* editor_state, _dirty: when nothing is under way, a note that is clean is on disk as
\* the editor shows it, unless a write overlapped with an edit, a switch or a move.
THEOREM CleanIsSaved == Spec => []CleanMeansSaved
<1>1. Inv /\ CleanInv => CleanMeansSaved
  <2> SUFFICES ASSUME CleanInv, Quiet, openPath # NoPath, ~dirty, ~raced
               PROVE  disk[openPath] = buffer
    BY DEF CleanMeansSaved
  <2>1. Writing = {} /\ Relocating = {}
    BY DEF Quiet, Writing, Relocating, At
  <2>2. QED
    BY <2>1 DEF CleanInv, Apart, OpenIsSaved
<1>2. Init => Inv /\ CleanInv
  BY Initial, CleanInitial
<1>3. Inv /\ CleanInv /\ [Next]_vars => (Inv /\ CleanInv)'
  BY Keeps, CleanKeeps
<1>4. QED
  BY <1>1, <1>2, <1>3, PTL DEF Spec

------------------------------------------------------------------------------
(* No note is overwritten with another one's text *)

\* Notes are opened, typed in, saved and deleted, and neither renamed nor summarised.
InPlace == Ops \subseteq {"open", "delete"}

\* A write that is under way holds the text of the note it goes to.
CallHomed(call) ==
  /\ call.at = "writing" => call.text.note = call.path
  /\ call.at \notin {"renaming", "moved", "waiting"}
  /\ call.kind # "title"

TasksHomed == \A t \in Tasks : CallHomed(task[t])

\* Every file, and the editor, holds the text of its own note.
DiskHomed == \A p \in Paths : disk[p] # NoFile => disk[p].note = p
BufferHomed == openPath # NoPath => buffer.note = openPath

Homed == TasksHomed /\ DiskHomed /\ BufferHomed

LEMMA HomedInitial == Init => Homed
<1> SUFFICES ASSUME Init PROVE Homed
  OBVIOUS
<1>1. TasksHomed
  BY DEF Init, TasksHomed, CallHomed, Free
<1>2. DiskHomed /\ BufferHomed
  BY DEF Init, DiskHomed, BufferHomed
<1>3. QED
  BY <1>1, <1>2 DEF Homed

LEMMA SuspendHomed ==
  ASSUME TasksTyped, TasksHomed, NEW t \in Tasks, NEW call, CallHomed(call), Suspend(t, call)
  PROVE  TasksHomed'
<1>1. SUFFICES ASSUME NEW u \in Tasks PROVE CallHomed(task'[u])
  BY DEF TasksHomed
<1>2. task'[u] = IF u = t THEN call ELSE task[u]
  BY DEF Suspend, TasksTyped
<1>3. QED
  BY <1>2 DEF TasksHomed

LEMMA FinishHomed ==
  ASSUME TasksTyped, TasksHomed, NEW t \in Tasks, Finish(t)
  PROVE  TasksHomed'
<1>1. CallHomed(Free)
  BY DEF CallHomed, Free
<1>2. QED
  BY <1>1, SuspendHomed DEF Finish

LEMMA AfterSaveHomed ==
  ASSUME TasksTyped, TasksHomed, NEW t \in Tasks, NEW call \in CallRecord,
         call.kind # "title", AfterSave(t, call)
  PROVE  TasksHomed'
<1>1. CASE Suspend(t, [call EXCEPT !.at = "reading"])
  <2>1. CallHomed([call EXCEPT !.at = "reading"])
    BY DEF CallHomed, CallRecord
  <2>2. QED
    BY <1>1, <2>1, SuspendHomed
<1>2. CASE Finish(t)
  BY <1>2, FinishHomed
<1>3. QED
  BY <1>1, <1>2 DEF AfterSave

LEMMA SaveHomed ==
  ASSUME Inv, Homed, NEW t \in Tasks, NEW call \in CallRecord,
         call.kind # "title", call.at = "writing", SaveNow(t, call)
  PROVE  TasksHomed'
<1>1. TasksTyped /\ TasksHomed
  BY DEF Inv, Homed
<1>2. CASE /\ openPath # NoPath
           /\ Suspend(t, [call EXCEPT !.at = "writing", !.path = openPath, !.text = buffer])
  <2> DEFINE save == [call EXCEPT !.at = "writing", !.path = openPath, !.text = buffer]
  <2>1. /\ save.at = "writing" /\ save.kind # "title"
        /\ save.text = buffer /\ save.path = openPath
    BY DEF CallRecord
  <2> HIDE DEF save
  <2>2. CallHomed(save)
    BY <1>2, <2>1 DEF CallHomed, Homed, BufferHomed
  <2>3. QED
    BY <1>1, <1>2, <2>2, SuspendHomed DEF save
<1>3. CASE AfterSave(t, call)
  BY <1>1, <1>3, AfterSaveHomed
<1>4. QED
  BY <1>2, <1>3 DEF SaveNow

LEMMA UserHomed == ASSUME InPlace, Inv, Homed, User PROVE Homed'
<1>1. TasksTyped /\ TasksHomed
  BY DEF Inv, Homed
<1>2. ASSUME NEW title \in Paths, Edit(title) PROVE Homed'
  <2>1. openPath' = openPath /\ openPath # NoPath /\ UNCHANGED <<disk, task>>
    BY <1>2 DEF Edit
  <2>2. buffer \in Text
    BY <2>1 DEF Inv, BufferTyped
  <2>3. buffer'.note = buffer.note
    BY <1>2, <2>2 DEF Edit, Text
  <2>4. QED
    BY <2>1, <2>3 DEF Homed, TasksHomed, DiskHomed, BufferHomed
<1>3. ASSUME NEW t \in Tasks, NEW p \in Paths, Open(t, p) PROVE Homed'
  <2> DEFINE call == [Call("open", "writing") EXCEPT !.goal = p]
  <2>1. call \in CallRecord /\ call.kind = "open" /\ call.at = "writing"
    <3>1. /\ Call("open", "writing") \in CallRecord
          /\ Call("open", "writing").at = "writing" /\ Call("open", "writing").kind = "open"
      BY NewCall DEF AllOps, Points
    <3>2. QED
      BY <3>1 DEF CallRecord
  <2>2. SaveNow(t, call) /\ UNCHANGED <<disk, openPath, buffer>>
    BY <1>3 DEF Open
  <2> HIDE DEF call
  <2>3. TasksHomed'
    BY <2>1, <2>2, SaveHomed
  <2>4. QED
    BY <2>2, <2>3 DEF Homed, DiskHomed, BufferHomed
<1>4. ASSUME NEW t \in Tasks, NEW p \in Paths, Delete(t, p) PROVE Homed'
  <2> DEFINE call == [Call("delete", "deleting") EXCEPT !.path = p]
  <2>1. CallHomed(call)
    BY DEF CallHomed, Call, Free
  <2>2. Suspend(t, call) /\ UNCHANGED <<disk, openPath, buffer>>
    BY <1>4 DEF Delete, editor
  <2>3. TasksHomed'
    BY <1>1, <2>1, <2>2, SuspendHomed
  <2>4. QED
    BY <2>2, <2>3 DEF Homed, DiskHomed, BufferHomed
<1>5. ASSUME NEW t \in Tasks, Summarise(t) \/ \E p, q \in Paths : Rename(t, p, q)
      PROVE  FALSE
  BY <1>5 DEF Summarise, Rename, InPlace
<1>6. QED
  BY <1>2, <1>3, <1>4, <1>5 DEF User

LEMMA TimersHomed == ASSUME InPlace, Inv, Homed, NEW t \in Tasks, Timers(t) PROVE Homed'
<1>1. CASE Autosave(t)
  <2>1. /\ Call("autosave", "writing") \in CallRecord
        /\ Call("autosave", "writing").at = "writing"
        /\ Call("autosave", "writing").kind = "autosave"
    BY NewCall DEF AllOps, Points
  <2>2. SaveNow(t, Call("autosave", "writing")) /\ UNCHANGED <<disk, openPath, buffer>>
    BY <1>1 DEF Autosave
  <2>3. TasksHomed'
    BY <2>1, <2>2, SaveHomed
  <2>4. QED
    BY <2>2, <2>3 DEF Homed, DiskHomed, BufferHomed
<1>2. CASE TitleSync(t)
  <2>1. UNCHANGED <<disk, openPath, buffer, task>>
    BY <1>2 DEF TitleSync, InPlace
  <2>2. QED
    BY <2>1 DEF Homed, TasksHomed, DiskHomed, BufferHomed
<1>3. QED
  BY <1>1, <1>2 DEF Timers

LEMMA ResumeHomed == ASSUME Inv, Homed, NEW t \in Tasks, Resume(t) PROVE Homed'
<1> DEFINE call == task[t]
<1>1. /\ TasksTyped /\ TasksHomed /\ DiskTyped /\ CallHomed(call)
      /\ call \in CallRecord /\ Equipped(call)
  BY DEF Inv, Homed, TasksHomed, TasksTyped, Calls
<1>2. CASE WriteDone(t)
  <2>1. call.path \in Paths /\ call.text.note = call.path
    BY <1>1, <1>2 DEF WriteDone, At, Equipped, CallHomed
  <2>2. TasksHomed'
    BY <1>1, <1>2, AfterSaveHomed DEF WriteDone, CallHomed
  <2>3. disk' = [disk EXCEPT ![call.path] = call.text] /\ UNCHANGED <<openPath, buffer>>
    BY <1>2 DEF WriteDone
  <2>4. DiskHomed'
    BY <1>1, <2>1, <2>3 DEF Homed, DiskHomed, DiskTyped
  <2>5. QED
    BY <2>2, <2>3, <2>4 DEF Homed, BufferHomed
<1>3. CASE WriteThrows(t)
  <2>1. TasksHomed'
    BY <1>1, <1>3, AfterSaveHomed DEF WriteThrows, CallHomed
  <2>2. QED
    BY <1>3, <2>1 DEF WriteThrows, Homed, DiskHomed, BufferHomed
<1>4. CASE ReadDone(t)
  <2>1. TasksHomed'
    BY <1>1, <1>4, FinishHomed DEF ReadDone
  <2>2. call.goal \in Paths
    BY <1>1, <1>4 DEF ReadDone, At, Equipped
  <2>3. BufferHomed'
    BY <1>4, <2>2 DEF ReadDone, Homed, DiskHomed, BufferHomed
  <2>4. QED
    BY <1>4, <2>1, <2>3 DEF ReadDone, Homed, DiskHomed
<1>5. CASE RenameDone(t) \/ PathMoved(t) \/ SetContent(t) \/ SummaryEnds(t)
  BY <1>1, <1>5 DEF RenameDone, PathMoved, SetContent, SummaryEnds, At, CallHomed
<1>6. CASE DeleteDone(t)
  <2>1. CallHomed([call EXCEPT !.at = "deleted"])
    BY <1>1 DEF CallHomed, CallRecord
  <2>2. TasksHomed'
    BY <1>1, <1>6, <2>1, SuspendHomed DEF DeleteDone
  <2>3. DiskHomed'
    BY <1>1, <1>6 DEF DeleteDone, Homed, DiskHomed, DiskTyped
  <2>4. QED
    BY <1>6, <2>2, <2>3 DEF DeleteDone, editor, Homed, BufferHomed
<1>7. CASE PathDeleted(t)
  <2>1. TasksHomed'
    BY <1>1, <1>7, FinishHomed DEF PathDeleted
  <2>2. QED
    BY <1>7, <2>1 DEF PathDeleted, Homed, DiskHomed, BufferHomed
<1>8. QED
  BY <1>2, <1>3, <1>4, <1>5, <1>6, <1>7 DEF Resume

\* editor_state, open and saveNow: whatever is flushed, lands late, fails or is deleted
\* in between, a file that holds a note is written with that note's text only; unless
\* files are renamed or summaries written.
THEOREM NeverMixed == ASSUME InPlace PROVE Spec => NotesNeverMix
<1>1. Inv /\ Homed /\ [Next]_vars => Homed'
  <2> SUFFICES ASSUME Inv, Homed, [Next]_vars PROVE Homed'
    OBVIOUS
  <2>1. CASE UNCHANGED vars
    BY <2>1 DEF vars, editor, Homed, TasksHomed, DiskHomed, BufferHomed
  <2>2. QED
    BY <2>1, UserHomed, TimersHomed, ResumeHomed DEF Next
<1>2. Homed /\ Homed' =>
        \A p \in Paths : disk[p] # NoFile /\ disk'[p] # NoFile =>
                           disk'[p].note = disk[p].note
  BY DEF Homed, DiskHomed
<1>3. Inv /\ [Next]_vars => Inv'
  BY Keeps
<1>4. QED
  BY <1>1, <1>2, <1>3, Initial, HomedInitial, PTL DEF Spec, NotesNeverMix

==============================================================================
