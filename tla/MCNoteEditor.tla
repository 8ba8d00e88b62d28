---------------------------- MODULE MCNoteEditor ----------------------------
(* Small instances of NoteEditor for TLC. *)
EXTENDS NoteEditor, TLC

\* Suspended calls are interchangeable.
MCSymmetry == Permutations(Tasks)
=============================================================================
