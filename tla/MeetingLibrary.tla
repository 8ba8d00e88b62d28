--------------------------- MODULE MeetingLibrary ---------------------------
(***************************************************************************)
(* What the engine promises about captured meetings, seen from outside:    *)
(* no jobs, no stages, no crashes, no job queue.  A meeting gains a source *)
(* transcript at most once and keeps it for ever; its minutes exist only   *)
(* on top of a source and are never taken away; its processing status can  *)
(* be announced as ready only when the minutes are there, and as           *)
(* processing only when the source is safe.                                *)
(*                                                                         *)
(* Pipeline.tla implements this specification.                             *)
(***************************************************************************)

CONSTANTS
  Meetings,     \* meeting identifiers
  Transcripts,  \* possible raw transcripts
  NoText        \* no transcript stored yet: not one of Transcripts

VARIABLES
  source,   \* meeting -> its stored raw transcript, or NoText
  minutes,  \* meeting -> whether both the Meeting IR and the MOM can be read
  state     \* meeting -> persisted ProcessingState, or "none"

vars == <<source, minutes, state>>

\* ProcessingState, and "none" for a meeting without a processing_status
\* artifact.
ProcessingState == {"none", "processing", "ready", "deferred", "failed"}

Init ==
  /\ source  = [m \in Meetings |-> NoText]
  /\ minutes = [m \in Meetings |-> FALSE]
  /\ state   = [m \in Meetings |-> "none"]

\* The raw transcript becomes durable, once.
Capture(m, t) ==
  /\ source[m] = NoText
  /\ source' = [source EXCEPT ![m] = t]
  /\ UNCHANGED <<minutes, state>>

\* Enrichment of a captured meeting has been stored for the first time.
Publish(m) ==
  /\ source[m] # NoText
  /\ minutes' = [minutes EXCEPT ![m] = TRUE]
  /\ UNCHANGED <<source, state>>

\* The durable status of a meeting is replaced.
Mark(m, s) ==
  /\ s = "processing" => source[m] # NoText
  /\ s = "ready"      => minutes[m]
  /\ state' = [state EXCEPT ![m] = s]
  /\ UNCHANGED <<source, minutes>>

Next ==
  \E m \in Meetings :
    \/ \E t \in Transcripts : Capture(m, t)
    \/ Publish(m)
    \/ \E s \in ProcessingState \ {"none"} : Mark(m, s)

Spec == Init /\ [][Next]_vars
=============================================================================
