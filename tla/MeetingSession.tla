---------------------------- MODULE MeetingSession ----------------------------
(* Recording a meeting: the listening session (listening_state.dart), the     *)
(* manager that detects meetings, asks the user and tracks them               *)
(* (meeting_session_manager.dart), the companion window it shows, and the     *)
(* microphone and the transcript stream behind the session.                   *)
(*                                                                            *)
(* Dart runs one callback at a time: an action is the code between two        *)
(* awaits, with the listeners it notifies.  A call is an asynchronous         *)
(* function suspended at an await of the platform, of the engine or of the    *)
(* cancellation of a subscription; what such an operation does takes effect   *)
(* when it is over, except that the window is shown and hidden in the order   *)
(* of the requests.  The recorder may throw where nothing catches it: when it  *)
(* is started, paused or resumed.  What was to follow the call is then never   *)
(* done; capture.lacks remembers what the session goes without since.  Errors *)
(* of the other platform services are caught where they arise, and cancelling *)
(* a subscription is taken to succeed.                                        *)
EXTENDS Integers, FiniteSets, Bags

CONSTANTS Meetings,       \* meeting keys
          MaxStarts,      \* bound: sessions the user starts and meetings tracked
          MaxCalls,       \* bound: calls suspended when the user or a detector acts
          MaxRaces,       \* bound: kinds of race, and faults of the recorder in this
                          \* session as one more, behind the user when he acts
          None

ASSUME NoneAssumption == None \notin Meetings

VARIABLES
  settings,   \* MeetingDetectionSettings, and whether they were loaded
  manager,    \* MeetingSessionManager, with the window and its timer
  listening,  \* ListeningController: its state, session and _summarising
  capture,    \* microphone, transcript stream, the subscriptions to it and,
              \* bookkeeping, what the session lacks since the recorder threw
  calls,      \* the calls that are suspended
  starts,     \* sessions and trackings begun
  races       \* bookkeeping: which calls have overtaken each other

vars == <<settings, manager, listening, capture, calls, starts, races>>

Capturing == {"listening", "paused"}

\* by: on whose behalf, "user" or "manager", which waits for it to go on.
Call(at, by) == [at |-> at, by |-> by]
Behind == Cardinality(races) + IF capture.lacks = {} THEN 0 ELSE 1
Busy == BagCardinality(calls) >= MaxCalls \/ Behind > MaxRaces

\* The suspended calls cs, and a new one.
Plus(cs, call) == cs (+) SetToBag({call})

Init ==
  /\ settings = [notify |-> TRUE, auto |-> FALSE, companion |-> TRUE, loaded |-> FALSE]
  /\ manager = [state |-> "notRunning", awaiting |-> None, active |-> None,
                seen |-> {}, dismissed |-> {}, overlay |-> FALSE, tick |-> FALSE]
  /\ listening = [state |-> "idle", session |-> 0, begun |-> 0, summarising |-> FALSE]
  /\ capture = [mic |-> "off", script |-> "off", paused |-> FALSE, sub |-> 0, live |-> {},
                lacks |-> {}]
  /\ calls = EmptyBag /\ starts = 0 /\ races = {}

------------------------------------------------------------------------------
(* The manager listens to the session *)

\* _onListeningChanged, on every notification of the controller: tracking without
\* a session is finalised; stop has nothing to do then, and the window is hidden.
Lost(l) == manager.state = "tracking" /\ l.state \notin Capturing
ManagerHears(l) ==
  IF Lost(l) THEN [manager EXCEPT !.state = "finalizing", !.tick = FALSE, !.overlay = FALSE]
  ELSE manager
CallsAfter(l, cs) == IF Lost(l) THEN Plus(cs, Call("hide", "manager")) ELSE cs

\* Mutant of Notify: the manager does not listen.
NotifyNobody(l, cs) == listening' = l /\ calls' = cs /\ UNCHANGED manager

\* The controller becomes l and notifies; the suspended calls become cs.
Notify(l, cs) ==
  /\ listening' = l
  /\ manager' = ManagerHears(l)
  /\ calls' = CallsAfter(l, cs)

------------------------------------------------------------------------------
(* The session *)

Begin == /\ ~Busy
         /\ starts < MaxStarts /\ starts' = starts + 1

\* start: a new session subscribes to the stream, then waits for the microphone.
StartListening(by, cs) ==
  LET id == listening.begun + 1
  IN  /\ listening.state = "idle"
      /\ Notify([listening EXCEPT !.state = "listening", !.session = id, !.begun = id],
                Plus(cs, Call("start", by)))
      /\ capture' = [capture EXCEPT !.sub = id, !.live = @ \cup {id}, !.lacks = {}]

Start == /\ Begin /\ StartListening("user", calls)
         /\ UNCHANGED settings

Pause == /\ ~Busy /\ listening.state = "listening"
         /\ Notify([listening EXCEPT !.state = "paused"], Plus(calls, Call("pause", "user")))
         /\ UNCHANGED <<settings, capture, starts>>

ResumeListening ==
  /\ ~Busy /\ listening.state = "paused"
  /\ Notify([listening EXCEPT !.state = "listening"], Plus(calls, Call("resume", "user")))
  /\ UNCHANGED <<settings, capture, starts>>

\* stop: the listeners hear of it before the stream is stopped.
Stop == /\ ~Busy /\ listening.state \in Capturing
        /\ LET l == [listening EXCEPT !.state = "reviewing"]
           IN  Notify(l, Plus(calls, Call("stop", "user")))
        /\ capture' = [capture EXCEPT !.script = "off"]
        /\ UNCHANGED <<settings, starts>>

\* The button of the review footer is disabled while isSummarising.  Without an
\* open note, one is created and opened first.
Summarise ==
  /\ ~Busy /\ listening.state = "reviewing" /\ ~listening.summarising
  /\ \/ Notify([listening EXCEPT !.summarising = TRUE],
               Plus(calls, Call("summarise", "user")))
     \/ calls' = Plus(calls, Call("note", "user")) /\ UNCHANGED <<manager, listening>>
  /\ UNCHANGED <<settings, capture, starts>>

\* _endSession
Ended(l) == [l EXCEPT !.state = "idle", !.session = 0]

\* Mutant of Close: the button is not disabled while isSummarising.
CloseAnyway == /\ ~Busy /\ listening.state = "reviewing"
               /\ Notify(Ended(listening), calls)
               /\ UNCHANGED <<settings, capture, starts>>

\* close, from the review footer.
Close == /\ ~Busy /\ listening.state = "reviewing" /\ ~listening.summarising
         /\ Notify(Ended(listening), calls)
         /\ UNCHANGED <<settings, capture, starts>>

------------------------------------------------------------------------------
(* Detection and tracking *)

\* _startTracking up to the cancellation of the prompt.
StartTracking(m, mgr) ==
  /\ Begin
  /\ manager' = [mgr EXCEPT !.awaiting = None, !.active = m, !.state = "tracking"]
  /\ calls' = Plus(calls, Call("cancel", "manager"))

\* Mutant of Detected: the state is not looked at.
DetectedAnyway(m) ==
  /\ ~Busy
  /\ m \notin manager.dismissed \cup manager.seen \cup {manager.active, manager.awaiting}
  /\ LET seen == [manager EXCEPT !.seen = @ \cup {m}]
     IN  \/ settings.auto /\ StartTracking(m, seen)
         \/ /\ ~settings.auto
            /\ manager' = IF ~settings.notify THEN seen
                          ELSE [seen EXCEPT !.awaiting = m, !.state = "awaitingDecision"]
            /\ UNCHANGED <<calls, starts>>
  /\ UNCHANGED <<settings, listening, capture>>

\* _onDetected, for a meeting that is new and while none is tracked.
Detected(m) ==
  /\ ~Busy
  /\ m \notin manager.dismissed \cup manager.seen \cup {manager.active, manager.awaiting}
  /\ manager.state # "tracking"
  /\ LET seen == [manager EXCEPT !.seen = @ \cup {m}]
     IN  \/ settings.auto /\ StartTracking(m, seen)
         \/ /\ ~settings.auto
            /\ manager' = IF ~settings.notify THEN seen
                          ELSE [seen EXCEPT !.awaiting = m, !.state = "awaitingDecision"]
            /\ UNCHANGED <<calls, starts>>
  /\ UNCHANGED <<settings, listening, capture>>

\* _onNotificationAction: an answer to any other prompt than the last one is
\* without effect.
Accept == /\ manager.awaiting # None
          /\ StartTracking(manager.awaiting, manager)
          /\ UNCHANGED <<settings, listening, capture>>

\* Mutant of Dismiss: the prompt can still be answered.
DismissKept ==
  /\ manager.awaiting # None
  /\ manager' = [manager EXCEPT !.dismissed = @ \cup {manager.awaiting},
                                !.state = "notRunning"]
  /\ UNCHANGED <<settings, listening, capture, calls, starts>>

Dismiss ==
  /\ manager.awaiting # None
  /\ manager' = [manager EXCEPT !.dismissed = @ \cup {manager.awaiting},
                                !.awaiting = None, !.state = "notRunning"]
  /\ UNCHANGED <<settings, listening, capture, calls, starts>>

\* _finalize, when the active meeting ends or the companion says stop.
Finalize ==
  /\ ~Busy /\ manager.state = "tracking"
  /\ IF listening.state \in Capturing
     THEN /\ manager' = [manager EXCEPT !.state = "finalizing", !.tick = FALSE]
          /\ listening' = [listening EXCEPT !.state = "reviewing"]
          /\ capture' = [capture EXCEPT !.script = "off"]
          /\ calls' = Plus(calls, Call("stop", "manager"))
     ELSE Notify(listening, calls) /\ UNCHANGED capture
  /\ UNCHANGED <<settings, starts>>

\* updateSettings: once, when the stored settings have been loaded.
UpdateSettings ==
  /\ ~Busy /\ ~settings.loaded
  /\ settings' \in [notify : BOOLEAN, auto : BOOLEAN, companion : BOOLEAN, loaded : {TRUE}]
  /\ calls' = Plus(calls, Call("settings", "user"))
  /\ UNCHANGED <<manager, listening, capture, starts>>

------------------------------------------------------------------------------
(* What a suspended call does when it goes on *)

\* The next await of _startTracking: the window, if it is to be shown.
Showing(mgr) == IF settings.companion THEN [mgr EXCEPT !.overlay = TRUE] ELSE mgr
ThenShow(cs) == IF settings.companion THEN Plus(cs, Call("show", "manager")) ELSE cs

\* The prompt is cancelled: start a session, unless there is one.
CancelDone(cs) ==
  /\ \/ StartListening("manager", cs)
     \/ /\ listening.state # "idle"
        /\ manager' = Showing(manager) /\ calls' = ThenShow(cs)
        /\ UNCHANGED <<listening, capture>>
  /\ UNCHANGED <<settings, starts>>

\* The microphone is on, if it is permitted: the transcript starts.
StartDone(cs, by) ==
  /\ capture' \in {[capture EXCEPT !.mic = mic, !.script = "running", !.paused = FALSE] :
                     mic \in {"on", capture.mic}}
  /\ listening' = listening
  /\ IF by = "manager"
     THEN /\ manager' = Showing(ManagerHears(listening))
          /\ calls' = ThenShow(CallsAfter(listening, cs))
     ELSE /\ manager' = ManagerHears(listening)
          /\ calls' = CallsAfter(listening, cs)
  /\ UNCHANGED <<settings, starts>>

\* startStream throws, whatever the recorder did by then: the transcript does not
\* start, nobody is notified, and _startTracking comes to no window.
StartFails(cs, by) ==
  /\ capture' \in {[capture EXCEPT !.mic = mic,
                        !.lacks = @ \cup IF by = "manager" THEN {"transcript", "window"}
                                         ELSE {"transcript"}] : mic \in {"on", capture.mic}}
  /\ calls' = cs
  /\ UNCHANGED <<settings, manager, listening, starts>>

\* The window is shown: the timer that refreshes it is set.
ShowDone(cs) == /\ manager' = [manager EXCEPT !.tick = TRUE] /\ calls' = cs
                /\ UNCHANGED <<settings, listening, capture, starts>>

\* The transcript, which is scripted as yet, comes to its end.
ScriptEnds == /\ ~Busy /\ capture.script = "running" /\ ~capture.paused
              /\ capture' = [capture EXCEPT !.script = "over"]
              /\ UNCHANGED <<settings, manager, listening, calls, starts>>

MicPaused == IF capture.mic = "on" THEN "paused" ELSE capture.mic
MicResumed == IF capture.mic = "paused" THEN "on" ELSE capture.mic

PauseDone(cs) ==
  /\ capture' = [capture EXCEPT !.mic = MicPaused, !.paused = TRUE, !.lacks = @ \ {"pause"}]
  /\ calls' = cs
  /\ UNCHANGED <<settings, manager, listening, starts>>

ResumeDone(cs) ==
  /\ capture' = [capture EXCEPT !.mic = MicResumed, !.paused = FALSE, !.lacks = @ \ {"pause"}]
  /\ calls' = cs
  /\ UNCHANGED <<settings, manager, listening, starts>>

\* The recorder throws: the transcript is not told to pause, or to resume.
PauseFails(cs) ==
  /\ capture' \in {[capture EXCEPT !.mic = mic, !.lacks = @ \cup {"pause"}] :
                     mic \in {MicPaused, capture.mic}}
  /\ calls' = cs
  /\ UNCHANGED <<settings, manager, listening, starts>>
ResumeFails(cs) ==
  /\ capture' \in {[capture EXCEPT !.mic = mic, !.lacks = @ \cup {"pause"}] :
                     mic \in {MicResumed, capture.mic}}
  /\ calls' = cs
  /\ UNCHANGED <<settings, manager, listening, starts>>

\* Mutant of StopDone: the subscription is forgotten, not cancelled.
StopDoneSubscribed(cs, by) ==
  /\ capture' = [capture EXCEPT !.mic = "off"]
  /\ calls' = Plus(cs, Call("unsubscribe", by))
  /\ UNCHANGED <<settings, manager, listening, starts>>

\* The microphone is off: whatever _sub refers to by now is cancelled.
StopDone(cs, by) ==
  /\ capture' = [capture EXCEPT !.mic = "off", !.live = @ \ {capture.sub}]
  /\ calls' = Plus(cs, Call("unsubscribe", by))
  /\ UNCHANGED <<settings, manager, listening, starts>>

\* The reference is dropped; _finalize goes on to hide the window.
UnsubscribeDone(cs, by) ==
  /\ capture' = [capture EXCEPT !.sub = 0]
  /\ IF by = "manager"
     THEN /\ manager' = [manager EXCEPT !.overlay = FALSE]
          /\ calls' = Plus(cs, Call("hide", "manager"))
     ELSE calls' = cs /\ UNCHANGED manager
  /\ UNCHANGED <<settings, listening, starts>>

\* The end of _finalize; a meeting that ended may be detected anew.
HideDone(cs) ==
  /\ manager' = [manager EXCEPT !.seen = @ \ {manager.active},
                                !.dismissed = @ \ {manager.active},
                                !.active = None, !.state = "notRunning"]
  /\ calls' = cs
  /\ UNCHANGED <<settings, listening, capture, starts>>

\* The note is open; or it could not be created, or the review is over.
NoteDone(cs) ==
  /\ \/ /\ listening.state = "reviewing"
        /\ Notify([listening EXCEPT !.summarising = TRUE],
                  Plus(cs, Call("summarise", "user")))
     \/ calls' = cs /\ UNCHANGED <<manager, listening>>
  /\ UNCHANGED <<settings, capture, starts>>

\* The engine summarised or deferred the meeting, which ends the session that is
\* there now; or it failed, which leaves it in review.
SummariseDone(cs) ==
  /\ LET over == [listening EXCEPT !.summarising = FALSE]
     IN  Notify(Ended(over), cs) \/ Notify(over, cs)
  /\ UNCHANGED <<settings, capture, starts>>

SettingsDone(cs) ==
  /\ manager' = IF manager.state = "tracking"
                THEN [manager EXCEPT !.overlay = settings.companion] ELSE manager
  /\ calls' = cs
  /\ UNCHANGED <<settings, listening, capture, starts>>

GoesOn(call) ==
  LET cs == calls (-) SetToBag({call})
  IN  \/ call.at = "cancel" /\ CancelDone(cs)
      \/ call.at = "start" /\ (StartDone(cs, call.by) \/ StartFails(cs, call.by))
      \/ call.at = "show" /\ ShowDone(cs)
      \/ call.at = "pause" /\ (PauseDone(cs) \/ PauseFails(cs))
      \/ call.at = "resume" /\ (ResumeDone(cs) \/ ResumeFails(cs))
      \/ call.at = "stop" /\ StopDone(cs, call.by)
      \/ call.at = "unsubscribe" /\ UnsubscribeDone(cs, call.by)
      \/ call.at = "hide" /\ HideDone(cs)
      \/ call.at = "note" /\ NoteDone(cs)
      \/ call.at = "summarise" /\ SummariseDone(cs)
      \/ call.at = "settings" /\ SettingsDone(cs)

------------------------------------------------------------------------------

\* Which calls overtake each other: two operations on the audio, tracking and
\* finalising, two summaries; and a meeting tracked while a session is in review.
AudioOps == {"start", "pause", "resume", "stop", "unsubscribe"}
Under(ats) == {call \in BagToSet(calls') : call.at \in ats}
Managers(ats) == {call \in Under(ats) : call.by = "manager"}
Several(cs) == \E call \in cs : calls'[call] > 1 \/ cs # {call}
TrackingCalls == Under({"cancel", "show"}) \cup Managers({"start"})
FinalizingCalls == Under({"hide"}) \cup Managers({"stop", "unsubscribe"})
Races ==
  races' = races
    \cup (IF Several(Under(AudioOps)) THEN {"audio"} ELSE {})
    \cup (IF TrackingCalls # {} /\ FinalizingCalls # {} THEN {"tracking"} ELSE {})
    \cup (IF Several(Under({"note", "summarise"})) THEN {"summary"} ELSE {})
    \cup (IF /\ manager.state # "tracking" /\ manager'.state = "tracking"
             /\ listening.state = "reviewing" THEN {"review"} ELSE {})

User == Start \/ Pause \/ ResumeListening \/ Stop \/ Summarise \/ Close \/ ScriptEnds
Tracker == Accept \/ Dismiss \/ Finalize \/ UpdateSettings \/ \E m \in Meetings : Detected(m)
GoOn == \E call \in BagToSet(calls) : GoesOn(call)

Next == (User \/ Tracker \/ GoOn) /\ Races

Spec == Init /\ [][Next]_vars

------------------------------------------------------------------------------
(* Properties *)

Quiet == calls = EmptyBag

\* listening_state: when no call is under way, microphone and transcript run only
\* while a session is captured, which alone listens to the stream; they are paused
\* as it is, and its transcript runs for as long as it is captured, except where the
\* recorder threw; unless operations on the audio, or two summaries, overlapped.
CaptureFollowsSession ==
  Quiet /\ races \cap {"audio", "summary"} = {} =>
    /\ capture.mic # "off" \/ capture.script # "off" => listening.state \in Capturing
    /\ capture.live = IF listening.state \in Capturing THEN {listening.session} ELSE {}
    /\ "pause" \notin capture.lacks =>
         /\ capture.mic = "on" => listening.state = "listening"
         /\ capture.mic = "paused" => listening.state = "paused"
         /\ capture.script # "off" => capture.paused = (listening.state = "paused")
    /\ "transcript" \notin capture.lacks /\ listening.state \in Capturing =>
         capture.script # "off"

\* meeting_session_manager: when no call is under way, the window floats and is
\* refreshed only while a meeting is tracked, a tracked meeting has a session that
\* is listening or paused, and its window floats if it is wanted and the recorder
\* did not throw before; unless tracking overlapped with finalising or began during
\* a review.
CompanionFollowsTracking ==
  Quiet /\ races \cap {"tracking", "review"} = {} =>
    /\ manager.overlay \/ manager.tick => manager.state = "tracking"
    /\ manager.state = "tracking" =>
         /\ listening.state \in Capturing
         /\ manager.overlay => settings.companion
         /\ settings.companion /\ "window" \notin capture.lacks => manager.overlay
    /\ manager.state # "finalizing"

\* listening_state: a session with its transcript ends only in review; none that
\* is being captured is ended, unless two summaries were asked for.
ReviewIsKept ==
  [][listening.session # listening'.session /\ listening.session # 0 =>
       listening.state = "reviewing" \/ "summary" \in races]_vars

\* meeting_session_manager: a tracked meeting is left by finalising it only, unless
\* tracking overlapped with finalising.
TrackingIsExclusive ==
  [][manager.state = "tracking" /\ "tracking" \notin races =>
       /\ manager'.state \in {"tracking", "finalizing"}
       /\ manager'.active = manager.active]_vars

\* meeting_session_manager: a meeting that the user dismissed is neither prompted
\* nor tracked again.
DismissedStaysQuiet ==
  [][\A m \in manager.dismissed : m \notin {manager'.awaiting, manager'.active}]_vars

==============================================================================
