---------------------------- MODULE SessionProofs ----------------------------
(* Proofs about MeetingSession, for every set of meetings and every bound on  *)
(* what the user and the detector do.                                         *)
EXTENDS MeetingSession, TLAPS

ManagerRecord ==
  [state : {"notRunning", "awaitingDecision", "tracking", "finalizing"},
   awaiting : Meetings \cup {None}, active : Meetings \cup {None},
   seen : SUBSET Meetings, dismissed : SUBSET Meetings,
   overlay : BOOLEAN, tick : BOOLEAN]

SettingsRecord == [notify : BOOLEAN, auto : BOOLEAN, companion : BOOLEAN, loaded : BOOLEAN]

ManagerTyped == manager \in ManagerRecord /\ settings \in SettingsRecord

\* A prompt is about a meeting that is not the active one, and none is open while
\* a meeting is tracked.
PromptIsOpen ==
  manager.awaiting # None => /\ manager.awaiting # manager.active
                             /\ manager.state # "tracking"

\* A dismissed meeting is neither the prompted nor the active one.
DismissedIsIdle == manager.dismissed \cap {manager.awaiting, manager.active} = {}

\* The calls of cs that finalise the tracking of a meeting.
Ending(cs) == {call \in BagToSet(cs) :
                 \/ call.at = "hide"
                 \/ call.at \in {"stop", "unsubscribe"} /\ call.by = "manager"}

\* While a meeting is tracked, nothing is finalising it, unless they overlapped.
TrackedIsNotEnding ==
  manager.state = "tracking" /\ "tracking" \notin races => Ending(calls) = {}

SessionInv == ManagerTyped /\ PromptIsOpen /\ DismissedIsIdle /\ TrackedIsNotEnding

------------------------------------------------------------------------------
(* Facts about calls *)

LEMMA CallFacts ==
  ASSUME NEW at, NEW by
  PROVE  Call(at, by).at = at /\ Call(at, by).by = by
BY DEF Call

LEMMA BagFacts ==
  ASSUME NEW cs, NEW call
  PROVE  /\ BagToSet(Plus(cs, call)) = BagToSet(cs) \cup {call}
         /\ BagToSet(cs (-) SetToBag({call})) \subseteq BagToSet(cs)
BY DEF Plus, BagToSet, SetToBag, (+), (-)

------------------------------------------------------------------------------
(* What a step does to the manager: one of six things *)

MeetingsKept == /\ manager'.awaiting = manager.awaiting
                /\ manager'.active = manager.active
                /\ manager'.dismissed = manager.dismissed

\* Nothing but the window, its timer and the surfaced meetings.
Stays == /\ MeetingsKept /\ manager'.state = manager.state
         /\ Ending(calls) = {} => Ending(calls') = {}

\* Tracking is being finalised.
Leaves == MeetingsKept /\ manager.state = "tracking" /\ manager'.state = "finalizing"

\* A new meeting is prompted or, by itself or after its prompt, tracked.
Prompts == \E m \in Meetings \ (manager.dismissed \cup {manager.active}) :
             /\ manager.state # "tracking" /\ manager'.state = "awaitingDecision"
             /\ manager'.awaiting = m /\ manager'.active = manager.active
             /\ manager'.dismissed = manager.dismissed
Tracks == \E m \in Meetings \ manager.dismissed :
            /\ manager.state # "tracking" /\ manager'.state = "tracking"
            /\ manager'.awaiting = None /\ manager'.active = m
            /\ manager'.dismissed = manager.dismissed
            /\ TrackingCalls # {}

\* The prompt is declined.
Declines == /\ manager.awaiting \in Meetings /\ manager.state # "tracking"
            /\ manager'.state = "notRunning"
            /\ manager'.awaiting = None /\ manager'.active = manager.active
            /\ manager'.dismissed = manager.dismissed \cup {manager.awaiting}

\* A finalisation ends.
Finishes == /\ Ending(calls) # {}
            /\ manager'.state = "notRunning"
            /\ manager'.awaiting = manager.awaiting /\ manager'.active = None
            /\ manager'.dismissed \subseteq manager.dismissed

Effect == /\ manager' \in ManagerRecord
          /\ Stays \/ Leaves \/ Prompts \/ Tracks \/ Declines \/ Finishes

\* Adding calls that finalise nothing.
LEMMA EndingPlus ==
  ASSUME NEW cs, NEW at, NEW by,
         at \notin {"hide", "stop", "unsubscribe"} \/ (at # "hide" /\ by # "manager")
  PROVE  Ending(Plus(cs, Call(at, by))) = Ending(cs)
<1>1. BagToSet(Plus(cs, Call(at, by))) = BagToSet(cs) \cup {Call(at, by)}
  BY BagFacts
<1>2. QED
  BY <1>1, CallFacts DEF Ending

LEMMA EndingMinus ==
  ASSUME NEW call PROVE Ending(calls (-) SetToBag({call})) \subseteq Ending(calls)
BY BagFacts DEF Ending

\* What notifying does.
LEMMA NotifyEffect ==
  ASSUME ManagerTyped, NEW l, NEW cs, Notify(l, cs), Ending(cs) \subseteq Ending(calls)
  PROVE  Effect
<1>1. CASE Lost(l)
  BY <1>1 DEF Notify, ManagerHears, Lost, ManagerTyped, ManagerRecord, Effect, Leaves,
              MeetingsKept
<1>2. CASE ~Lost(l)
  BY <1>2 DEF Notify, ManagerHears, CallsAfter, ManagerTyped, Effect, Stays, MeetingsKept
<1>3. QED
  BY <1>1, <1>2

\* What tracking a meeting does.
LEMMA TrackEffect ==
  ASSUME NEW m \in Meetings, m \notin manager.dismissed, manager.state # "tracking",
         NEW mgr \in ManagerRecord, mgr.dismissed = manager.dismissed,
         StartTracking(m, mgr)
  PROVE  Effect
<1>1. TrackingCalls # {}
  <2>1. calls' = Plus(calls, Call("cancel", "manager"))
    BY DEF StartTracking
  <2>2. BagToSet(Plus(calls, Call("cancel", "manager")))
          = BagToSet(calls) \cup {Call("cancel", "manager")}
    BY BagFacts
  <2>3. Call("cancel", "manager") \in BagToSet(calls')
    BY <2>1, <2>2 DEF BagToSet
  <2>4. QED
    BY <2>3, CallFacts DEF TrackingCalls, Under
<1>2. manager' \in ManagerRecord
  BY DEF StartTracking, ManagerRecord
<1>3. Tracks
  <2>1. /\ manager'.state = "tracking" /\ manager'.awaiting = None /\ manager'.active = m
        /\ manager'.dismissed = manager.dismissed
    BY DEF StartTracking, ManagerRecord
  <2>2. QED
    BY <1>1, <2>1 DEF Tracks
<1>4. QED
  BY <1>2, <1>3 DEF Effect

\* What the user does.
LEMMA UserEffect ==
  ASSUME ManagerTyped, User PROVE Effect
<1>1. CASE Start
  <2>1. PICK l, cs : Notify(l, cs) /\ cs = Plus(calls, Call("start", "user"))
    BY <1>1 DEF Start, StartListening
  <2>2. Ending(cs) = Ending(calls)
    BY <2>1, EndingPlus
  <2>3. QED
    BY <2>1, <2>2, NotifyEffect
<1>2. CASE Pause
  <2>1. PICK l, cs : Notify(l, cs) /\ cs = Plus(calls, Call("pause", "user"))
    BY <1>2 DEF Pause
  <2>2. Ending(cs) = Ending(calls)
    BY <2>1, EndingPlus
  <2>3. QED
    BY <2>1, <2>2, NotifyEffect
<1>3. CASE ResumeListening
  <2>1. PICK l, cs : Notify(l, cs) /\ cs = Plus(calls, Call("resume", "user"))
    BY <1>3 DEF ResumeListening
  <2>2. Ending(cs) = Ending(calls)
    BY <2>1, EndingPlus
  <2>3. QED
    BY <2>1, <2>2, NotifyEffect
<1>4. CASE Stop
  <2>1. PICK l, cs : Notify(l, cs) /\ cs = Plus(calls, Call("stop", "user"))
    BY <1>4 DEF Stop
  <2>2. Ending(cs) = Ending(calls)
    BY <2>1, EndingPlus
  <2>3. QED
    BY <2>1, <2>2, NotifyEffect
<1>5. CASE Summarise
  <2>1. CASE \E l : Notify(l, Plus(calls, Call("summarise", "user")))
    <3>1. Ending(Plus(calls, Call("summarise", "user"))) = Ending(calls)
      BY EndingPlus
    <3>2. QED
      BY <2>1, <3>1, NotifyEffect
  <2>2. CASE calls' = Plus(calls, Call("note", "user")) /\ UNCHANGED manager
    <3>1. Ending(calls') = Ending(calls)
      BY <2>2, EndingPlus
    <3>2. QED
      BY <2>2, <3>1 DEF Effect, Stays, MeetingsKept, ManagerTyped
  <2>3. QED
    BY <1>5, <2>1, <2>2 DEF Summarise
<1>6. CASE Close
  BY <1>6, NotifyEffect DEF Close
<1>7. CASE ScriptEnds
  BY <1>7 DEF ScriptEnds, Effect, Stays, MeetingsKept, ManagerTyped
<1>8. QED
  BY <1>1, <1>2, <1>3, <1>4, <1>5, <1>6, <1>7 DEF User

\* What the detector, the notifications, the companion and the settings do.
LEMMA TrackerEffect ==
  ASSUME ManagerTyped, PromptIsOpen, DismissedIsIdle, Tracker PROVE Effect
<1>1. ASSUME NEW m \in Meetings, Detected(m) PROVE Effect
  <2> DEFINE seen == [manager EXCEPT !.seen = @ \cup {m}]
  <2>1. /\ seen \in ManagerRecord /\ seen.dismissed = manager.dismissed
        /\ seen.state = manager.state /\ seen.awaiting = manager.awaiting
        /\ seen.active = manager.active
    BY DEF ManagerTyped, ManagerRecord
  <2>2. /\ m \notin manager.dismissed /\ m # manager.active
        /\ manager.state # "tracking"
    BY <1>1 DEF Detected
  <2>3. CASE StartTracking(m, seen)
    BY <2>1, <2>2, <2>3, TrackEffect
  <2>4. CASE manager' = seen /\ calls' = calls
    BY <2>1, <2>4 DEF Effect, Stays, MeetingsKept
  <2>5. CASE manager' = [seen EXCEPT !.awaiting = m, !.state = "awaitingDecision"]
    <3>1. manager' \in ManagerRecord
      BY <2>1, <2>5 DEF ManagerRecord
    <3>2. /\ manager'.awaiting = m /\ manager'.state = "awaitingDecision"
          /\ manager'.active = manager.active /\ manager'.dismissed = manager.dismissed
      BY <2>1, <2>5 DEF ManagerRecord
    <3>3. QED
      BY <2>2, <3>1, <3>2 DEF Effect, Prompts
  <2>6. QED
    BY <1>1, <2>3, <2>4, <2>5 DEF Detected
<1>2. CASE Accept
  <2>1. /\ manager.awaiting \in Meetings /\ manager.awaiting \notin manager.dismissed
        /\ manager.state # "tracking"
    BY <1>2 DEF Accept, ManagerTyped, ManagerRecord, PromptIsOpen, DismissedIsIdle
  <2>2. StartTracking(manager.awaiting, manager) /\ manager \in ManagerRecord
    BY <1>2 DEF Accept, ManagerTyped
  <2>3. QED
    BY <2>1, <2>2, TrackEffect
<1>3. CASE Dismiss
  <2>1. /\ manager.awaiting \in Meetings /\ manager.state # "tracking"
    BY <1>3 DEF Dismiss, ManagerTyped, ManagerRecord, PromptIsOpen
  <2>2. manager' \in ManagerRecord
    BY <1>3, <2>1 DEF Dismiss, ManagerTyped, ManagerRecord
  <2>3. Declines
    BY <1>3, <2>1 DEF Dismiss, Declines, ManagerTyped, ManagerRecord
  <2>4. QED
    BY <2>2, <2>3 DEF Effect
<1>4. CASE Finalize
  <2>1. CASE /\ manager.state = "tracking"
             /\ manager' = [manager EXCEPT !.state = "finalizing", !.tick = FALSE]
    BY <2>1 DEF Effect, Leaves, MeetingsKept, ManagerTyped, ManagerRecord
  <2>2. CASE Notify(listening, calls)
    BY <2>2, NotifyEffect
  <2>3. QED
    BY <1>4, <2>1, <2>2 DEF Finalize
<1>5. CASE UpdateSettings
  <2>1. calls' = Plus(calls, Call("settings", "user")) /\ UNCHANGED manager
    BY <1>5 DEF UpdateSettings
  <2>2. Ending(calls') = Ending(calls)
    BY <2>1, EndingPlus
  <2>3. QED
    BY <2>1, <2>2 DEF Effect, Stays, MeetingsKept, ManagerTyped
<1>6. QED
  BY <1>1, <1>2, <1>3, <1>4, <1>5 DEF Tracker

\* What a suspended call does when it goes on.
LEMMA GoesOnEffect ==
  ASSUME ManagerTyped, NEW call \in BagToSet(calls), GoesOn(call) PROVE Effect
<1> DEFINE cs == calls (-) SetToBag({call})
<1>1. Ending(cs) \subseteq Ending(calls)
  BY EndingMinus
<1>2. ASSUME calls' = cs,
             \/ UNCHANGED manager
             \/ manager' = [manager EXCEPT !.tick = TRUE]
             \/ manager' = [manager EXCEPT !.overlay = settings.companion]
      PROVE  Effect
  BY <1>1, <1>2 DEF Effect, Stays, MeetingsKept, ManagerTyped, ManagerRecord, SettingsRecord
<1>3. ASSUME manager' = Showing(manager), calls' = ThenShow(cs) PROVE Effect
  <2>1. Ending(calls') \subseteq Ending(calls)
    <3>1. Ending(Plus(cs, Call("show", "manager"))) = Ending(cs)
      BY EndingPlus
    <3>2. QED
      BY <1>1, <1>3, <3>1 DEF ThenShow
  <2>2. QED
    BY <1>3, <2>1 DEF Showing, Effect, Stays, MeetingsKept, ManagerTyped, ManagerRecord
<1>4. CASE call.at = "cancel" /\ CancelDone(cs)
  <2>1. CASE StartListening("manager", cs)
    <3>1. PICK l : Notify(l, Plus(cs, Call("start", "manager")))
      BY <2>1 DEF StartListening
    <3>2. Ending(Plus(cs, Call("start", "manager"))) \subseteq Ending(calls)
      BY <1>1, EndingPlus
    <3>3. QED
      BY <3>1, <3>2, NotifyEffect
  <2>2. QED
    BY <1>3, <1>4, <2>1 DEF CancelDone
<1>5. CASE call.at = "start" /\ (StartDone(cs, call.by) \/ StartFails(cs, call.by))
  <2> SUFFICES ASSUME StartDone(cs, call.by) PROVE Effect
    BY <1>2, <1>5 DEF StartFails
  <2>1. CASE /\ manager' = ManagerHears(listening)
             /\ calls' = CallsAfter(listening, cs)
    <3>1. Notify(listening, cs)
      BY <2>1 DEF Notify, StartDone
    <3>2. QED
      BY <1>1, <3>1, NotifyEffect
  <2>2. CASE /\ manager' = Showing(ManagerHears(listening))
             /\ calls' = ThenShow(CallsAfter(listening, cs))
    <3>1. CASE Lost(listening)
      BY <2>2, <3>1 DEF Showing, ManagerHears, Lost, Effect, Leaves, MeetingsKept,
                        ManagerTyped, ManagerRecord
    <3>2. CASE ~Lost(listening)
      BY <1>3, <2>2, <3>2 DEF ManagerHears, CallsAfter
    <3>3. QED
      BY <3>1, <3>2
  <2>3. QED
    BY <2>1, <2>2 DEF StartDone
<1>6. CASE call.at = "stop" /\ StopDone(cs, call.by)
  <2>1. calls' = Plus(cs, Call("unsubscribe", call.by)) /\ UNCHANGED manager
    BY <1>6 DEF StopDone
  <2>2. Ending(calls) = {} => Ending(calls') = {}
    <3>1. CASE call.by = "manager"
      BY <1>6, <3>1 DEF Ending
    <3>2. CASE call.by # "manager"
      <4>1. Ending(Plus(cs, Call("unsubscribe", call.by))) = Ending(cs)
        BY <3>2, EndingPlus
      <4>2. QED
        BY <1>1, <2>1, <4>1
    <3>3. QED
      BY <3>1, <3>2
  <2>3. QED
    BY <2>1, <2>2 DEF Effect, Stays, MeetingsKept, ManagerTyped
<1>7. CASE call.at = "unsubscribe" /\ UnsubscribeDone(cs, call.by)
  <2>1. CASE call.by = "manager"
    <3>1. Ending(calls) # {}
      BY <1>7, <2>1 DEF Ending
    <3>2. manager' = [manager EXCEPT !.overlay = FALSE]
      BY <1>7, <2>1 DEF UnsubscribeDone
    <3>3. QED
      BY <3>1, <3>2 DEF Effect, Stays, MeetingsKept, ManagerTyped, ManagerRecord
  <2>2. CASE call.by # "manager"
    BY <1>2, <1>7, <2>2 DEF UnsubscribeDone
  <2>3. QED
    BY <2>1, <2>2
<1>8. CASE call.at = "hide" /\ HideDone(cs)
  <2>1. Ending(calls) # {}
    BY <1>8 DEF Ending
  <2>2. manager' \in ManagerRecord
    BY <1>8 DEF HideDone, ManagerTyped, ManagerRecord
  <2>3. Finishes
    BY <1>8, <2>1 DEF HideDone, Finishes, ManagerTyped, ManagerRecord
  <2>4. QED
    BY <2>2, <2>3 DEF Effect
<1>9. CASE call.at = "note" /\ NoteDone(cs)
  <2>1. CASE \E l : Notify(l, Plus(cs, Call("summarise", "user")))
    <3>1. Ending(Plus(cs, Call("summarise", "user"))) \subseteq Ending(calls)
      BY <1>1, EndingPlus
    <3>2. QED
      BY <2>1, <3>1, NotifyEffect
  <2>2. QED
    BY <1>2, <1>9, <2>1 DEF NoteDone
<1>10. CASE call.at = "summarise" /\ SummariseDone(cs)
  BY <1>1, <1>10, NotifyEffect DEF SummariseDone
<1>11. QED
  BY <1>2, <1>4, <1>5, <1>6, <1>7, <1>8, <1>9, <1>10
     DEF GoesOn, ShowDone, PauseDone, PauseFails, ResumeDone, ResumeFails, SettingsDone

------------------------------------------------------------------------------
(* The invariant *)

\* The settings are always settings.
LEMMA SettingsTyped ==
  ASSUME settings \in SettingsRecord, [Next]_vars PROVE settings' \in SettingsRecord
<1>1. CASE User
  BY <1>1 DEF User, Start, Pause, ResumeListening, Stop, Summarise, Close,
              ScriptEnds
<1>2. CASE Tracker
  BY <1>2 DEF Tracker, Accept, Dismiss, Finalize, UpdateSettings, Detected, SettingsRecord
<1>3. CASE GoOn
  BY <1>3 DEF GoOn, GoesOn, CancelDone, StartDone, StartFails, ShowDone, PauseDone,
              PauseFails, ResumeDone, ResumeFails, StopDone, UnsubscribeDone, HideDone, NoteDone, SummariseDone, SettingsDone
<1>4. QED
  BY <1>1, <1>2, <1>3 DEF Next, vars

LEMMA StepEffect ==
  ASSUME SessionInv, Next PROVE Effect
BY UserEffect, TrackerEffect, GoesOnEffect DEF SessionInv, Next, GoOn

\* Tracking that begins while another is finalised is recorded as a race.
LEMMA RaceRecorded ==
  ASSUME Races, TrackingCalls # {}, Ending(calls') # {} PROVE "tracking" \in races'
<1>1. FinalizingCalls # {}
  BY DEF FinalizingCalls, Under, Managers, Ending
<1>2. QED
  BY <1>1 DEF Races

LEMMA InvInit == Init => SessionInv
<1> SUFFICES ASSUME Init PROVE SessionInv
  OBVIOUS
<1>1. ManagerTyped
  BY DEF Init, ManagerTyped, ManagerRecord, SettingsRecord
<1>2. QED
  BY <1>1 DEF Init, SessionInv, PromptIsOpen, DismissedIsIdle, TrackedIsNotEnding

LEMMA InvNext == SessionInv /\ [Next]_vars => SessionInv'
<1> SUFFICES ASSUME SessionInv, [Next]_vars PROVE SessionInv'
  OBVIOUS
<1> USE NoneAssumption
<1>1. CASE UNCHANGED vars
  BY <1>1 DEF vars, SessionInv, ManagerTyped, PromptIsOpen, DismissedIsIdle,
              TrackedIsNotEnding, Ending, BagToSet
<1>2. CASE Next
  <2>1. Effect /\ Races
    BY <1>2, StepEffect DEF Next
  <2>2. ManagerTyped'
    BY <2>1, SettingsTyped DEF Effect, ManagerTyped, SessionInv
  <2>3. PromptIsOpen'
    BY <2>1 DEF Effect, SessionInv, ManagerTyped, ManagerRecord, PromptIsOpen, Stays,
                Leaves, Prompts, Tracks, Declines, Finishes, MeetingsKept
  <2>4. DismissedIsIdle'
    BY <2>1 DEF Effect, SessionInv, ManagerTyped, ManagerRecord, PromptIsOpen,
                DismissedIsIdle, Stays, Leaves, Prompts, Tracks, Declines, Finishes,
                MeetingsKept
  <2>5. TrackedIsNotEnding'
    <3> SUFFICES ASSUME manager'.state = "tracking", "tracking" \notin races'
                 PROVE  Ending(calls') = {}
      BY DEF TrackedIsNotEnding, Ending, BagToSet
    <3>1. "tracking" \notin races
      BY <2>1 DEF Races
    <3>2. CASE Stays
      BY <3>1, <3>2 DEF Stays, SessionInv, TrackedIsNotEnding
    <3>3. CASE Tracks
      BY <2>1, <3>3, RaceRecorded DEF Tracks
    <3>4. QED
      BY <2>1, <3>2, <3>3 DEF Effect, Leaves, Prompts, Declines, Finishes
  <2>6. QED
    BY <2>2, <2>3, <2>4, <2>5 DEF SessionInv
<1>3. QED
  BY <1>1, <1>2

\* The inductive invariant of the manager: prompts, dismissals and tracking.
THEOREM SessionInvariant == Spec => []SessionInv
BY InvInit, InvNext, PTL DEF Spec

\* meeting_session_manager: a dismissed meeting is neither prompted nor tracked
\* again until the manager has forgotten it.
THEOREM DismissedNeverNagged == Spec => DismissedStaysQuiet
<1>1. SessionInv /\ [Next]_vars =>
        [\A m \in manager.dismissed : m \notin {manager'.awaiting, manager'.active}]_vars
  <2> SUFFICES ASSUME SessionInv, Next, NEW m \in manager.dismissed
               PROVE  m \notin {manager'.awaiting, manager'.active}
    OBVIOUS
  <2>1. Effect
    BY StepEffect
  <2>2. m \in Meetings /\ m \notin {manager.awaiting, manager.active}
    BY DEF SessionInv, ManagerTyped, ManagerRecord, DismissedIsIdle
  <2>3. QED
    BY <2>1, <2>2, NoneAssumption
       DEF Effect, Stays, Leaves, Prompts, Tracks, Declines, Finishes, MeetingsKept
<1>2. QED
  BY <1>1, SessionInvariant, PTL DEF Spec, DismissedStaysQuiet

\* meeting_session_manager: a tracked meeting is left by finalising it only, unless
\* tracking overlapped with finalising.
THEOREM TrackingNeverStolen == Spec => TrackingIsExclusive
<1>1. SessionInv /\ [Next]_vars =>
        [manager.state = "tracking" /\ "tracking" \notin races =>
           /\ manager'.state \in {"tracking", "finalizing"}
           /\ manager'.active = manager.active]_vars
  <2> SUFFICES ASSUME SessionInv, Next,
                      manager.state = "tracking", "tracking" \notin races
               PROVE  /\ manager'.state \in {"tracking", "finalizing"}
                      /\ manager'.active = manager.active
    OBVIOUS
  <2>1. Effect
    BY StepEffect
  <2>2. Ending(calls) = {}
    BY DEF SessionInv, TrackedIsNotEnding
  <2>3. QED
    BY <2>1, <2>2
       DEF Effect, Stays, Leaves, Prompts, Tracks, Declines, Finishes, MeetingsKept
<1>2. QED
  BY <1>1, SessionInvariant, PTL DEF Spec, TrackingIsExclusive

------------------------------------------------------------------------------
(* The calls as a bag *)

\* The calls of cs that are suspended at one of these points.
At(cs, ats) == {call \in BagToSet(cs) : call.at \in ats}

\* There is at most one call of the set S among cs.
Lone(cs, S) == \A call \in S : cs[call] = 1 /\ \A other \in S : other = call

IsCalls(cs) == /\ cs = [call \in DOMAIN cs |-> cs[call]]
               /\ \A call \in DOMAIN cs : cs[call] \in Nat \ {0}

LEMMA PlusCalls ==
  ASSUME NEW cs, IsCalls(cs), NEW x
  PROVE  /\ IsCalls(Plus(cs, x))
         /\ BagToSet(Plus(cs, x)) = BagToSet(cs) \cup {x}
         /\ x \in BagToSet(cs) => Plus(cs, x)[x] > 1
         /\ x \notin BagToSet(cs) => Plus(cs, x)[x] = 1
         /\ \A y \in BagToSet(cs) \ {x} : Plus(cs, x)[y] = cs[y]
<1> DEFINE one == SetToBag({x})
           ds == Plus(cs, x)
<1>1. DOMAIN one = {x} /\ one[x] = 1
  BY DEF SetToBag
<1>2. ds = [y \in DOMAIN cs \cup {x} |->
              (IF y \in DOMAIN cs THEN cs[y] ELSE 0) + (IF y \in {x} THEN one[y] ELSE 0)]
  BY <1>1 DEF Plus, (+)
<1> HIDE DEF ds, one
<1>3. DOMAIN ds = DOMAIN cs \cup {x}
  BY <1>2
<1>4. ASSUME NEW y \in DOMAIN cs \cup {x}
      PROVE  ds[y] = (IF y \in DOMAIN cs THEN cs[y] ELSE 0) + (IF y = x THEN 1 ELSE 0)
  BY <1>1, <1>2
<1>5. IsCalls(ds)
  <2>1. ASSUME NEW y \in DOMAIN ds PROVE ds[y] \in Nat \ {0}
    BY <1>3, <1>4 DEF IsCalls
  <2>2. ds = [y \in DOMAIN ds |-> ds[y]]
    BY <1>2
  <2>3. QED
    BY <2>1, <2>2 DEF IsCalls
<1>6. x \in DOMAIN cs => ds[x] > 1
  BY <1>4 DEF IsCalls
<1>7. x \notin DOMAIN cs => ds[x] = 1
  BY <1>4
<1>8. \A y \in DOMAIN cs \ {x} : ds[y] = cs[y]
  BY <1>4 DEF IsCalls
<1>9. QED
  BY <1>3, <1>5, <1>6, <1>7, <1>8 DEF BagToSet, ds

LEMMA MinusCalls ==
  ASSUME NEW cs, IsCalls(cs), NEW x \in BagToSet(cs)
  PROVE  LET ds == cs (-) SetToBag({x})
         IN  /\ IsCalls(ds)
             /\ BagToSet(ds) \subseteq BagToSet(cs)
             /\ BagToSet(cs) \ {x} \subseteq BagToSet(ds)
             /\ cs[x] = 1 => x \notin BagToSet(ds)
             /\ \A y \in BagToSet(ds) \ {x} : ds[y] = cs[y]
<1> DEFINE one == SetToBag({x})
           less == [y \in DOMAIN cs |-> IF y \in DOMAIN one THEN cs[y] - one[y] ELSE cs[y]]
           ds == cs (-) one
<1>1. DOMAIN one = {x} /\ one[x] = 1
  BY DEF SetToBag
<1>2. ds = [y \in {d \in DOMAIN less : less[d] > 0} |-> less[y]]
  BY DEF (-)
<1>3. less = [y \in DOMAIN cs |-> IF y = x THEN cs[y] - 1 ELSE cs[y]]
  BY <1>1
<1> HIDE DEF one, less, ds
<1>4. DOMAIN less = DOMAIN cs /\ less[x] = cs[x] - 1
      /\ \A y \in DOMAIN cs \ {x} : less[y] = cs[y]
  BY <1>3 DEF BagToSet
<1>5. /\ DOMAIN ds = {d \in DOMAIN cs : less[d] > 0}
      /\ \A y \in DOMAIN ds : ds[y] = less[y]
  BY <1>2, <1>4
<1>6. \A y \in DOMAIN cs : cs[y] \in Nat /\ cs[y] > 0
  BY DEF IsCalls
<1>7. IsCalls(ds)
  <2>1. ds = [y \in DOMAIN ds |-> ds[y]]
    BY <1>2
  <2>2. \A y \in DOMAIN ds : ds[y] \in Nat \ {0}
    BY <1>4, <1>5, <1>6
  <2>3. QED
    BY <2>1, <2>2 DEF IsCalls
<1>8. /\ DOMAIN ds \subseteq DOMAIN cs
      /\ DOMAIN cs \ {x} \subseteq DOMAIN ds
      /\ cs[x] = 1 => x \notin DOMAIN ds
      /\ \A y \in DOMAIN ds \ {x} : ds[y] = cs[y]
  BY <1>4, <1>5, <1>6
<1>9. QED
  BY <1>7, <1>8 DEF BagToSet, ds, one

LEMMA AtPlus ==
  ASSUME NEW cs, IsCalls(cs), NEW ats, NEW at, NEW by
  PROVE  /\ IsCalls(Plus(cs, Call(at, by)))
         /\ at \notin ats => At(Plus(cs, Call(at, by)), ats) = At(cs, ats)
         /\ at \in ats => At(Plus(cs, Call(at, by)), ats) = At(cs, ats) \cup {Call(at, by)}
BY PlusCalls, CallFacts DEF At

\* A call that is added and remains alone was not preceded by one of its kind.
LEMMA LonePlus ==
  ASSUME NEW cs, IsCalls(cs), NEW ats, NEW at \in ats, NEW by,
         LET ds == Plus(cs, Call(at, by)) IN Lone(ds, At(ds, ats))
  PROVE  /\ At(cs, ats) = {}
         /\ At(Plus(cs, Call(at, by)), ats) = {Call(at, by)}
<1> DEFINE x == Call(at, by)
           ds == Plus(cs, x)
<1>1. At(ds, ats) = At(cs, ats) \cup {x}
  BY AtPlus
<1>2. ds[x] = 1 /\ At(cs, ats) \subseteq {x}
  BY <1>1 DEF Lone
<1>3. x \notin BagToSet(cs)
  BY <1>2, PlusCalls
<1>4. QED
  BY <1>1, <1>2, <1>3 DEF At

\* A call that goes on.
LEMMA AtMinus ==
  ASSUME NEW cs, IsCalls(cs), NEW x \in BagToSet(cs), NEW ats
  PROVE  LET ds == cs (-) SetToBag({x})
         IN  /\ IsCalls(ds)
             /\ At(ds, ats) \subseteq At(cs, ats)
             /\ x.at \notin ats => At(ds, ats) = At(cs, ats)
             /\ x.at \in ats /\ Lone(cs, At(cs, ats)) => At(ds, ats) = {}
<1> DEFINE ds == cs (-) SetToBag({x})
<1>1. /\ IsCalls(ds)
      /\ BagToSet(ds) \subseteq BagToSet(cs)
      /\ BagToSet(cs) \ {x} \subseteq BagToSet(ds)
      /\ cs[x] = 1 => x \notin BagToSet(ds)
  BY MinusCalls
<1> HIDE DEF ds
<1>2. At(ds, ats) \subseteq At(cs, ats)
  BY <1>1 DEF At
<1>3. x.at \notin ats => At(ds, ats) = At(cs, ats)
  BY <1>1 DEF At
<1>4. x.at \in ats /\ Lone(cs, At(cs, ats)) => At(ds, ats) = {}
  BY <1>1 DEF At, Lone
<1>5. QED
  BY <1>1, <1>2, <1>3, <1>4 DEF ds

------------------------------------------------------------------------------
(* What a step does to the session and to the audio behind it *)

SessionRecord == [state : {"idle", "listening", "paused", "reviewing"},
                  session : Nat, begun : Nat, summarising : BOOLEAN]

CaptureRecord == [mic : {"off", "on", "paused"}, script : {"off", "running", "over"},
                  paused : BOOLEAN, sub : Nat, live : SUBSET Nat,
                  lacks : SUBSET {"transcript", "window", "pause"}]

SessionTyped == /\ listening \in SessionRecord /\ capture \in CaptureRecord
                /\ IsCalls(calls)
                /\ listening.state = "idle" => listening.session = 0

Ops(cs) == At(cs, AudioOps)
Waiting(cs) == At(cs, {"note", "summarise"})
Summaries(cs) == At(cs, {"summarise"})

\* An operation on the audio begins, ends, or is followed by another; with none to
\* overtake it, it is the only one.
Adds(at) == Lone(calls', Ops(calls')) =>
              Ops(calls) = {} /\ \E by : Ops(calls') = {Call(at, by)}
Drops(at) == /\ \E call \in Ops(calls) : call.at = at
             /\ Lone(calls, Ops(calls)) => Ops(calls') = {}
Turns(at, to) == /\ \E call \in Ops(calls) : call.at = at
                 /\ Lone(calls', Ops(calls')) => \E by : Ops(calls') = {Call(to, by)}

OpsKept == Ops(calls') = Ops(calls)
NoSummaryAdded == Summaries(calls') \subseteq Summaries(calls)

\* The session has this state next.
Comes(state) == listening' = [listening EXCEPT !.state = state]

Begins == LET id == listening.begun + 1
          IN  /\ listening.state = "idle"
              /\ listening' = [listening EXCEPT !.state = "listening", !.session = id,
                                                !.begun = id]
              /\ capture' = [capture EXCEPT !.sub = id, !.live = @ \cup {id}, !.lacks = {}]
              /\ Adds("start")
Pauses == listening.state = "listening" /\ Comes("paused") /\ UNCHANGED capture /\ Adds("pause")
Resumes == listening.state = "paused" /\ Comes("listening") /\ UNCHANGED capture
             /\ Adds("resume")
Stops == /\ listening.state \in Capturing /\ Comes("reviewing")
         /\ capture' = [capture EXCEPT !.script = "off"] /\ Adds("stop")
Closes == /\ listening.state = "reviewing" /\ ~listening.summarising
          /\ listening' = Ended(listening) /\ UNCHANGED capture /\ OpsKept
Rests == UNCHANGED <<listening, capture>> /\ OpsKept

Started == /\ \E mic \in {"on", capture.mic} :
                capture' = [capture EXCEPT !.mic = mic, !.script = "running",
                                           !.paused = FALSE]
           /\ UNCHANGED listening /\ Drops("start")
ScriptOver == /\ capture.script = "running" /\ capture' = [capture EXCEPT !.script = "over"]
              /\ UNCHANGED listening /\ OpsKept
Unstarted == /\ \E mic \in {"on", capture.mic}, more \in SUBSET {"window"} :
                  capture' = [capture EXCEPT !.mic = mic,
                                             !.lacks = @ \cup ({"transcript"} \cup more)]
             /\ UNCHANGED listening /\ Drops("start")
Paused == /\ capture' = [capture EXCEPT !.mic = MicPaused, !.paused = TRUE,
                                        !.lacks = @ \ {"pause"}]
          /\ UNCHANGED listening /\ Drops("pause")
Resumed == /\ capture' = [capture EXCEPT !.mic = MicResumed, !.paused = FALSE,
                                         !.lacks = @ \ {"pause"}]
           /\ UNCHANGED listening /\ Drops("resume")
Missed(at) == /\ \E mic \in {MicPaused, MicResumed, capture.mic} :
                   capture' = [capture EXCEPT !.mic = mic, !.lacks = @ \cup {"pause"}]
              /\ UNCHANGED listening /\ Drops(at)
Stopped == /\ capture' = [capture EXCEPT !.mic = "off", !.live = @ \ {capture.sub}]
           /\ UNCHANGED listening /\ Turns("stop", "unsubscribe")
Unsubscribed == /\ capture' = [capture EXCEPT !.sub = 0]
                /\ UNCHANGED listening /\ Drops("unsubscribe")

\* A summary is asked for, or it is over.
Summarises == /\ listening.state = "reviewing" /\ UNCHANGED capture /\ OpsKept
              /\ listening' = [listening EXCEPT !.summarising = TRUE]
Summarised == /\ Summaries(calls) # {}
              /\ Lone(calls, Waiting(calls)) => Summaries(calls') = {}
              /\ LET over == [listening EXCEPT !.summarising = FALSE]
                 IN  listening' = over \/ listening' = Ended(over)
              /\ UNCHANGED capture /\ OpsKept

SessionEffect ==
  \/ /\ NoSummaryAdded
     /\ \/ Begins \/ Pauses \/ Resumes \/ Stops \/ Closes \/ Rests
        \/ Started \/ Unstarted \/ ScriptOver \/ Paused \/ Resumed
        \/ Missed("pause") \/ Missed("resume") \/ Stopped \/ Unsubscribed
  \/ Summarises \/ Summarised

\* Hiding and showing the window are no operations on the audio, nor summaries.
LEMMA WindowCalls ==
  ASSUME NEW cs, IsCalls(cs), NEW ats, ats \cap {"hide", "show"} = {}
  PROVE  /\ \A l : IsCalls(CallsAfter(l, cs)) /\ At(CallsAfter(l, cs), ats) = At(cs, ats)
         /\ IsCalls(ThenShow(cs)) /\ At(ThenShow(cs), ats) = At(cs, ats)
BY AtPlus DEF CallsAfter, ThenShow

\* A notification with an operation on the audio added.
LEMMA NotifyAdds ==
  ASSUME NEW cs, IsCalls(cs), NEW at \in AudioOps, NEW by, NEW l,
         calls' = CallsAfter(l, Plus(cs, Call(at, by)))
  PROVE  /\ IsCalls(calls')
         /\ Lone(calls', Ops(calls')) =>
              Ops(cs) = {} /\ Ops(calls') = {Call(at, by)}
         /\ Summaries(calls') = Summaries(cs)
<1> DEFINE ds == Plus(cs, Call(at, by))
<1>1. IsCalls(ds) /\ Ops(ds) = Ops(cs) \cup {Call(at, by)} /\ Summaries(ds) = Summaries(cs)
  BY AtPlus DEF Ops, Summaries, AudioOps
<1>2. IsCalls(calls') /\ Ops(calls') = Ops(ds) /\ Summaries(calls') = Summaries(ds)
  BY <1>1, WindowCalls DEF Ops, Summaries, AudioOps
<1>3. ASSUME Lone(calls', Ops(calls'))
      PROVE  Ops(cs) = {} /\ Ops(calls') = {Call(at, by)}
  <2>1. \A call \in Ops(ds) : calls'[call] = ds[call]
    <3>1. CASE calls' = ds
      BY <3>1
    <3>2. CASE calls' = Plus(ds, Call("hide", "manager"))
      <4>1. \A call \in Ops(ds) : call # Call("hide", "manager") /\ call \in BagToSet(ds)
        BY CallFacts DEF Ops, At, AudioOps
      <4>2. QED
        BY <1>1, <3>2, <4>1, PlusCalls
    <3>3. QED
      BY <3>1, <3>2 DEF CallsAfter
  <2>2. Lone(ds, Ops(ds))
    BY <1>2, <1>3, <2>1 DEF Lone
  <2>3. QED
    BY <1>2, <2>2, LonePlus DEF Ops
<1>4. QED
  BY <1>1, <1>2, <1>3

\* A notification without one.
LEMMA NotifyKeeps ==
  ASSUME NEW cs, IsCalls(cs), NEW l, calls' = CallsAfter(l, cs)
  PROVE  IsCalls(calls') /\ Ops(calls') = Ops(cs) /\ Summaries(calls') = Summaries(cs)
BY WindowCalls DEF Ops, Summaries, AudioOps

\* Another call is added.
LEMMA OtherCall ==
  ASSUME NEW cs, IsCalls(cs), NEW at, at \notin AudioOps \cup {"summarise"}, NEW by,
         calls' = Plus(cs, Call(at, by))
  PROVE  IsCalls(calls') /\ Ops(calls') = Ops(cs) /\ Summaries(calls') = Summaries(cs)
BY AtPlus DEF Ops, Summaries

LEMMA UserSession ==
  ASSUME SessionTyped, User PROVE IsCalls(calls') /\ SessionEffect
<1> USE DEF SessionTyped
<1>1. CASE Start
  <2>1. \E l : calls' = CallsAfter(l, Plus(calls, Call("start", "user")))
    BY <1>1 DEF Start, StartListening, Notify
  <2>2. IsCalls(calls') /\ Adds("start") /\ NoSummaryAdded
    BY <2>1, NotifyAdds DEF Adds, NoSummaryAdded, AudioOps
  <2>3. QED
    BY <1>1, <2>2 DEF Start, StartListening, Notify, SessionEffect, Begins
<1>2. CASE Pause
  <2>1. \E l : calls' = CallsAfter(l, Plus(calls, Call("pause", "user")))
    BY <1>2 DEF Pause, Notify
  <2>2. IsCalls(calls') /\ Adds("pause") /\ NoSummaryAdded
    BY <2>1, NotifyAdds DEF Adds, NoSummaryAdded, AudioOps
  <2>3. QED
    BY <1>2, <2>2 DEF Pause, Notify, SessionEffect, Pauses, Comes
<1>3. CASE ResumeListening
  <2>1. \E l : calls' = CallsAfter(l, Plus(calls, Call("resume", "user")))
    BY <1>3 DEF ResumeListening, Notify
  <2>2. IsCalls(calls') /\ Adds("resume") /\ NoSummaryAdded
    BY <2>1, NotifyAdds DEF Adds, NoSummaryAdded, AudioOps
  <2>3. QED
    BY <1>3, <2>2 DEF ResumeListening, Notify, SessionEffect, Resumes, Comes
<1>4. CASE Stop
  <2>1. \E l : calls' = CallsAfter(l, Plus(calls, Call("stop", "user")))
    BY <1>4 DEF Stop, Notify
  <2>2. IsCalls(calls') /\ Adds("stop") /\ NoSummaryAdded
    BY <2>1, NotifyAdds DEF Adds, NoSummaryAdded, AudioOps
  <2>3. QED
    BY <1>4, <2>2 DEF Stop, Notify, SessionEffect, Stops, Comes
<1>5. CASE Summarise
  <2>1. CASE Notify([listening EXCEPT !.summarising = TRUE],
                    Plus(calls, Call("summarise", "user")))
    <3> DEFINE ds == Plus(calls, Call("summarise", "user"))
    <3>1. IsCalls(ds) /\ Ops(ds) = Ops(calls)
      BY AtPlus DEF Ops, AudioOps
    <3>2. IsCalls(calls') /\ OpsKept
      BY <2>1, <3>1, NotifyKeeps DEF Notify, OpsKept
    <3>3. QED
      BY <1>5, <2>1, <3>2 DEF Summarise, Notify, SessionEffect, Summarises
  <2>2. CASE calls' = Plus(calls, Call("note", "user")) /\ UNCHANGED listening
    <3>1. IsCalls(calls') /\ OpsKept /\ NoSummaryAdded
      BY <2>2, OtherCall DEF OpsKept, NoSummaryAdded, AudioOps
    <3>2. QED
      BY <1>5, <2>2, <3>1 DEF Summarise, SessionEffect, Rests
  <2>3. QED
    BY <1>5, <2>1, <2>2 DEF Summarise
<1>6. CASE Close
  <2>1. IsCalls(calls') /\ OpsKept /\ NoSummaryAdded
    BY <1>6, NotifyKeeps DEF Close, Notify, OpsKept, NoSummaryAdded
  <2>2. QED
    BY <1>6, <2>1 DEF Close, Notify, SessionEffect, Closes
<1>7. CASE ScriptEnds
  BY <1>7 DEF ScriptEnds, SessionEffect, ScriptOver, OpsKept, NoSummaryAdded
<1>8. QED
  BY <1>1, <1>2, <1>3, <1>4, <1>5, <1>6, <1>7 DEF User

LEMMA TrackerSession ==
  ASSUME SessionTyped, Tracker PROVE IsCalls(calls') /\ SessionEffect
<1> USE DEF SessionTyped
<1>1. ASSUME UNCHANGED <<listening, capture>>,
             \/ calls' = calls
             \/ calls' = Plus(calls, Call("cancel", "manager"))
             \/ calls' = Plus(calls, Call("settings", "user"))
      PROVE  IsCalls(calls') /\ SessionEffect
  <2>1. IsCalls(calls') /\ OpsKept /\ NoSummaryAdded
    BY <1>1, OtherCall DEF OpsKept, NoSummaryAdded, AudioOps
  <2>2. QED
    BY <1>1, <2>1 DEF SessionEffect, Rests
<1>2. ASSUME NEW m \in Meetings, Detected(m) PROVE IsCalls(calls') /\ SessionEffect
  BY <1>1, <1>2 DEF Detected, StartTracking
<1>3. CASE Accept
  BY <1>1, <1>3 DEF Accept, StartTracking
<1>4. CASE Dismiss
  BY <1>1, <1>4 DEF Dismiss
<1>5. CASE UpdateSettings
  BY <1>1, <1>5 DEF UpdateSettings
<1>6. CASE Finalize
  <2>1. CASE listening.state \in Capturing
    <3>1. calls' = Plus(calls, Call("stop", "manager"))
      BY <1>6, <2>1 DEF Finalize
    <3>2. IsCalls(calls') /\ Adds("stop") /\ NoSummaryAdded
      BY <3>1, AtPlus, LonePlus DEF Adds, NoSummaryAdded, Ops, Summaries, AudioOps
    <3>3. QED
      BY <1>6, <2>1, <3>2 DEF Finalize, SessionEffect, Stops, Comes
  <2>2. CASE listening.state \notin Capturing
    <3>1. Notify(listening, calls) /\ UNCHANGED capture
      BY <1>6, <2>2 DEF Finalize
    <3>2. IsCalls(calls') /\ OpsKept /\ NoSummaryAdded
      BY <3>1, NotifyKeeps DEF Notify, OpsKept, NoSummaryAdded
    <3>3. QED
      BY <3>1, <3>2 DEF Notify, SessionEffect, Rests
  <2>3. QED
    BY <2>1, <2>2
<1>7. QED
  BY <1>2, <1>3, <1>4, <1>5, <1>6 DEF Tracker

LEMMA GoesOnSession ==
  ASSUME SessionTyped, NEW call \in BagToSet(calls), GoesOn(call)
  PROVE  IsCalls(calls') /\ SessionEffect
<1> USE DEF SessionTyped
<1> DEFINE cs == calls (-) SetToBag({call})
<1>1. /\ IsCalls(cs) /\ Ops(cs) \subseteq Ops(calls) /\ Summaries(cs) \subseteq Summaries(calls)
      /\ call.at \notin AudioOps => Ops(cs) = Ops(calls)
      /\ call.at \in AudioOps => /\ call \in Ops(calls)
                                 /\ Lone(calls, Ops(calls)) => Ops(cs) = {}
  BY AtMinus DEF Ops, Summaries, At
<1> HIDE DEF cs
<1>2. ASSUME UNCHANGED <<listening, capture>>, call.at \notin AudioOps,
             calls' = cs \/ calls' = ThenShow(cs)
      PROVE  IsCalls(calls') /\ SessionEffect
  <2>1. IsCalls(calls') /\ Ops(calls') = Ops(cs) /\ Summaries(calls') = Summaries(cs)
    BY <1>1, <1>2, WindowCalls DEF Ops, Summaries, AudioOps
  <2>2. QED
    BY <1>1, <1>2, <2>1 DEF SessionEffect, Rests, OpsKept, NoSummaryAdded
<1>3. CASE call.at = "cancel" /\ CancelDone(cs)
  <2>1. CASE StartListening("manager", cs)
    <3>1. \E l : calls' = CallsAfter(l, Plus(cs, Call("start", "manager")))
      BY <2>1 DEF StartListening, Notify
    <3>2. IsCalls(calls') /\ Adds("start") /\ NoSummaryAdded
      BY <1>1, <1>3, <3>1, NotifyAdds DEF Adds, NoSummaryAdded, AudioOps
    <3>3. QED
      BY <2>1, <3>2 DEF StartListening, Notify, SessionEffect, Begins
  <2>2. QED
    BY <1>2, <1>3, <2>1 DEF CancelDone, AudioOps
<1>4. CASE call.at = "start" /\ StartFails(cs, call.by)
  <2>1. Drops("start") /\ NoSummaryAdded /\ IsCalls(calls')
    BY <1>1, <1>4 DEF StartFails, Drops, NoSummaryAdded, AudioOps
  <2>2. /\ {"transcript", "window"} = {"transcript"} \cup {"window"}
        /\ {"transcript"} = {"transcript"} \cup {}
    OBVIOUS
  <2>3. \E mic \in {"on", capture.mic}, more \in SUBSET {"window"} :
          capture' = [capture EXCEPT !.mic = mic,
                                     !.lacks = @ \cup ({"transcript"} \cup more)]
    <3>1. PICK mic \in {"on", capture.mic} :
            capture' = [capture EXCEPT !.mic = mic,
                          !.lacks = @ \cup IF call.by = "manager" THEN {"transcript", "window"}
                                           ELSE {"transcript"}]
      BY <1>4 DEF StartFails
    <3>2. QED
      BY <2>2, <3>1
  <2>4. Unstarted
    BY <1>4, <2>1, <2>3 DEF StartFails, Unstarted
  <2>5. QED
    BY <2>1, <2>4 DEF SessionEffect
<1>13. CASE call.at = "start" /\ StartDone(cs, call.by)
  <2>1. calls' = CallsAfter(listening, cs) \/ calls' = ThenShow(CallsAfter(listening, cs))
    BY <1>13 DEF StartDone
  <2>2. IsCalls(calls') /\ Ops(calls') = Ops(cs) /\ Summaries(calls') = Summaries(cs)
    BY <1>1, <2>1, WindowCalls DEF Ops, Summaries, AudioOps
  <2>3. Drops("start") /\ NoSummaryAdded
    BY <1>1, <1>13, <2>2 DEF Drops, NoSummaryAdded, AudioOps
  <2>4. Started
    BY <1>13, <2>3 DEF StartDone, Started
  <2>5. QED
    BY <2>2, <2>3, <2>4 DEF SessionEffect
<1>5. CASE call.at \in {"show", "hide", "settings"} /\ calls' = cs
           /\ UNCHANGED <<listening, capture>>
  BY <1>2, <1>5 DEF AudioOps
<1>6. CASE call.at = "pause" /\ PauseDone(cs)
  BY <1>1, <1>6 DEF PauseDone, Paused, Drops, NoSummaryAdded, AudioOps, SessionEffect
<1>7. CASE call.at = "resume" /\ ResumeDone(cs)
  BY <1>1, <1>7 DEF ResumeDone, Resumed, Drops, NoSummaryAdded, AudioOps, SessionEffect
<1>14. CASE \/ call.at = "pause" /\ PauseFails(cs)
            \/ call.at = "resume" /\ ResumeFails(cs)
  <2>1. Missed(call.at) /\ NoSummaryAdded /\ IsCalls(calls')
    BY <1>1, <1>14 DEF PauseFails, ResumeFails, Missed, Drops, NoSummaryAdded, AudioOps
  <2>2. QED
    BY <1>14, <2>1 DEF SessionEffect
<1>8. CASE call.at = "stop" /\ StopDone(cs, call.by)
  <2>1. calls' = Plus(cs, Call("unsubscribe", call.by))
    BY <1>8 DEF StopDone
  <2>2. IsCalls(calls') /\ Turns("stop", "unsubscribe") /\ NoSummaryAdded
    BY <1>1, <1>8, <2>1, AtPlus, LonePlus
       DEF Turns, NoSummaryAdded, Ops, Summaries, AudioOps
  <2>3. QED
    BY <1>8, <2>2 DEF StopDone, Stopped, SessionEffect
<1>9. CASE call.at = "unsubscribe" /\ UnsubscribeDone(cs, call.by)
  <2>1. calls' = cs \/ calls' = Plus(cs, Call("hide", "manager"))
    BY <1>9 DEF UnsubscribeDone
  <2>2. IsCalls(calls') /\ Ops(calls') = Ops(cs) /\ Summaries(calls') = Summaries(cs)
    BY <1>1, <2>1, AtPlus DEF Ops, Summaries, AudioOps
  <2>3. Drops("unsubscribe") /\ NoSummaryAdded
    BY <1>1, <1>9, <2>2 DEF Drops, NoSummaryAdded, AudioOps
  <2>4. QED
    BY <1>9, <2>2, <2>3 DEF UnsubscribeDone, Unsubscribed, SessionEffect
<1>10. CASE call.at = "note" /\ NoteDone(cs)
  <2>1. CASE /\ listening.state = "reviewing"
             /\ Notify([listening EXCEPT !.summarising = TRUE],
                       Plus(cs, Call("summarise", "user")))
    <3> DEFINE ds == Plus(cs, Call("summarise", "user"))
    <3>1. IsCalls(ds) /\ Ops(ds) = Ops(cs)
      BY <1>1, AtPlus DEF Ops, AudioOps
    <3>2. IsCalls(calls') /\ OpsKept
      BY <1>1, <1>10, <2>1, <3>1, NotifyKeeps DEF Notify, OpsKept, AudioOps
    <3>3. QED
      BY <1>10, <2>1, <3>2 DEF NoteDone, Notify, SessionEffect, Summarises
  <2>2. CASE calls' = cs /\ UNCHANGED listening
    BY <1>2, <1>10, <2>2 DEF NoteDone, AudioOps
  <2>3. QED
    BY <1>10, <2>1, <2>2 DEF NoteDone
<1>11. CASE call.at = "summarise" /\ SummariseDone(cs)
  <2>1. calls' = CallsAfter(listening', cs)
    BY <1>11 DEF SummariseDone, Notify
  <2>2. IsCalls(calls') /\ Ops(calls') = Ops(cs) /\ Summaries(calls') = Summaries(cs)
    BY <1>1, <2>1, NotifyKeeps
  <2>3. call \in Summaries(calls)
    BY <1>11 DEF Summaries, At
  <2>4. Lone(calls, Waiting(calls)) => Summaries(cs) = {}
    <3>1. Lone(calls, Waiting(calls)) => Waiting(cs) = {}
      BY <1>11, AtMinus DEF Waiting, cs
    <3>2. QED
      BY <3>1 DEF Waiting, Summaries, At
  <2>5. QED
    BY <1>1, <1>11, <2>2, <2>3, <2>4
       DEF SummariseDone, Notify, SessionEffect, Summarised, OpsKept, AudioOps
<1>12. QED
  BY <1>3, <1>4, <1>5, <1>6, <1>7, <1>8, <1>9, <1>10, <1>11, <1>13, <1>14
     DEF GoesOn, ShowDone, HideDone, SettingsDone, cs

LEMMA StepSession ==
  ASSUME SessionTyped, Next PROVE IsCalls(calls') /\ SessionEffect
BY UserSession, TrackerSession, GoesOnSession DEF Next, GoOn

------------------------------------------------------------------------------
(* The invariant of the session *)

\* The only subscription is that of the session.
Heard == capture.sub = listening.session /\ capture.live = {listening.session}

\* The pauses of microphone and transcript are those of the session.
InStep == /\ capture.mic = "on" => listening.state = "listening"
          /\ capture.mic = "paused" => listening.state = "paused"
          /\ capture.script # "off" => capture.paused = (listening.state = "paused")

\* The session is captured, as far as the recorder let it be.
Captured == /\ listening.state \in Capturing /\ Heard
            /\ "transcript" \notin capture.lacks => capture.script # "off"

\* What the property says of the audio when no operation on it is under way.
Settled ==
  /\ "pause" \notin capture.lacks => InStep
  /\ \/ Captured
     \/ /\ listening.state \notin Capturing /\ capture.live = {}
        /\ capture.mic = "off" /\ capture.script = "off"

\* And while one is.
Released == listening.state \notin Capturing /\ capture.script = "off"
During(at) ==
  /\ at = "start" => /\ listening.state = "listening" /\ Heard
                     /\ capture.mic = "off" /\ capture.script = "off"
                     /\ capture.lacks = {}
  /\ at = "pause" => listening.state = "paused" /\ Captured
  /\ at = "resume" => listening.state = "listening" /\ Captured
  /\ at = "stop" => Released /\ capture.live \subseteq {capture.sub}
  /\ at = "unsubscribe" => Released /\ capture.mic = "off" /\ capture.live = {}

\* One summary at a time: while the engine makes it the session stays in review.
SummaryKeeps ==
  "summary" \notin races =>
    /\ Lone(calls, Waiting(calls))
    /\ Summaries(calls) # {} => listening.state = "reviewing" /\ listening.summarising

\* One operation at a time: the audio is what the session and that operation say.
AudioKeeps ==
  races \cap {"audio", "summary"} = {} =>
    /\ Lone(calls, Ops(calls))
    /\ Ops(calls) = {} => Settled
    /\ \A call \in Ops(calls) : During(call.at)

CaptureInv == SessionTyped /\ SummaryKeeps /\ AudioKeeps

LEMMA CaptureInit == Init => CaptureInv
<1> SUFFICES ASSUME Init PROVE CaptureInv
  OBVIOUS
<1>1. BagToSet(calls) = {} /\ IsCalls(calls)
  BY DEF Init, EmptyBag, SetToBag, BagToSet, IsCalls
<1>2. SessionTyped
  BY <1>1 DEF Init, SessionTyped, SessionRecord, CaptureRecord
<1>3. QED
  BY <1>1, <1>2 DEF Init, CaptureInv, SummaryKeeps, AudioKeeps, Lone, Ops, Waiting, Summaries,
                    At, Settled, InStep, Capturing

\* What is not recorded as a race did not happen.
LEMMA NoRace ==
  ASSUME Races, IsCalls(calls')
  PROVE  /\ "summary" \notin races' => "summary" \notin races /\ Lone(calls', Waiting(calls'))
         /\ "audio" \notin races' => "audio" \notin races /\ Lone(calls', Ops(calls'))
<1>1. ASSUME NEW ats, ~Several(Under(ats))
      PROVE  Lone(calls', At(calls', ats))
  BY <1>1 DEF Several, Under, Lone, At, IsCalls, BagToSet
<1>2. /\ races \subseteq races'
      /\ Several(Under(AudioOps)) => "audio" \in races'
      /\ Several(Under({"note", "summarise"})) => "summary" \in races'
  BY DEF Races
<1>3. QED
  BY <1>1, <1>2 DEF Waiting, Ops

LEMMA TypedStep ==
  ASSUME SessionTyped, IsCalls(calls'), SessionEffect PROVE SessionTyped'
<1>0. /\ listening \in SessionRecord /\ capture \in CaptureRecord
      /\ listening.state = "idle" => listening.session = 0
  BY DEF SessionTyped
<1>1. listening' \in SessionRecord /\ (listening'.state = "idle" => listening'.session = 0)
  <2>1. CASE Begins
    <3> DEFINE id == listening.begun + 1
    <3>1. id \in Nat
      BY <1>0 DEF SessionRecord
    <3>2. listening' = [listening EXCEPT !.state = "listening", !.session = id, !.begun = id]
      BY <2>1 DEF Begins
    <3> HIDE DEF id
    <3>3. QED
      BY <1>0, <3>1, <3>2 DEF SessionRecord
  <2>2. ASSUME NEW s \in {"paused", "listening", "reviewing"}, Comes(s)
        PROVE  listening' \in SessionRecord /\ listening'.state # "idle"
    BY <1>0, <2>2 DEF Comes, SessionRecord
  <2>3. CASE Pauses \/ Resumes \/ Stops
    BY <2>2, <2>3 DEF Pauses, Resumes, Stops
  <2>4. CASE Closes \/ Summarises \/ Summarised
    <3>1. [listening EXCEPT !.summarising = TRUE] \in SessionRecord
          /\ [listening EXCEPT !.summarising = TRUE].state = listening.state
      BY <1>0 DEF SessionRecord
    <3>2. /\ [listening EXCEPT !.summarising = FALSE] \in SessionRecord
          /\ [listening EXCEPT !.summarising = FALSE].state = listening.state
          /\ [listening EXCEPT !.summarising = FALSE].session = listening.session
      BY <1>0 DEF SessionRecord
    <3>3. ASSUME NEW l \in SessionRecord
          PROVE  Ended(l) \in SessionRecord /\ Ended(l).session = 0
      BY DEF Ended, SessionRecord
    <3>4. QED
      BY <1>0, <2>4, <3>1, <3>2, <3>3 DEF Closes, Summarises, Summarised
  <2>5. CASE UNCHANGED listening
    BY <1>0, <2>5
  <2>6. QED
    BY <2>1, <2>3, <2>4, <2>5
       DEF SessionEffect, Rests, Started, Unstarted, ScriptOver, Paused, Resumed, Missed,
           Stopped, Unsubscribed
<1>2. capture' \in CaptureRecord
  <2>1. CASE Begins
    <3> DEFINE id == listening.begun + 1
    <3>1. id \in Nat
      BY <1>0 DEF SessionRecord
    <3>2. capture' = [capture EXCEPT !.sub = id, !.live = @ \cup {id}, !.lacks = {}]
      BY <2>1 DEF Begins
    <3> HIDE DEF id
    <3>3. QED
      BY <1>0, <3>1, <3>2 DEF CaptureRecord
  <2>2. CASE Stops \/ ScriptOver
    BY <1>0, <2>2 DEF Stops, ScriptOver, CaptureRecord
  <2>3. CASE Started
    <3>1. PICK mic \in {"on", capture.mic} :
            capture' = [capture EXCEPT !.mic = mic, !.script = "running", !.paused = FALSE]
      BY <2>3 DEF Started
    <3>2. mic \in {"off", "on", "paused"}
      BY <1>0 DEF CaptureRecord
    <3>3. QED
      BY <1>0, <3>1, <3>2 DEF CaptureRecord
  <2>4. CASE Paused \/ Resumed \/ Missed("pause") \/ Missed("resume")
    <3> DEFINE without == capture.lacks \ {"pause"}
               with == capture.lacks \cup {"pause"}
               lacking == SUBSET {"transcript", "window", "pause"}
    <3>1. {MicPaused, MicResumed, capture.mic} \subseteq {"off", "on", "paused"}
      BY <1>0 DEF MicPaused, MicResumed, CaptureRecord
    <3>2. without \in lacking /\ with \in lacking
      <4>1. capture.lacks \in lacking
        BY <1>0 DEF CaptureRecord
      <4>2. QED
        BY <4>1
    <3>3. ASSUME NEW mic \in {"off", "on", "paused"}, NEW p \in BOOLEAN, NEW lacks \in lacking
          PROVE  [capture EXCEPT !.mic = mic, !.paused = p, !.lacks = lacks] \in CaptureRecord
      BY <1>0 DEF CaptureRecord
    <3>4. ASSUME NEW mic \in {"off", "on", "paused"}, NEW lacks \in lacking
          PROVE  [capture EXCEPT !.mic = mic, !.lacks = lacks] \in CaptureRecord
      BY <1>0 DEF CaptureRecord
    <3>5. CASE Paused
      <4>1. capture' = [capture EXCEPT !.mic = MicPaused, !.paused = TRUE, !.lacks = without]
        BY <3>5 DEF Paused
      <4> HIDE DEF without, lacking
      <4>2. QED
        BY <3>1, <3>2, <3>3, <4>1
    <3>6. CASE Resumed
      <4>1. capture' = [capture EXCEPT !.mic = MicResumed, !.paused = FALSE, !.lacks = without]
        BY <3>6 DEF Resumed
      <4> HIDE DEF without, lacking
      <4>2. QED
        BY <3>1, <3>2, <3>3, <4>1
    <3>7. ASSUME NEW at, Missed(at) PROVE capture' \in CaptureRecord
      <4>1. PICK mic \in {MicPaused, MicResumed, capture.mic} :
              capture' = [capture EXCEPT !.mic = mic, !.lacks = with]
        BY <3>7 DEF Missed
      <4> HIDE DEF with, lacking
      <4>2. QED
        BY <3>1, <3>2, <3>4, <4>1
    <3>8. QED
      BY <2>4, <3>5, <3>6, <3>7
  <2>9. CASE Unstarted
    <3>1. PICK mic \in {"on", capture.mic}, more \in SUBSET {"window"} :
            capture' = [capture EXCEPT !.mic = mic,
                                       !.lacks = @ \cup ({"transcript"} \cup more)]
      BY <2>9 DEF Unstarted
    <3>2. mic \in {"off", "on", "paused"}
      BY <1>0 DEF CaptureRecord
    <3>3. QED
      BY <1>0, <3>1, <3>2 DEF CaptureRecord
  <2>5. CASE Stopped
    BY <1>0, <2>5 DEF Stopped, CaptureRecord
  <2>6. CASE Unsubscribed
    BY <1>0, <2>6 DEF Unsubscribed, CaptureRecord
  <2>7. CASE UNCHANGED capture
    BY <1>0, <2>7
  <2>8. QED
    BY <2>1, <2>2, <2>3, <2>4, <2>5, <2>6, <2>7, <2>9
       DEF SessionEffect, Rests, Pauses, Resumes, Closes, Summarises, Summarised
<1>3. QED
  BY <1>1, <1>2 DEF SessionTyped, IsCalls

\* Nothing but asking for a summary and its end touches one that is under way.
LEMMA SummaryStep ==
  ASSUME CaptureInv, IsCalls(calls'), SessionEffect, Races PROVE SummaryKeeps'
<1> SUFFICES ASSUME "summary" \notin races'
             PROVE  /\ Lone(calls', Waiting(calls'))
                    /\ Summaries(calls') # {} =>
                         listening'.state = "reviewing" /\ listening'.summarising
  BY DEF SummaryKeeps, Lone, Waiting, Summaries, At, BagToSet
<1>1. Lone(calls', Waiting(calls')) /\ "summary" \notin races
  BY NoRace
<1>2. /\ Lone(calls, Waiting(calls)) /\ listening \in SessionRecord
      /\ Summaries(calls) # {} => listening.state = "reviewing" /\ listening.summarising
  BY <1>1 DEF CaptureInv, SummaryKeeps, SessionTyped
<1>3. CASE Summarises
  BY <1>1, <1>2, <1>3 DEF Summarises, SessionRecord
<1>4. CASE Summarised
  BY <1>1, <1>2, <1>4 DEF Summarised
<1>5. CASE NoSummaryAdded /\ UNCHANGED listening
  BY <1>1, <1>2, <1>5 DEF NoSummaryAdded
<1>6. CASE /\ NoSummaryAdded
           /\ listening.state # "reviewing" \/ ~listening.summarising
  BY <1>1, <1>2, <1>6 DEF NoSummaryAdded
<1>7. QED
  BY <1>3, <1>4, <1>5, <1>6
     DEF SessionEffect, Begins, Pauses, Resumes, Stops, Closes, Rests, Started, Unstarted,
         ScriptOver, Paused, Resumed, Missed, Stopped, Unsubscribed, Capturing

LEMMA AudioStep ==
  ASSUME CaptureInv, IsCalls(calls'), SessionEffect, Races PROVE AudioKeeps'
<1> SUFFICES ASSUME races' \cap {"audio", "summary"} = {}
             PROVE  /\ Lone(calls', Ops(calls'))
                    /\ Ops(calls') = {} => Settled'
                    /\ \A call \in Ops(calls') : (During(call.at))'
  BY DEF AudioKeeps, Lone, Ops, At, BagToSet
<1>1. Lone(calls', Ops(calls')) /\ races \cap {"audio", "summary"} = {}
  BY NoRace
<1>2. /\ Lone(calls, Ops(calls))
      /\ Ops(calls) = {} => Settled
      /\ \A call \in Ops(calls) : During(call.at)
      /\ listening \in SessionRecord /\ capture \in CaptureRecord
  BY <1>1 DEF CaptureInv, AudioKeeps, SessionTyped
<1>3. Summaries(calls) # {} => listening.state = "reviewing"
  BY <1>1 DEF CaptureInv, SummaryKeeps
\* The operation that is under way afterwards, and how the state stands to it.
<1>4. ASSUME NEW at, \E by : Ops(calls') = {Call(at, by)}, (During(at))'
      PROVE  /\ Ops(calls') = {} => Settled'
             /\ \A call \in Ops(calls') : (During(call.at))'
  <2>1. \A call \in Ops(calls') : call.at = at
    BY <1>4, CallFacts
  <2>2. Ops(calls') # {}
    BY <1>4
  <2>3. QED
    BY <1>4, <2>1, <2>2 DEF During, Heard, Captured, Released
<1>5. CASE Begins
  <2> DEFINE id == listening.begun + 1
  <2>1. /\ id \in Nat /\ listening.state = "idle"
        /\ listening' = [listening EXCEPT !.state = "listening", !.session = id, !.begun = id]
        /\ capture' = [capture EXCEPT !.sub = id, !.live = @ \cup {id}, !.lacks = {}]
    BY <1>2, <1>5 DEF Begins, SessionRecord
  <2> HIDE DEF id
  <2>2. Ops(calls) = {} /\ \E by : Ops(calls') = {Call("start", by)}
    BY <1>1, <1>5 DEF Begins, Adds
  <2>3. /\ capture.mic = "off" /\ capture.script = "off" /\ capture.live = {}
    BY <1>2, <2>1, <2>2 DEF Settled, Captured, Capturing
  <2>4. /\ listening'.state = "listening" /\ listening'.session = id
        /\ capture'.sub = id /\ capture'.live = {id}
        /\ capture'.mic = "off" /\ capture'.script = "off" /\ capture'.lacks = {}
    BY <1>2, <2>1, <2>3 DEF SessionRecord, CaptureRecord
  <2>5. (During("start"))'
    BY <2>4 DEF During, Heard
  <2>6. QED
    BY <1>1, <1>4, <2>2, <2>5
<1>6. CASE Pauses
  <2>1. /\ listening.state = "listening" /\ Comes("paused") /\ capture' = capture
        /\ Ops(calls) = {} /\ \E by : Ops(calls') = {Call("pause", by)}
    BY <1>1, <1>6 DEF Pauses, Adds
  <2>2. Settled
    BY <1>2, <2>1
  <2>3. listening'.state = "paused" /\ listening'.session = listening.session
    BY <1>2, <2>1 DEF Comes, SessionRecord
  <2>4. (During("pause"))'
    BY <2>1, <2>2, <2>3 DEF During, Captured, Heard, Settled, Capturing
  <2>5. QED
    BY <1>1, <1>4, <2>1, <2>4
<1>7. CASE Resumes
  <2>1. /\ listening.state = "paused" /\ Comes("listening") /\ capture' = capture
        /\ Ops(calls) = {} /\ \E by : Ops(calls') = {Call("resume", by)}
    BY <1>1, <1>7 DEF Resumes, Adds
  <2>2. Settled
    BY <1>2, <2>1
  <2>3. listening'.state = "listening" /\ listening'.session = listening.session
    BY <1>2, <2>1 DEF Comes, SessionRecord
  <2>4. (During("resume"))'
    BY <2>1, <2>2, <2>3 DEF During, Captured, Heard, Settled, Capturing
  <2>5. QED
    BY <1>1, <1>4, <2>1, <2>4
<1>8. CASE Stops
  <2>1. /\ listening.state \in Capturing /\ Comes("reviewing")
        /\ capture' = [capture EXCEPT !.script = "off"]
        /\ Ops(calls) = {} /\ \E by : Ops(calls') = {Call("stop", by)}
    BY <1>1, <1>8 DEF Stops, Adds
  <2>2. Settled
    BY <1>2, <2>1
  <2>3. /\ listening'.state = "reviewing" /\ capture'.script = "off"
        /\ capture'.live = capture.live /\ capture'.sub = capture.sub
    BY <1>2, <2>1 DEF Comes, SessionRecord, CaptureRecord
  <2>4. (During("stop"))'
    BY <2>1, <2>2, <2>3 DEF During, Captured, Heard, Settled, Released, Capturing
  <2>5. QED
    BY <1>1, <1>4, <2>1, <2>4
<1>9. CASE OpsKept /\ UNCHANGED <<listening, capture>>
  BY <1>1, <1>2, <1>9 DEF OpsKept, Settled, InStep, Captured, Heard, During, Released
<1>10. CASE /\ OpsKept /\ UNCHANGED capture /\ listening.state = "reviewing"
            /\ listening'.state \in {"idle", "reviewing"}
  <2>1. Settled => Settled'
    BY <1>10 DEF Settled, InStep, Captured, Capturing
  <2>2. \A call \in Ops(calls) : During(call.at) => (During(call.at))'
    BY <1>10 DEF During, Captured, Released, Capturing
  <2>3. QED
    BY <1>1, <1>2, <1>10, <2>1, <2>2 DEF OpsKept
<1>11. CASE Started
  <2>1. PICK mic \in {"on", capture.mic} :
          capture' = [capture EXCEPT !.mic = mic, !.script = "running", !.paused = FALSE]
    BY <1>11 DEF Started
  <2>2. Ops(calls') = {} /\ listening' = listening /\ \E call \in Ops(calls) : call.at = "start"
    BY <1>2, <1>11 DEF Started, Drops
  <2>3. During("start")
    BY <1>2, <2>2
  <2>4. /\ capture'.mic \in {"on", "off"} /\ capture'.script = "running"
        /\ capture'.paused = FALSE
        /\ capture'.live = capture.live /\ capture'.sub = capture.sub
    BY <1>2, <2>1, <2>3 DEF During, CaptureRecord
  <2>5. Settled'
    BY <2>2, <2>3, <2>4 DEF During, Heard, Settled, InStep, Captured, Capturing
  <2>6. QED
    BY <1>1, <2>2, <2>5
<1>19. CASE Unstarted
  <2>1. PICK mic \in {"on", capture.mic}, more \in SUBSET {"window"} :
          capture' = [capture EXCEPT !.mic = mic,
                                     !.lacks = @ \cup ({"transcript"} \cup more)]
    BY <1>19 DEF Unstarted
  <2>2. Ops(calls') = {} /\ listening' = listening /\ \E call \in Ops(calls) : call.at = "start"
    BY <1>2, <1>19 DEF Unstarted, Drops
  <2>3. During("start")
    BY <1>2, <2>2
  <2>4. /\ capture'.mic \in {"on", "off"} /\ capture'.script = "off"
        /\ "transcript" \in capture'.lacks
        /\ capture'.live = capture.live /\ capture'.sub = capture.sub
    BY <1>2, <2>1, <2>3 DEF During, CaptureRecord
  <2>5. Settled'
    BY <2>2, <2>3, <2>4 DEF During, Heard, Settled, InStep, Captured, Capturing
  <2>6. QED
    BY <1>1, <2>2, <2>5
<1>20. ASSUME NEW at \in {"pause", "resume"}, Missed(at)
       PROVE  /\ Ops(calls') = {} => Settled'
              /\ \A call \in Ops(calls') : (During(call.at))'
  <2>1. Ops(calls') = {} /\ listening' = listening /\ During(at)
    BY <1>2, <1>20 DEF Missed, Drops
  <2>2. /\ "pause" \in capture'.lacks /\ capture'.script = capture.script
        /\ "transcript" \in capture.lacks => "transcript" \in capture'.lacks
        /\ capture'.live = capture.live /\ capture'.sub = capture.sub
    BY <1>2, <1>20 DEF Missed, CaptureRecord
  <2>3. Captured
    BY <1>20, <2>1 DEF During
  <2>4. Settled'
    BY <2>1, <2>2, <2>3 DEF Heard, Settled, Captured
  <2>5. QED
    BY <2>1, <2>4
<1>12. CASE ScriptOver
  <2>1. /\ capture.script = "running" /\ capture'.script = "over"
        /\ capture'.mic = capture.mic /\ capture'.paused = capture.paused
        /\ capture'.lacks = capture.lacks
        /\ capture'.live = capture.live /\ capture'.sub = capture.sub
        /\ listening' = listening /\ OpsKept
    BY <1>2, <1>12 DEF ScriptOver, CaptureRecord
  <2>2. Settled => Settled'
    BY <2>1 DEF Settled, InStep, Captured, Heard
  <2>3. \A call \in Ops(calls) : During(call.at) => (During(call.at))'
    BY <2>1 DEF During, Captured, Heard, Released
  <2>4. QED
    BY <1>1, <1>2, <2>1, <2>2, <2>3 DEF OpsKept
<1>13. CASE Paused
  <2>1. Ops(calls') = {} /\ listening' = listening /\ During("pause")
    BY <1>2, <1>13 DEF Paused, Drops
  <2>2. /\ capture'.mic = MicPaused
        /\ capture'.paused = TRUE /\ capture'.script = capture.script
        /\ capture'.lacks = capture.lacks \ {"pause"}
        /\ capture'.live = capture.live /\ capture'.sub = capture.sub
    BY <1>2, <1>13 DEF Paused, CaptureRecord
  <2>3. Settled'
    BY <1>2, <2>1, <2>2
       DEF During, Heard, Settled, InStep, Captured, Capturing, MicPaused, CaptureRecord
  <2>4. QED
    BY <1>1, <2>1, <2>3
<1>14. CASE Resumed
  <2>1. Ops(calls') = {} /\ listening' = listening /\ During("resume")
    BY <1>2, <1>14 DEF Resumed, Drops
  <2>2. /\ capture'.mic = MicResumed
        /\ capture'.paused = FALSE /\ capture'.script = capture.script
        /\ capture'.lacks = capture.lacks \ {"pause"}
        /\ capture'.live = capture.live /\ capture'.sub = capture.sub
    BY <1>2, <1>14 DEF Resumed, CaptureRecord
  <2>3. Settled'
    BY <1>2, <2>1, <2>2
       DEF During, Heard, Settled, InStep, Captured, Capturing, MicResumed, CaptureRecord
  <2>4. QED
    BY <1>1, <2>1, <2>3
<1>15. CASE Stopped
  <2>1. /\ listening' = listening /\ During("stop")
        /\ \E by : Ops(calls') = {Call("unsubscribe", by)}
    BY <1>1, <1>2, <1>15 DEF Stopped, Turns
  <2>2. /\ capture'.mic = "off" /\ capture'.script = capture.script
        /\ capture'.live = capture.live \ {capture.sub}
    BY <1>2, <1>15 DEF Stopped, CaptureRecord
  <2>3. (During("unsubscribe"))'
    BY <2>1, <2>2 DEF During, Released
  <2>4. QED
    BY <1>1, <1>4, <2>1, <2>3
<1>16. CASE Unsubscribed
  <2>1. Ops(calls') = {} /\ listening' = listening /\ During("unsubscribe")
    BY <1>2, <1>16 DEF Unsubscribed, Drops
  <2>2. /\ capture'.mic = capture.mic /\ capture'.script = capture.script
        /\ capture'.live = capture.live
    BY <1>2, <1>16 DEF Unsubscribed, CaptureRecord
  <2>3. Settled'
    BY <2>1, <2>2 DEF During, Settled, InStep, Released
  <2>4. QED
    BY <1>1, <2>1, <2>3
<1>17. CASE Closes \/ Summarises \/ Summarised
  <2>1. listening.state = "reviewing" /\ OpsKept /\ UNCHANGED capture
    BY <1>3, <1>17 DEF Closes, Summarises, Summarised
  <2>2. listening'.state \in {"idle", "reviewing"}
    BY <1>2, <1>17, <2>1 DEF Closes, Summarises, Summarised, Ended, SessionRecord
  <2>3. QED
    BY <1>1, <1>10, <2>1, <2>2
<1>18. QED
  <2>1. \/ Begins \/ Pauses \/ Resumes \/ Stops \/ Closes \/ Rests
        \/ Started \/ Unstarted \/ ScriptOver \/ Paused \/ Resumed
        \/ Missed("pause") \/ Missed("resume") \/ Stopped \/ Unsubscribed
        \/ Summarises \/ Summarised
    BY DEF SessionEffect
  <2>2. QED
    BY <1>1, <1>5, <1>6, <1>7, <1>8, <1>9, <1>11, <1>12, <1>13, <1>14, <1>15, <1>16, <1>17,
       <1>19, <1>20, <2>1 DEF Rests

LEMMA CaptureNext == CaptureInv /\ [Next]_vars => CaptureInv'
<1>1. ASSUME CaptureInv, UNCHANGED vars PROVE CaptureInv'
  BY <1>1 DEF CaptureInv, SessionTyped, SummaryKeeps, AudioKeeps, vars, IsCalls, Lone, Waiting,
              Summaries, Ops, At, BagToSet, Settled, InStep, Captured, During, Heard, Released
<1>2. ASSUME CaptureInv, Next PROVE CaptureInv'
  <2>1. IsCalls(calls') /\ SessionEffect /\ Races
    BY <1>2, StepSession DEF CaptureInv, Next
  <2>2. QED
    BY <1>2, <2>1, TypedStep, SummaryStep, AudioStep DEF CaptureInv
<1>3. QED
  BY <1>1, <1>2

LEMMA CaptureInvariant == Spec => []CaptureInv
<1>1. Init => CaptureInv
  BY CaptureInit
<1>2. CaptureInv /\ [Next]_vars => CaptureInv'
  BY CaptureNext
<1>3. QED
  BY <1>1, <1>2, PTL DEF Spec

\* When no call is under way, the microphone, the transcript stream and the
\* subscription to it are what the state of the session says.
THEOREM CaptureFollows == Spec => []CaptureFollowsSession
<1>1. CaptureInv => CaptureFollowsSession
  <2> SUFFICES ASSUME CaptureInv, Quiet, races \cap {"audio", "summary"} = {}
               PROVE  Settled
    BY DEF CaptureFollowsSession, Settled, InStep, Captured, Heard, Capturing
  <2>1. Ops(calls) = {}
    BY DEF Quiet, EmptyBag, SetToBag, BagToSet, Ops, At
  <2>2. QED
    BY <2>1 DEF CaptureInv, AudioKeeps
<1>2. QED
  BY <1>1, CaptureInvariant, PTL

\* A session is ended in review only.
THEOREM ReviewKept == Spec => ReviewIsKept
<1>1. CaptureInv /\ [Next]_vars =>
        [listening.session # listening'.session /\ listening.session # 0 =>
           listening.state = "reviewing" \/ "summary" \in races]_vars
  <2> SUFFICES ASSUME CaptureInv, Next, listening.session # listening'.session,
                      listening.session # 0, "summary" \notin races
               PROVE  listening.state = "reviewing"
    OBVIOUS
  <2>1. /\ listening \in SessionRecord /\ listening.state # "idle"
        /\ Summaries(calls) # {} => listening.state = "reviewing"
    BY DEF CaptureInv, SessionTyped, SummaryKeeps
  <2>2. SessionEffect
    BY StepSession DEF CaptureInv
  <2>3. ASSUME NEW s, Comes(s) PROVE FALSE
    BY <2>1, <2>3 DEF Comes, SessionRecord
  <2>4. CASE Summarises
    BY <2>4 DEF Summarises
  <2>5. QED
    BY <2>1, <2>2, <2>3, <2>4
       DEF SessionEffect, Begins, Pauses, Resumes, Stops, Closes, Rests, Started, Unstarted,
           ScriptOver, Paused, Resumed, Missed, Stopped, Unsubscribed, Summarised
<1>2. QED
  BY <1>1, CaptureInvariant, PTL DEF Spec, ReviewIsKept

------------------------------------------------------------------------------
(* What a step does to the companion window *)

\* The calls of cs that track a meeting or finalise it, or apply the settings.
Concerns(call) == \/ call.at \in {"cancel", "show", "hide", "settings"}
                  \/ call.at \in {"start", "stop", "unsubscribe"} /\ call.by = "manager"
Own(cs) == {call \in BagToSet(cs) : Concerns(call)}

\* Those that will ask for the window, or for the session and then for the window.
Opening(cs) == {call \in BagToSet(cs) :
                  call.at = "cancel" \/ (call.at = "start" /\ call.by = "manager")}
Showings(cs) == Opening(cs) \cup At(cs, {"show"})
Applying(cs) == At(cs, {"settings"})
Closing(cs) == {call \in Ending(cs) : call.at # "hide"}

LEMMA OwnPlus ==
  ASSUME NEW cs, NEW at, NEW by
  PROVE  /\ ~Concerns(Call(at, by)) => Own(Plus(cs, Call(at, by))) = Own(cs)
         /\ Concerns(Call(at, by)) => Own(Plus(cs, Call(at, by))) = Own(cs) \cup {Call(at, by)}
<1>1. BagToSet(Plus(cs, Call(at, by))) = BagToSet(cs) \cup {Call(at, by)}
  BY BagFacts
<1>2. CASE ~Concerns(Call(at, by))
  BY <1>1, <1>2 DEF Own
<1>3. CASE Concerns(Call(at, by))
  BY <1>1, <1>3 DEF Own
<1>4. QED
  BY <1>2, <1>3

LEMMA OwnMinus ==
  ASSUME NEW cs, IsCalls(cs), NEW call \in BagToSet(cs)
  PROVE  LET ds == cs (-) SetToBag({call})
         IN  /\ Own(ds) \subseteq Own(cs) /\ Own(cs) \ {call} \subseteq Own(ds)
             /\ ~Concerns(call) => Own(ds) = Own(cs)
BY MinusCalls DEF Own

\* All that concerns the window is read off these calls.
LEMMA OwnFacts ==
  ASSUME NEW cs
  PROVE  /\ Ending(cs) = {call \in Own(cs) : call.at \in {"hide", "stop", "unsubscribe"}}
         /\ Showings(cs) = {call \in Own(cs) : call.at \in {"cancel", "start", "show"}}
         /\ Opening(cs) = {call \in Own(cs) : call.at \in {"cancel", "start"}}
         /\ At(cs, {"cancel"}) = {call \in Own(cs) : call.at = "cancel"}
         /\ Applying(cs) = {call \in Own(cs) : call.at = "settings"}
         /\ Closing(cs) = {call \in Own(cs) : call.at \in {"stop", "unsubscribe"}}
BY DEF Ending, Showings, Opening, Applying, Closing, At, Own, Concerns

\* One of them is gone, another one is new: the others are there as before.
LEMMA OwnChange ==
  ASSUME NEW cs, NEW ds, NEW old, NEW new, Own(ds) \subseteq Own(cs) \cup {new},
         Own(cs) \ {old} \subseteq Own(ds)
  PROVE  /\ {old.at, new.at} \cap {"hide", "stop", "unsubscribe"} = {} => Ending(ds) = Ending(cs)
         /\ {old.at, new.at} \cap {"cancel", "start", "show"} = {} => Showings(ds) = Showings(cs)
         /\ {old.at, new.at} \cap {"cancel", "start"} = {} => Opening(ds) = Opening(cs)
         /\ "cancel" \notin {old.at, new.at} => At(ds, {"cancel"}) = At(cs, {"cancel"})
         /\ "settings" \notin {old.at, new.at} => Applying(ds) = Applying(cs)
         /\ {old.at, new.at} \cap {"stop", "unsubscribe"} = {} => Closing(ds) = Closing(cs)
<1> DEFINE Of(bs, kinds) == {call \in Own(bs) : call.at \in kinds}
<1>1. ASSUME NEW kinds, old.at \notin kinds, new.at \notin kinds
      PROVE  Of(ds, kinds) = Of(cs, kinds)
  BY <1>1
<1>2. ASSUME NEW bs
      PROVE  /\ Ending(bs) = Of(bs, {"hide", "stop", "unsubscribe"})
             /\ Showings(bs) = Of(bs, {"cancel", "start", "show"})
             /\ Opening(bs) = Of(bs, {"cancel", "start"})
             /\ At(bs, {"cancel"}) = Of(bs, {"cancel"})
             /\ Applying(bs) = Of(bs, {"settings"})
             /\ Closing(bs) = Of(bs, {"stop", "unsubscribe"})
  BY OwnFacts
<1> HIDE DEF Of
<1>3. QED
  BY <1>1, <1>2

WindowKept == manager'.overlay = manager.overlay /\ manager'.tick = manager.tick
StateKept == manager'.state = manager.state

\* Nothing that concerns the window; a meeting may be prompted or declined.
Idles == /\ WindowKept /\ UNCHANGED settings /\ Own(calls') = Own(calls)
         /\ \/ StateKept
            \/ manager.state # "tracking" /\ manager'.state \in {"notRunning", "awaitingDecision"}
         /\ manager.state = "tracking" =>
              listening'.state \in Capturing \cup {listening.state}
Leaving == /\ manager.state = "tracking" /\ manager'.state = "finalizing" /\ ~manager'.tick
           /\ Ending(calls') # {}
           /\ manager'.overlay => Closing(calls') \cup Showings(calls') # {}
Tracking == /\ manager.state # "tracking" /\ manager'.state = "tracking" /\ WindowKept
            /\ UNCHANGED <<settings, listening>>
            /\ Own(calls) \subseteq Own(calls') /\ At(calls', {"cancel"}) # {}
Configures == /\ WindowKept /\ StateKept /\ UNCHANGED listening
              /\ Own(calls) \subseteq Own(calls') /\ Applying(calls') # {}
              /\ Ending(calls') = Ending(calls) /\ Showings(calls') = Showings(calls)
              /\ At(calls', {"cancel"}) = At(calls, {"cancel"})
Opens == /\ Showings(calls) # {} /\ WindowKept /\ StateKept /\ UNCHANGED settings
         /\ listening'.state = "listening" /\ Opening(calls') # {}
         /\ Ending(calls') = Ending(calls) /\ Applying(calls') = Applying(calls)
Shows == /\ Showings(calls) # {} /\ StateKept /\ UNCHANGED <<settings, listening>>
         /\ manager.state = "tracking" => listening.state # "idle"
         /\ manager'.overlay = (manager.overlay \/ settings.companion)
         /\ Ending(calls') = Ending(calls) /\ Applying(calls') = Applying(calls)
Ticks == /\ Showings(calls) # {} /\ StateKept /\ UNCHANGED <<settings, listening>>
         /\ manager'.overlay = manager.overlay
         /\ Ending(calls') = Ending(calls) /\ Applying(calls') = Applying(calls)
         /\ Opening(calls') = Opening(calls) /\ At(calls', {"cancel"}) = At(calls, {"cancel"})
Throws == /\ Showings(calls) # {} /\ WindowKept /\ StateKept /\ UNCHANGED <<settings, listening>>
          /\ "window" \in capture'.lacks
          /\ Ending(calls') = Ending(calls) /\ Applying(calls') = Applying(calls)
          /\ At(calls', {"cancel"}) = At(calls, {"cancel"})
Finalizes == /\ Ending(calls) # {} /\ Showings(calls') \subseteq Showings(calls)
             /\ manager'.tick = manager.tick
             /\ \/ StateKept /\ Ending(calls') # {}
                \/ manager'.state = "notRunning"
             /\ manager'.overlay =>
                  manager.overlay /\ (Closing(calls) # {} => Closing(calls') # {})
Applies == /\ StateKept /\ UNCHANGED <<settings, listening>> /\ manager'.tick = manager.tick
           /\ IF manager.state = "tracking" THEN manager'.overlay = settings.companion
              ELSE manager'.overlay = manager.overlay
           /\ Ending(calls') = Ending(calls) /\ Showings(calls') = Showings(calls)
           /\ At(calls', {"cancel"}) = At(calls, {"cancel"})

WindowEffect == \/ Idles \/ Leaving \/ Tracking \/ Configures \/ Opens
                \/ Shows \/ Throws \/ Ticks \/ Finalizes \/ Applies

\* A notification after which a tracked meeting is still captured, or none was.
LEMMA NotifyIdles ==
  ASSUME ManagerTyped, NEW l, NEW cs, Notify(l, cs), ~Lost(l), UNCHANGED settings,
         Own(cs) = Own(calls)
  PROVE  Idles
<1>1. calls' = cs /\ manager' = manager /\ listening' = l
  BY DEF Notify, ManagerHears, CallsAfter
<1>2. manager.state = "tracking" => l.state \in Capturing
  BY DEF Lost
<1>3. Own(calls') = Own(calls)
  BY <1>1
<1>4. QED
  BY <1>1, <1>2, <1>3 DEF Idles, WindowKept, StateKept

\* A notification after which it is not.
LEMMA NotifyLeaves ==
  ASSUME ManagerTyped, NEW l, NEW cs, Notify(l, cs), Lost(l)
  PROVE  Leaving
<1>1. calls' = Plus(cs, Call("hide", "manager"))
  BY DEF Notify, CallsAfter
<1>2. Call("hide", "manager") \in Own(calls')
  BY <1>1, OwnPlus, CallFacts DEF Concerns
<1>3. Ending(calls') # {}
  BY <1>2, OwnFacts, CallFacts
<1>4. /\ manager'.state = "finalizing" /\ manager'.tick = FALSE /\ manager'.overlay = FALSE
      /\ manager.state = "tracking"
  BY DEF Notify, ManagerHears, Lost, ManagerTyped, ManagerRecord
<1>5. QED
  BY <1>3, <1>4 DEF Leaving

LEMMA NotifyWindow ==
  ASSUME ManagerTyped, NEW l, NEW cs, Notify(l, cs), UNCHANGED settings,
         Own(cs) = Own(calls)
  PROVE  WindowEffect
BY NotifyIdles, NotifyLeaves DEF WindowEffect

\* Nothing that concerns the window happens.
LEMMA NothingWindow ==
  ASSUME UNCHANGED <<settings, manager>>, Own(calls') = Own(calls),
         listening'.state = listening.state
  PROVE  WindowEffect
BY DEF WindowEffect, Idles, WindowKept, StateKept

LEMMA UserWindow ==
  ASSUME ManagerTyped, User, SessionTyped PROVE WindowEffect
<1>0. \A at \in {"start", "pause", "resume", "stop", "note", "summarise"} :
        ~Concerns(Call(at, "user"))
  BY CallFacts DEF Concerns
<1>1. \A at \in {"start", "pause", "resume", "stop", "note", "summarise"} :
        Own(Plus(calls, Call(at, "user"))) = Own(calls)
  BY <1>0, OwnPlus
<1>2. CASE Start
  <2>1. PICK l : Notify(l, Plus(calls, Call("start", "user"))) /\ UNCHANGED settings
    BY <1>2 DEF Start, StartListening
  <2>2. QED
    BY <1>1, <2>1, NotifyWindow
<1>3. CASE Pause
  BY <1>1, <1>3, NotifyWindow DEF Pause
<1>4. CASE ResumeListening
  BY <1>1, <1>4, NotifyWindow DEF ResumeListening
<1>5. CASE Stop
  BY <1>1, <1>5, NotifyWindow DEF Stop
<1>6. CASE Summarise
  <2>1. CASE Notify([listening EXCEPT !.summarising = TRUE],
                    Plus(calls, Call("summarise", "user")))
    BY <1>1, <1>6, <2>1, NotifyWindow DEF Summarise
  <2>2. CASE calls' = Plus(calls, Call("note", "user")) /\ UNCHANGED <<manager, listening>>
    BY <1>1, <1>6, <2>2, NothingWindow DEF Summarise
  <2>3. QED
    BY <1>6, <2>1, <2>2 DEF Summarise
<1>7. CASE Close
  BY <1>7, NotifyWindow DEF Close
<1>8. CASE ScriptEnds
  BY <1>8, NothingWindow DEF ScriptEnds
<1>9. QED
  BY <1>2, <1>3, <1>4, <1>5, <1>6, <1>7, <1>8 DEF User

LEMMA TrackWindow ==
  ASSUME NEW m, NEW mgr \in ManagerRecord, StartTracking(m, mgr),
         mgr.overlay = manager.overlay, mgr.tick = manager.tick, mgr.state = manager.state,
         manager.state # "tracking", UNCHANGED <<settings, listening>>
  PROVE  WindowEffect
<1>1. calls' = Plus(calls, Call("cancel", "manager"))
  BY DEF StartTracking
<1>2. Own(calls') = Own(calls) \cup {Call("cancel", "manager")}
  BY <1>1, OwnPlus, CallFacts DEF Concerns
<1>3. At(calls', {"cancel"}) # {}
  BY <1>2, OwnFacts, CallFacts
<1>4. manager'.state = "tracking" /\ WindowKept
  BY DEF StartTracking, ManagerRecord, WindowKept
<1>5. QED
  BY <1>2, <1>3, <1>4 DEF WindowEffect, Tracking

LEMMA TrackerWindow ==
  ASSUME SessionInv, SessionTyped, Tracker PROVE WindowEffect
<1>0. manager \in ManagerRecord /\ ManagerTyped
  BY DEF SessionInv, ManagerTyped
<1>1. ASSUME NEW m \in Meetings, Detected(m) PROVE WindowEffect
  <2> DEFINE seen == [manager EXCEPT !.seen = @ \cup {m}]
  <2>1. /\ seen \in ManagerRecord /\ seen.overlay = manager.overlay
        /\ seen.tick = manager.tick /\ seen.state = manager.state
    BY <1>0 DEF ManagerRecord
  <2>2. manager.state # "tracking" /\ UNCHANGED <<settings, listening>>
    BY <1>1 DEF Detected
  <2>3. CASE StartTracking(m, seen)
    BY <2>1, <2>2, <2>3, TrackWindow
  <2>4. CASE /\ manager' = IF ~settings.notify THEN seen
                           ELSE [seen EXCEPT !.awaiting = m, !.state = "awaitingDecision"]
             /\ calls' = calls
    <3>1. manager'.overlay = manager.overlay /\ manager'.tick = manager.tick
          /\ manager'.state \in {manager.state, "awaitingDecision"}
      BY <2>1, <2>4 DEF ManagerRecord
    <3>2. QED
      BY <2>2, <2>4, <3>1 DEF WindowEffect, Idles, WindowKept, StateKept
  <2>5. QED
    BY <1>1, <2>3, <2>4 DEF Detected
<1>2. CASE Accept
  <2>1. manager.state # "tracking"
    BY <1>2 DEF Accept, SessionInv, PromptIsOpen
  <2>2. QED
    BY <1>0, <1>2, <2>1, TrackWindow DEF Accept
<1>3. CASE Dismiss
  <2>1. manager.state # "tracking" /\ UNCHANGED <<settings, listening, calls>>
    BY <1>3 DEF Dismiss, SessionInv, PromptIsOpen
  <2>2. manager'.state = "notRunning" /\ WindowKept
    BY <1>0, <1>3 DEF Dismiss, ManagerRecord, WindowKept
  <2>3. QED
    BY <2>1, <2>2 DEF WindowEffect, Idles
<1>4. CASE Finalize
  <2>1. CASE listening.state \in Capturing
    <3>1. /\ manager.state = "tracking" /\ calls' = Plus(calls, Call("stop", "manager"))
          /\ manager' = [manager EXCEPT !.state = "finalizing", !.tick = FALSE]
      BY <1>4, <2>1 DEF Finalize
    <3>2. Call("stop", "manager") \in Own(calls')
      BY <3>1, OwnPlus, CallFacts DEF Concerns
    <3>3. Call("stop", "manager") \in Closing(calls')
      BY <3>2, OwnFacts, CallFacts
    <3>4. manager'.state = "finalizing" /\ manager'.tick = FALSE
      BY <1>0, <3>1 DEF ManagerRecord
    <3>5. QED
      BY <3>1, <3>3, <3>4 DEF WindowEffect, Leaving, Closing
  <2>2. CASE listening.state \notin Capturing
    BY <1>0, <1>4, <2>2, NotifyWindow DEF Finalize
  <2>3. QED
    BY <2>1, <2>2
<1>5. CASE UpdateSettings
  <2>1. calls' = Plus(calls, Call("settings", "user")) /\ UNCHANGED <<manager, listening>>
    BY <1>5 DEF UpdateSettings
  <2>2. Own(calls') = Own(calls) \cup {Call("settings", "user")}
    BY <2>1, OwnPlus, CallFacts DEF Concerns
  <2>3. /\ Applying(calls') # {} /\ Ending(calls') = Ending(calls)
        /\ Showings(calls') = Showings(calls)
        /\ At(calls', {"cancel"}) = At(calls, {"cancel"})
    <3> DEFINE new == Call("settings", "user")
    <3>1. new.at = "settings" /\ new \in Own(calls')
      BY <2>2, CallFacts
    <3>2. Applying(calls') # {}
      BY <3>1, OwnFacts
    <3>3. QED
      BY <2>2, <3>1, <3>2, OwnChange
  <2>4. QED
    BY <2>1, <2>2, <2>3 DEF WindowEffect, Configures, WindowKept, StateKept
<1>6. QED
  BY <1>1, <1>2, <1>3, <1>4, <1>5 DEF Tracker

LEMMA GoesOnWindow ==
  ASSUME SessionInv, SessionTyped, NEW call \in BagToSet(calls), GoesOn(call)
  PROVE  WindowEffect
<1> DEFINE cs == calls (-) SetToBag({call})
<1>0. manager \in ManagerRecord /\ settings \in SettingsRecord /\ ManagerTyped
  BY DEF SessionInv, ManagerTyped
<1>1. /\ Own(cs) \subseteq Own(calls) /\ Own(calls) \ {call} \subseteq Own(cs)
      /\ ~Concerns(call) => Own(cs) = Own(calls)
      /\ Concerns(call) => call \in Own(calls)
  BY OwnMinus DEF SessionTyped, Own
<1> HIDE DEF cs
\* The window is asked for, unless the settings say otherwise.
<1>2. ASSUME NEW mgr \in ManagerRecord, manager' = Showing(mgr)
      PROVE  /\ manager'.state = mgr.state /\ manager'.tick = mgr.tick
             /\ manager'.overlay = (mgr.overlay \/ settings.companion)
  <2>1. CASE settings.companion
    BY <1>2, <2>1 DEF Showing, ManagerRecord
  <2>2. CASE ~settings.companion
    BY <1>2, <2>2 DEF Showing, ManagerRecord
  <2>3. QED
    BY <2>1, <2>2
<1>3. ASSUME NEW ds
      PROVE  /\ Own(ds) \subseteq Own(ThenShow(ds))
             /\ Own(ThenShow(ds)) \subseteq Own(ds) \cup {Call("show", "manager")}
             /\ settings.companion => Call("show", "manager") \in Own(ThenShow(ds))
  BY OwnPlus, CallFacts DEF ThenShow, Concerns
<1>4. ASSUME call.at \in {"cancel", "start"}, Concerns(call), manager' = Showing(manager),
             calls' = ThenShow(cs), UNCHANGED <<settings, listening>>,
             manager.state = "tracking" => listening.state # "idle"
      PROVE  WindowEffect
  <2>1. Showings(calls) # {}
    BY <1>1, <1>4, OwnFacts
  <2>2. Ending(calls') = Ending(calls) /\ Applying(calls') = Applying(calls)
    <3>1. /\ Own(calls') \subseteq Own(calls) \cup {Call("show", "manager")}
          /\ Own(calls) \ {call} \subseteq Own(calls')
      BY <1>1, <1>3, <1>4
    <3>2. Call("show", "manager").at = "show"
      BY CallFacts
    <3>3. QED
      BY <1>4, <3>1, <3>2, OwnChange
  <2>3. StateKept /\ manager'.overlay = (manager.overlay \/ settings.companion)
    BY <1>0, <1>2, <1>4 DEF StateKept
  <2>4. QED
    BY <1>4, <2>1, <2>2, <2>3 DEF WindowEffect, Shows
<1>5. CASE call.at = "cancel" /\ CancelDone(cs)
  <2>1. Concerns(call) /\ UNCHANGED settings
    BY <1>5 DEF Concerns, CancelDone
  <2>2. CASE StartListening("manager", cs)
    <3>1. PICK l : l.state = "listening" /\ Notify(l, Plus(cs, Call("start", "manager")))
      <4> DEFINE id == listening.begun + 1
                 l == [listening EXCEPT !.state = "listening", !.session = id, !.begun = id]
      <4>1. l.state = "listening"
        BY DEF SessionTyped, SessionRecord
      <4>2. Notify(l, Plus(cs, Call("start", "manager")))
        BY <2>2 DEF StartListening
      <4>3. QED
        BY <4>1, <4>2
    <3>2. /\ manager' = manager /\ listening' = l
          /\ calls' = Plus(cs, Call("start", "manager"))
      BY <3>1 DEF Notify, ManagerHears, CallsAfter, Lost, Capturing
    <3>3. Own(calls') = Own(cs) \cup {Call("start", "manager")}
      BY <3>2, OwnPlus, CallFacts DEF Concerns
    <3>4. /\ Ending(calls') = Ending(calls) /\ Applying(calls') = Applying(calls)
          /\ Opening(calls') # {} /\ Showings(calls) # {}
      <4>1. /\ Own(calls') \subseteq Own(calls) \cup {Call("start", "manager")}
            /\ Own(calls) \ {call} \subseteq Own(calls')
        BY <1>1, <3>3
      <4>2. Call("start", "manager").at = "start"
        BY CallFacts
      <4>3. Call("start", "manager") \in Opening(calls')
        BY <3>3, OwnFacts, CallFacts
      <4>4. call \in Showings(calls)
        BY <1>1, <1>5, <2>1, OwnFacts
      <4>5. Ending(calls') = Ending(calls) /\ Applying(calls') = Applying(calls)
        BY <1>5, <4>1, <4>2, OwnChange
      <4>6. QED
        BY <4>3, <4>4, <4>5
    <3>5. QED
      BY <2>1, <3>1, <3>2, <3>4 DEF WindowEffect, Opens, WindowKept, StateKept
  <2>3. CASE /\ listening.state # "idle" /\ manager' = Showing(manager)
             /\ calls' = ThenShow(cs) /\ UNCHANGED <<listening, capture>>
    BY <1>4, <1>5, <2>1, <2>3
  <2>4. QED
    BY <1>5, <2>2, <2>3 DEF CancelDone
<1>16. CASE call.at = "start" /\ StartFails(cs, call.by)
  <2>1. calls' = cs /\ UNCHANGED <<settings, manager, listening>>
    BY <1>16 DEF StartFails
  <2>2. CASE call.by # "manager"
    <3>1. ~Concerns(call)
      BY <1>16, <2>2 DEF Concerns
    <3>2. QED
      BY <1>1, <2>1, <3>1, NothingWindow
  <2>3. CASE call.by = "manager"
    <3>1. Concerns(call)
      BY <1>16, <2>3 DEF Concerns
    <3>2. call \in Showings(calls)
      BY <1>1, <1>16, <3>1, OwnFacts
    <3>3. /\ Ending(calls') = Ending(calls) /\ Applying(calls') = Applying(calls)
          /\ At(calls', {"cancel"}) = At(calls, {"cancel"})
      BY <1>1, <1>16, <2>1, OwnChange
    <3>4. "window" \in capture'.lacks
      <4>1. PICK mic \in {"on", capture.mic} :
              capture' = [capture EXCEPT !.mic = mic,
                                         !.lacks = @ \cup {"transcript", "window"}]
        BY <1>16, <2>3 DEF StartFails
      <4>2. QED
        BY <4>1 DEF SessionTyped, CaptureRecord
    <3>5. QED
      BY <2>1, <3>2, <3>3, <3>4 DEF WindowEffect, Throws, WindowKept, StateKept
  <2>4. QED
    BY <2>2, <2>3
<1>6. CASE call.at = "start" /\ StartDone(cs, call.by)
  <2>1. listening' = listening /\ UNCHANGED settings
    BY <1>6 DEF StartDone
  <2>2. CASE call.by # "manager"
    <3>1. Notify(listening, cs)
      BY <1>6, <2>2 DEF StartDone, Notify
    <3>2. Own(cs) = Own(calls)
      BY <1>1, <1>6, <2>2 DEF Concerns
    <3>3. QED
      BY <1>0, <2>1, <3>1, <3>2, NotifyWindow
  <2>3. CASE call.by = "manager" /\ ~Lost(listening)
    <3>1. manager' = Showing(manager) /\ calls' = ThenShow(cs)
      BY <1>6, <2>3 DEF StartDone, ManagerHears, CallsAfter
    <3>2. Concerns(call)
      BY <1>6, <2>3 DEF Concerns
    <3>3. manager.state = "tracking" => listening.state # "idle"
      BY <2>3 DEF Lost, Capturing
    <3>4. QED
      BY <1>4, <1>6, <2>1, <3>1, <3>2, <3>3
  <2>4. CASE call.by = "manager" /\ Lost(listening)
    <3> DEFINE mgr == [manager EXCEPT !.state = "finalizing", !.tick = FALSE, !.overlay = FALSE]
               ds == Plus(cs, Call("hide", "manager"))
    <3>1. manager' = Showing(mgr) /\ calls' = ThenShow(ds)
      BY <1>6, <2>4 DEF StartDone, ManagerHears, CallsAfter
    <3>2. /\ mgr \in ManagerRecord /\ mgr.state = "finalizing" /\ mgr.tick = FALSE
          /\ mgr.overlay = FALSE
      BY <1>0 DEF ManagerRecord
    <3>3. /\ manager'.state = "finalizing" /\ manager'.tick = FALSE
          /\ manager'.overlay = (FALSE \/ settings.companion)
      <4> HIDE DEF mgr
      <4>1. /\ manager'.state = mgr.state /\ manager'.tick = mgr.tick
            /\ manager'.overlay = (mgr.overlay \/ settings.companion)
        BY <1>2, <3>1, <3>2
      <4>2. QED
        BY <3>2, <4>1
    <3>4. Call("hide", "manager") \in Own(calls')
      BY <1>3, <3>1, OwnPlus, CallFacts DEF Concerns
    <3>5. settings.companion => Call("show", "manager") \in Own(calls')
      BY <1>3, <3>1
    <3>6. Ending(calls') # {} /\ (settings.companion => Showings(calls') # {})
      BY <3>4, <3>5, OwnFacts, CallFacts
    <3>7. QED
      BY <2>4, <3>3, <3>6 DEF WindowEffect, Leaving, Lost
  <2>5. QED
    BY <2>2, <2>3, <2>4
<1>7. CASE call.at = "show" /\ ShowDone(cs)
  <2>1. calls' = cs /\ UNCHANGED <<settings, listening>> /\ Concerns(call)
    BY <1>7 DEF ShowDone, Concerns
  <2>2. StateKept /\ manager'.overlay = manager.overlay
    BY <1>0, <1>7 DEF ShowDone, StateKept, ManagerRecord
  <2>3. /\ Ending(calls') = Ending(calls) /\ Applying(calls') = Applying(calls)
        /\ Opening(calls') = Opening(calls) /\ At(calls', {"cancel"}) = At(calls, {"cancel"})
        /\ Showings(calls) # {}
    <3>1. call \in Showings(calls)
      BY <1>1, <1>7, <2>1, OwnFacts
    <3>2. QED
      BY <1>1, <1>7, <2>1, <3>1, OwnChange
  <2>4. QED
    BY <2>1, <2>2, <2>3 DEF WindowEffect, Ticks
<1>8. CASE \/ call.at = "pause" /\ (PauseDone(cs) \/ PauseFails(cs))
           \/ call.at = "resume" /\ (ResumeDone(cs) \/ ResumeFails(cs))
  <2>1. calls' = cs /\ UNCHANGED <<settings, manager, listening>> /\ ~Concerns(call)
    BY <1>8 DEF PauseDone, PauseFails, ResumeDone, ResumeFails, Concerns
  <2>2. QED
    BY <1>1, <2>1, NothingWindow
<1>9. CASE call.at = "stop" /\ StopDone(cs, call.by)
  <2>1. calls' = Plus(cs, Call("unsubscribe", call.by))
        /\ UNCHANGED <<settings, manager, listening>>
    BY <1>9 DEF StopDone
  <2>2. CASE call.by # "manager"
    <3>1. ~Concerns(call) /\ ~Concerns(Call("unsubscribe", call.by))
      BY <1>9, <2>2, CallFacts DEF Concerns
    <3>2. QED
      BY <1>1, <2>1, <3>1, OwnPlus, NothingWindow
  <2>3. CASE call.by = "manager"
    <3>1. Concerns(call) /\ Concerns(Call("unsubscribe", call.by))
      BY <1>9, <2>3, CallFacts DEF Concerns
    <3>2. Own(calls') = Own(cs) \cup {Call("unsubscribe", "manager")}
      BY <2>1, <2>3, <3>1, OwnPlus
    <3>3. Closing(calls') # {} /\ Ending(calls') # {} /\ Ending(calls) # {}
      BY <1>1, <1>9, <3>1, <3>2, OwnFacts, CallFacts
    <3>4. Showings(calls') \subseteq Showings(calls)
      BY <1>1, <3>2, OwnFacts, CallFacts
    <3>5. QED
      BY <2>1, <3>3, <3>4 DEF WindowEffect, Finalizes, StateKept
  <2>4. QED
    BY <2>2, <2>3
<1>10. CASE call.at = "unsubscribe" /\ UnsubscribeDone(cs, call.by)
  <2>1. CASE call.by # "manager"
    <3>1. ~Concerns(call) /\ calls' = cs /\ UNCHANGED <<settings, manager, listening>>
      BY <1>10, <2>1 DEF UnsubscribeDone, Concerns
    <3>2. QED
      BY <1>1, <3>1, NothingWindow
  <2>2. CASE call.by = "manager"
    <3>1. /\ Concerns(call) /\ calls' = Plus(cs, Call("hide", "manager"))
          /\ manager' = [manager EXCEPT !.overlay = FALSE]
      BY <1>10, <2>2 DEF UnsubscribeDone, Concerns
    <3>2. Own(calls') = Own(cs) \cup {Call("hide", "manager")}
      BY <3>1, OwnPlus, CallFacts DEF Concerns
    <3>3. Ending(calls') # {} /\ Ending(calls) # {}
      BY <1>1, <1>10, <3>1, <3>2, OwnFacts, CallFacts
    <3>4. Showings(calls') \subseteq Showings(calls)
      BY <1>1, <3>2, OwnFacts, CallFacts
    <3>5. manager'.tick = manager.tick /\ StateKept /\ manager'.overlay = FALSE
      BY <1>0, <3>1 DEF ManagerRecord, StateKept
    <3>6. QED
      BY <3>3, <3>4, <3>5 DEF WindowEffect, Finalizes
  <2>3. QED
    BY <2>1, <2>2
<1>11. CASE call.at = "hide" /\ HideDone(cs)
  <2>1. calls' = cs /\ Concerns(call)
    BY <1>11 DEF HideDone, Concerns
  <2>2. manager'.state = "notRunning" /\ WindowKept
    BY <1>0, <1>11 DEF HideDone, ManagerRecord, WindowKept
  <2>3. /\ Ending(calls) # {} /\ Closing(calls') = Closing(calls)
        /\ Showings(calls') \subseteq Showings(calls)
    <3>1. call \in Ending(calls)
      BY <1>1, <1>11, <2>1, OwnFacts
    <3>2. QED
      BY <1>1, <1>11, <2>1, <3>1, OwnChange
  <2>4. QED
    BY <2>2, <2>3 DEF WindowEffect, Finalizes, WindowKept
<1>12. CASE call.at = "note" /\ NoteDone(cs)
  <2>1. ~Concerns(call) /\ UNCHANGED settings
    BY <1>12 DEF NoteDone, Concerns
  <2>2. CASE Notify([listening EXCEPT !.summarising = TRUE],
                    Plus(cs, Call("summarise", "user")))
    <3>1. Own(Plus(cs, Call("summarise", "user"))) = Own(calls)
      BY <1>1, <2>1, OwnPlus, CallFacts DEF Concerns
    <3>2. QED
      BY <1>0, <2>1, <2>2, <3>1, NotifyWindow
  <2>3. CASE calls' = cs /\ UNCHANGED <<manager, listening>>
    BY <1>1, <2>1, <2>3, NothingWindow
  <2>4. QED
    BY <1>12, <2>2, <2>3 DEF NoteDone
<1>13. CASE call.at = "summarise" /\ SummariseDone(cs)
  <2>1. ~Concerns(call) /\ UNCHANGED settings /\ \E l : Notify(l, cs)
    BY <1>13 DEF SummariseDone, Concerns
  <2>2. QED
    BY <1>0, <1>1, <2>1, NotifyWindow
<1>14. CASE call.at = "settings" /\ SettingsDone(cs)
  <2>1. calls' = cs /\ UNCHANGED <<settings, listening>> /\ Concerns(call)
    BY <1>14 DEF SettingsDone, Concerns
  <2>2. /\ StateKept /\ manager'.tick = manager.tick
        /\ manager'.overlay = IF manager.state = "tracking" THEN settings.companion
                              ELSE manager.overlay
    BY <1>0, <1>14 DEF SettingsDone, StateKept, ManagerRecord
  <2>3. /\ Ending(calls') = Ending(calls) /\ Showings(calls') = Showings(calls)
        /\ At(calls', {"cancel"}) = At(calls, {"cancel"})
    BY <1>1, <1>14, <2>1, OwnChange
  <2>4. QED
    BY <2>1, <2>2, <2>3 DEF WindowEffect, Applies
<1>15. QED
  <2>1. \/ call.at = "cancel" /\ CancelDone(cs)
        \/ call.at = "start" /\ (StartDone(cs, call.by) \/ StartFails(cs, call.by))
        \/ call.at = "show" /\ ShowDone(cs)
        \/ call.at = "pause" /\ (PauseDone(cs) \/ PauseFails(cs))
        \/ call.at = "resume" /\ (ResumeDone(cs) \/ ResumeFails(cs))
        \/ call.at = "stop" /\ StopDone(cs, call.by)
        \/ call.at = "unsubscribe" /\ UnsubscribeDone(cs, call.by)
        \/ call.at = "hide" /\ HideDone(cs)
        \/ call.at = "note" /\ NoteDone(cs)
        \/ call.at = "summarise" /\ SummariseDone(cs)
        \/ call.at = "settings" /\ SettingsDone(cs)
    BY DEF GoesOn, cs
  <2>2. QED
    BY <1>5, <1>6, <1>7, <1>8, <1>9, <1>10, <1>11, <1>12, <1>13, <1>14, <1>16, <2>1

LEMMA StepWindow ==
  ASSUME SessionInv, SessionTyped, Next PROVE WindowEffect
BY UserWindow, TrackerWindow, GoesOnWindow DEF Next, GoOn, SessionInv

------------------------------------------------------------------------------
(* The invariant of the companion window *)

\* A session goes without its window until another one begins.
LacksKept == \/ "window" \in capture.lacks => "window" \in capture'.lacks
             \/ listening.state = "idle" /\ listening'.state # "idle"

LEMMA StepLacks ==
  ASSUME SessionTyped, SessionEffect PROVE LacksKept
<1>0. capture \in CaptureRecord /\ listening \in SessionRecord
  BY DEF SessionTyped
<1>1. CASE Begins
  BY <1>0, <1>1 DEF Begins, LacksKept, SessionRecord
<1>2. CASE Unstarted
  BY <1>0, <1>2 DEF Unstarted, LacksKept, CaptureRecord
<1>3. CASE Paused \/ Resumed
  <2>1. capture'.lacks = capture.lacks \ {"pause"}
    BY <1>0, <1>3 DEF Paused, Resumed, CaptureRecord
  <2>2. QED
    BY <2>1 DEF LacksKept
<1>4. ASSUME NEW at, Missed(at) PROVE LacksKept
  <2>1. PICK mic : capture' = [capture EXCEPT !.mic = mic, !.lacks = @ \cup {"pause"}]
    BY <1>4 DEF Missed
  <2>2. QED
    BY <1>0, <2>1 DEF LacksKept, CaptureRecord
<1>5. CASE Started \/ ScriptOver \/ Stopped \/ Unsubscribed \/ Stops
  BY <1>0, <1>5 DEF Started, ScriptOver, Stopped, Unsubscribed, Stops, LacksKept, CaptureRecord
<1>6. CASE UNCHANGED capture
  BY <1>6 DEF LacksKept
<1>7. QED
  BY <1>1, <1>2, <1>3, <1>4, <1>5, <1>6
     DEF SessionEffect, Pauses, Resumes, Closes, Rests, Summarises, Summarised

\* While a meeting is tracked: it is captured, or about to be; the window is shown,
\* if it is wanted, unless a call that sees to it is still under way or the recorder
\* threw before.
Tracked ==
  /\ Ending(calls) = {}
  /\ \/ listening.state \in Capturing
     \/ listening.state = "idle" /\ At(calls, {"cancel"}) # {}
  /\ \/ Applying(calls) # {}
     \/ /\ manager.overlay => settings.companion
        /\ Opening(calls) = {} /\ settings.companion /\ "window" \notin capture.lacks =>
             manager.overlay

\* While none is, the window is there only if a call that will hide it is under way.
Untracked ==
  /\ Showings(calls) = {} /\ ~manager.tick
  /\ manager.overlay => Closing(calls) # {}
  /\ manager.state = "finalizing" => Ending(calls) # {}

CompanionKeeps ==
  races \cap {"tracking", "review"} = {} =>
    IF manager.state = "tracking" THEN Tracked ELSE Untracked

LEMMA NoTrackingRace ==
  ASSUME Races, races' \cap {"tracking", "review"} = {}
  PROVE  /\ races \cap {"tracking", "review"} = {}
         /\ Showings(calls') = {} \/ Ending(calls') = {}
         /\ manager.state # "tracking" /\ manager'.state = "tracking" =>
              listening.state # "reviewing"
<1>1. /\ TrackingCalls = Showings(calls') /\ FinalizingCalls = Ending(calls')
  BY DEF TrackingCalls, FinalizingCalls, Under, Managers, Showings, Opening, Ending, At
<1>2. /\ races \subseteq races'
      /\ TrackingCalls # {} /\ FinalizingCalls # {} => "tracking" \in races'
      /\ /\ manager.state # "tracking" /\ manager'.state = "tracking"
         /\ listening.state = "reviewing"
         => "review" \in races'
  BY DEF Races
<1>3. QED
  BY <1>1, <1>2

LEMMA CompanionStep ==
  ASSUME SessionInv, SessionTyped, SessionInv', CompanionKeeps, WindowEffect, LacksKept, Races
  PROVE  CompanionKeeps'
<1> SUFFICES ASSUME races' \cap {"tracking", "review"} = {}
             PROVE  /\ manager'.state = "tracking" => Tracked'
                    /\ manager'.state # "tracking" => Untracked'
  BY DEF CompanionKeeps
<1>1. /\ manager.state = "tracking" => Tracked
      /\ manager.state # "tracking" => Untracked
      /\ Showings(calls') = {} \/ Ending(calls') = {}
      /\ manager.state # "tracking" /\ manager'.state = "tracking" =>
           listening.state # "reviewing"
  BY NoTrackingRace DEF CompanionKeeps
<1>2. /\ manager.overlay \in BOOLEAN /\ settings.companion \in BOOLEAN
      /\ manager'.overlay \in BOOLEAN /\ settings'.companion \in BOOLEAN
      /\ listening.state \in {"idle", "listening", "paused", "reviewing"}
  BY DEF SessionInv, ManagerTyped, ManagerRecord, SettingsRecord, SessionTyped, SessionRecord
<1>3. CASE Idles
  <2>1. /\ Ending(calls') = Ending(calls) /\ Showings(calls') = Showings(calls)
        /\ Opening(calls') = Opening(calls) /\ Applying(calls') = Applying(calls)
        /\ At(calls', {"cancel"}) = At(calls, {"cancel"})
        /\ Closing(calls') = Closing(calls)
    BY <1>3, OwnFacts DEF Idles
  <2>2. QED
    <3>1. listening.state = "idle" /\ manager.state = "tracking" => Opening(calls) # {}
      BY <1>1, OwnFacts DEF Tracked, Capturing
    <3>2. QED
      BY <1>1, <1>3, <2>1, <3>1
         DEF Idles, WindowKept, StateKept, LacksKept, Tracked, Untracked, Capturing
<1>13. CASE Throws
  BY <1>1, <1>13 DEF Throws, WindowKept, StateKept, Tracked, Untracked
<1>4. CASE Leaving
  BY <1>1, <1>4 DEF Leaving, Untracked
<1>5. CASE Tracking
  <2>1. Ending(calls) = {} /\ Closing(calls) = {}
    <3>1. At(calls', {"cancel"}) \subseteq Showings(calls')
      BY OwnFacts
    <3>2. Ending(calls') = {}
      BY <1>1, <1>5, <3>1 DEF Tracking
    <3>3. QED
      BY <1>5, <3>2, OwnFacts DEF Tracking
  <2>2. Opening(calls') # {} /\ Showings(calls') # {}
    BY <1>5, OwnFacts DEF Tracking
  <2>3. QED
    BY <1>1, <1>2, <1>5, <2>1, <2>2
       DEF Tracking, WindowKept, Tracked, Untracked, Capturing
<1>6. CASE Configures
  <2>1. Closing(calls) \subseteq Closing(calls')
    BY <1>6, OwnFacts DEF Configures
  <2>2. QED
    BY <1>1, <1>6, <2>1 DEF Configures, WindowKept, StateKept, LacksKept, Tracked, Untracked
<1>7. CASE Opens
  BY <1>1, <1>7 DEF Opens, WindowKept, StateKept, Tracked, Untracked, Capturing
<1>8. CASE Shows
  BY <1>1, <1>2, <1>8 DEF Shows, StateKept, LacksKept, Tracked, Untracked
<1>9. CASE Ticks
  BY <1>1, <1>9 DEF Ticks, StateKept, LacksKept, Tracked, Untracked
<1>10. CASE Finalizes
  BY <1>1, <1>10 DEF Finalizes, StateKept, Tracked, Untracked
<1>11. CASE Applies
  <2>1. Closing(calls') = Closing(calls) /\ Opening(calls') \subseteq Showings(calls')
    BY <1>11 DEF Applies, Closing, Showings
  <2>2. QED
    BY <1>1, <1>2, <1>11, <2>1 DEF Applies, StateKept, LacksKept, Tracked, Untracked
<1>12. QED
  BY <1>13, <1>3, <1>4, <1>5, <1>6, <1>7, <1>8, <1>9, <1>10, <1>11 DEF WindowEffect

CompanionInv == SessionInv /\ CaptureInv /\ CompanionKeeps

LEMMA CompanionInvariant == Spec => []CompanionInv
<1>1. Init => CompanionInv
  <2> SUFFICES ASSUME Init PROVE CompanionInv
    OBVIOUS
  <2>1. BagToSet(calls) = {}
    BY DEF Init, EmptyBag, SetToBag, BagToSet
  <2>2. CompanionKeeps
    BY <2>1 DEF Init, CompanionKeeps, Untracked, Showings, Opening, At
  <2>3. QED
    BY <2>2, InvInit, CaptureInit DEF CompanionInv
<1>2. CompanionInv /\ [Next]_vars => CompanionInv'
  <2>1. ASSUME CompanionInv, Next PROVE CompanionKeeps'
    <3>1. SessionInv' /\ WindowEffect /\ LacksKept /\ Races
      BY <2>1, InvNext, StepWindow, StepSession, StepLacks DEF CompanionInv, CaptureInv, Next
    <3>2. QED
      BY <2>1, <3>1, CompanionStep DEF CompanionInv, CaptureInv
  <2>2. ASSUME CompanionInv, UNCHANGED vars PROVE CompanionKeeps'
    BY <2>2 DEF CompanionInv, CompanionKeeps, Tracked, Untracked, Ending, Closing, Showings,
                Opening, Applying, At, BagToSet, Capturing, vars
  <2>3. QED
    BY <2>1, <2>2, InvNext, CaptureNext DEF CompanionInv
<1>3. QED
  BY <1>1, <1>2, PTL DEF Spec

\* When no call is under way, the companion window floats only while a meeting is
\* tracked, and a tracked meeting is captured.
THEOREM CompanionFollows == Spec => []CompanionFollowsTracking
<1>1. CompanionInv => CompanionFollowsTracking
  <2> SUFFICES ASSUME CompanionInv, Quiet, races \cap {"tracking", "review"} = {}
               PROVE  CompanionFollowsTracking
    BY DEF CompanionFollowsTracking
  <2>1. BagToSet(calls) = {}
    BY DEF Quiet, EmptyBag, SetToBag, BagToSet
  <2>2. Own(calls) = {}
    BY <2>1 DEF Own
  <2>3. /\ At(calls, {"cancel"}) = {} /\ Applying(calls) = {} /\ Opening(calls) = {}
        /\ Ending(calls) = {} /\ Closing(calls) = {}
    BY <2>2, OwnFacts
  <2>4. QED
    BY <2>3 DEF CompanionInv, CompanionKeeps, Tracked, Untracked, CompanionFollowsTracking
<1>2. QED
  BY <1>1, CompanionInvariant, PTL

==============================================================================
