----------------------------- MODULE Recorder ------------------------------
(* The recording of a pane (recordings, lastRecordingResults and recordingWaiters of
   src/electron/main.cjs, and class Recording of recorder.cjs): the log of what happened, the pictures
   taken one at a time and linked from it, the timeline written when it stops, and the agents that wait
   for that. What an event says is left out. *)
EXTENDS Integers, Sequences, FiniteSets, SequencesExt

CONSTANTS
  MaxEvents, MaxKeyframes,  \* MAX_EVENTS, MAX_KEYFRAMES
  RecordWaiters,            \* calls of record-wait
  RecorderScenes            \* how often each kind of event happens
ASSUME RecorderAssumption ==
  /\ MaxEvents \in Nat \ {0} /\ MaxKeyframes \in Nat
  /\ RecorderScenes \subseteq [starts : Nat, stops : Nat, overlaps : Nat, events : Nat, paints : Nat,
                               failures : Nat, hides : Nat, waits : Nat]

VARIABLES
  logs,       \* the recordings there have been
  active,     \* recordings.get(record), or 0
  captures,   \* the chain of captures of each; the head may be under way
  shot,       \* the name the head of a chain has reserved
  delayed,    \* captures a click or a move within the page has put off
  jpegs,      \* the pictures on disk, and the event each was taken for
  timelines,  \* timeline.md of each: the events it was last written from
  pasting,    \* results on their way to the agent's pane, not yet told to those who wait
  lastResult, \* lastRecordingResults.get(record)
  recWaits,   \* each call of record-wait: the recording it names, and its answer
  recVisible, \* record.visible
  recBudget

recorderVars == <<logs, active, captures, shot, delayed, jpegs, timelines, pasting, lastResult, recWaits,
                  recVisible, recBudget>>

NoName == <<>>
Logs == DOMAIN logs
\* A stop of some recording waits for its own picture, and will go on when that is done.
StopWaits == \E r \in Logs : \E i \in DOMAIN captures[r] : captures[r][i].reason = "stop"
\* `beside` is history: the recording began while an earlier one's stop had still to go on.
NewRecording(goal) ==
  [events |-> <<[kind |-> "start", frame |-> NoName]>>, keyframes |-> 0, dirty |-> FALSE, goal |-> goal,
   stopped |-> FALSE, ticking |-> TRUE, navigation |-> 0, navTimer |-> FALSE, beside |-> StopWaits]
NotAsked == [names |-> 0, while |-> 0, answer |-> -2]
StillRecording == -1
NotRecording == 0

RecorderInit ==
  /\ logs = <<>> /\ active = 0 /\ captures = <<>> /\ shot = <<>> /\ delayed = {} /\ jpegs = {}
  /\ timelines = <<>> /\ pasting = <<>> /\ lastResult = 0 /\ recVisible = TRUE
  /\ recWaits = [w \in RecordWaiters |-> NotAsked] /\ recBudget \in RecorderScenes

SpendRec(what) == recBudget[what] > 0 /\ recBudget' = [recBudget EXCEPT ![what] = @ - 1]

\* Recording.record: nothing once the log is full; the entry, by its place.
Record(log, kind) == IF Len(log.events) >= MaxEvents THEN log
                     ELSE [log EXCEPT !.events = Append(@, [kind |-> kind, frame |-> NoName])]
Entry(log) == IF Len(log.events) >= MaxEvents THEN 0 ELSE Len(log.events) + 1

CaptureKeyframe(r, reason, entry) ==
  captures' = [captures EXCEPT ![r] = Append(@, [reason |-> reason, entry |-> entry])]

-----------------------------------------------------------------------------
(* What is recorded. *)

\* A start while the pane has a recording is told of that one.
StartRecording(goal) ==
  /\ active = 0 /\ SpendRec("starts")
  /\ logs' = Append(logs, NewRecording(goal)) /\ active' = Len(logs) + 1
  /\ captures' = Append(captures, <<[reason |-> "start", entry |-> 1]>>) /\ shot' = Append(shot, NoName)
  /\ timelines' = Append(timelines, <<>>)
  /\ UNCHANGED <<delayed, jpegs, pasting, lastResult, recWaits, recVisible>>

\* recordPageEvent: a click's picture is put off until the page has answered.
RecordPageEvent ==
  /\ active # 0 /\ SpendRec("events")
  /\ logs' = [logs EXCEPT ![active] = Record(@, "click")]
  /\ delayed' = IF Entry(logs[active]) = 0 THEN delayed
                ELSE delayed \union {[rec |-> active, reason |-> "click", entry |-> Entry(logs[active])]}
  /\ UNCHANGED <<active, captures, shot, jpegs, timelines, pasting, lastResult, recWaits, recVisible>>

\* A navigation's is taken when the page stops loading, or three seconds later; one within the page
\* is put off like a click's, and leaves what an earlier navigation waits for.
RecordTabNavigation(inPage) ==
  /\ active # 0 /\ SpendRec("events")
  /\ LET entry == Entry(logs[active])
         noted == Record(logs[active], "navigate")
     IN /\ logs' = [logs EXCEPT ![active] = IF entry = 0 \/ inPage THEN noted
                                            ELSE [noted EXCEPT !.navigation = entry, !.navTimer = TRUE]]
        /\ delayed' = IF entry = 0 \/ ~inPage THEN delayed
                      ELSE delayed \union {[rec |-> active, reason |-> "navigate", entry |-> entry]}
  /\ UNCHANGED <<active, captures, shot, jpegs, timelines, pasting, lastResult, recWaits, recVisible>>
\* settleNavigationKeyframe looks the recording up again: it is the one the pane has now.
SettleNavigationKeyframe(timed) ==
  /\ active # 0 /\ logs[active].navigation # 0 /\ timed \in Logs
  /\ logs[timed].navTimer \/ timed = active
  /\ CaptureKeyframe(active, "navigate", logs[active].navigation)
  /\ logs' = [logs EXCEPT ![timed].navTimer = FALSE, ![active].navigation = 0, ![active].navTimer = FALSE]
  /\ UNCHANGED <<active, shot, delayed, jpegs, timelines, pasting, lastResult, recWaits, recVisible,
                 recBudget>>
DelayedDue(d) ==
  /\ d \in delayed /\ delayed' = delayed \ {d} /\ CaptureKeyframe(d.rec, d.reason, d.entry)
  /\ UNCHANGED <<logs, active, shot, jpegs, timelines, pasting, lastResult, recWaits, recVisible,
                 recBudget>>

RecPaint == /\ active # 0 /\ ~logs[active].dirty /\ SpendRec("paints")
            /\ logs' = [logs EXCEPT ![active].dirty = TRUE]
            /\ UNCHANGED <<active, captures, shot, delayed, jpegs, timelines, pasting, lastResult, recWaits,
                           recVisible>>
\* periodicDue, and the exception of captureKeyframe: not while a picture is being taken.
KeyframeTick(r) ==
  /\ logs[r].ticking /\ logs[r].dirty /\ captures[r] = <<>> /\ CaptureKeyframe(r, "change", 0)
  /\ UNCHANGED <<logs, active, shot, delayed, jpegs, timelines, pasting, lastResult, recWaits, recVisible,
                 recBudget>>
HidePane == /\ recVisible /\ SpendRec("hides") /\ recVisible' = FALSE
            /\ UNCHANGED <<logs, active, captures, shot, delayed, jpegs, timelines, pasting, lastResult,
                           recWaits>>

-----------------------------------------------------------------------------
(* A picture. *)

\* captureKeyframeNow: nothing is taken after the stop, of a hidden pane, or past the cap.
SkipsCapture(log, c) == \/ log.stopped /\ c.reason # "stop"
                        \/ ~recVisible
                        \/ log.keyframes >= MaxKeyframes

CaptureBegins(r) ==
  /\ captures[r] # <<>> /\ shot[r] = NoName /\ ~SkipsCapture(logs[r], Head(captures[r]))
  /\ shot' = [shot EXCEPT ![r] = <<logs[r].keyframes, Head(captures[r]).reason>>]
  /\ logs' = [logs EXCEPT ![r].keyframes = @ + 1, ![r].dirty = FALSE]
  /\ UNCHANGED <<active, captures, delayed, jpegs, timelines, pasting, lastResult, recWaits, recVisible,
                 recBudget>>

StopTold(answer) == [w \in RecordWaiters |-> IF recWaits[w].while # 0 /\ recWaits[w].answer = -2
                                         THEN [recWaits[w] EXCEPT !.answer = answer] ELSE recWaits[w]]
\* stopRecording, once its own picture is done: the map, the timeline, and who is to know of it. What
\* an agent asked for is told at once, the rest when it has been pasted.
StopContinues(r) ==
  /\ active' = 0 /\ timelines' = [timelines EXCEPT ![r] = logs'[r].events]
  /\ IF logs[r].goal THEN lastResult' = r /\ recWaits' = StopTold(r) /\ UNCHANGED pasting
     ELSE pasting' = Append(pasting, r) /\ UNCHANGED <<lastResult, recWaits>>
CaptureOver(r) == /\ captures' = [captures EXCEPT ![r] = Tail(@)] /\ shot' = [shot EXCEPT ![r] = NoName]
                  /\ IF Head(captures[r]).reason = "stop" THEN StopContinues(r)
                     ELSE UNCHANGED <<active, timelines, pasting, lastResult, recWaits>>
                  /\ UNCHANGED <<delayed, recVisible>>

CaptureSkipped(r) == /\ captures[r] # <<>> /\ shot[r] = NoName /\ SkipsCapture(logs[r], Head(captures[r]))
                     /\ UNCHANGED <<logs, jpegs, recBudget>> /\ CaptureOver(r)
\* A picture of no event becomes one of its own, if there is room.
CaptureSucceeds(r) ==
  /\ shot[r] # NoName
  /\ LET asked == Head(captures[r]).entry
         entry == IF asked # 0 THEN asked ELSE Entry(logs[r])
         log   == IF asked # 0 THEN logs[r] ELSE Record(logs[r], "change")
     IN /\ logs' = [logs EXCEPT ![r] = IF entry = 0 THEN log
                                       ELSE [log EXCEPT !.events[entry].frame = shot[r]]]
        /\ jpegs' = {f \in jpegs : f.rec # r \/ f.name # shot[r]}
                    \union {[rec |-> r, name |-> shot[r], entry |-> entry]}
  /\ CaptureOver(r) /\ UNCHANGED recBudget
\* The compositor is between documents, or the picture is a strip: the number is used again.
CaptureFails(r) == /\ shot[r] # NoName /\ SpendRec("failures") /\ jpegs' = jpegs
                   /\ logs' = [logs EXCEPT ![r].keyframes = @ - 1] /\ CaptureOver(r)

-----------------------------------------------------------------------------
(* The stop, and those who wait for it. *)

\* A stop while one is under way is one more: overlaps bounds those.
StopRecording ==
  /\ active # 0 /\ SpendRec(IF logs[active].stopped THEN "overlaps" ELSE "stops")
  /\ logs' = [logs EXCEPT ![active] = [Record(@, "stop") EXCEPT !.ticking = FALSE, !.navTimer = FALSE,
                                                               !.stopped = TRUE]]
  /\ CaptureKeyframe(active, "stop", Entry(logs[active]))
  /\ UNCHANGED <<active, shot, delayed, jpegs, timelines, pasting, lastResult, recWaits, recVisible>>

\* pasteHandoff has answered.
Pasted == /\ pasting # <<>> /\ pasting' = Tail(pasting) /\ lastResult' = Head(pasting)
          /\ recWaits' = StopTold(Head(pasting))
          /\ UNCHANGED <<logs, active, captures, shot, delayed, jpegs, timelines, recVisible, recBudget>>

\* names = 0 is a call that names no recording.
WaitForRecording(w, names) ==
  /\ recWaits[w] = NotAsked /\ SpendRec("waits")
  /\ recWaits' = [recWaits EXCEPT ![w] =
       IF active # 0 /\ names \in {0, active} THEN [names |-> names, while |-> active, answer |-> -2]
       ELSE [names |-> names, while |-> 0,
             answer |-> IF lastResult # 0 /\ names \in {0, lastResult} THEN lastResult ELSE NotRecording]]
  /\ UNCHANGED <<logs, active, captures, shot, delayed, jpegs, timelines, pasting, lastResult, recVisible>>
WaitEnds(w) ==
  /\ recWaits[w].while # 0 /\ recWaits[w].answer = -2
  /\ recWaits' = [recWaits EXCEPT ![w].answer = StillRecording]
  /\ UNCHANGED <<logs, active, captures, shot, delayed, jpegs, timelines, pasting, lastResult, recVisible,
                 recBudget>>

RecorderNext ==
  \/ \E goal \in BOOLEAN : StartRecording(goal)
  \/ \E inPage \in BOOLEAN : RecordTabNavigation(inPage)
  \/ RecordPageEvent \/ RecPaint \/ HidePane \/ StopRecording \/ Pasted
  \/ \E r \in Logs : \/ SettleNavigationKeyframe(r) \/ KeyframeTick(r) \/ CaptureBegins(r)
                     \/ CaptureSkipped(r) \/ CaptureSucceeds(r) \/ CaptureFails(r)
  \/ \E d \in delayed : DelayedDue(d)
  \/ \E w \in RecordWaiters : WaitEnds(w) \/ \E names \in 0..Len(logs) : WaitForRecording(w, names)
RecorderSpec == RecorderInit /\ [][RecorderNext]_recorderVars

-----------------------------------------------------------------------------
(* Properties. *)

RecorderTypeOK ==
  /\ active \in 0..Len(logs) /\ lastResult \in 0..Len(logs) /\ recVisible \in BOOLEAN
  /\ {Len(captures), Len(shot), Len(timelines)} = {Len(logs)}
  /\ \A r \in Logs : /\ Len(logs[r].events) \in 1..MaxEvents /\ logs[r].keyframes \in 0..MaxKeyframes
                     /\ logs[r].navigation \in 0..Len(logs[r].events)
                     /\ shot[r] # NoName => captures[r] # <<>>
  /\ \A f \in jpegs : f.rec \in Logs /\ f.name \in Nat \X {"start", "click", "navigate", "change", "stop"}
  /\ \A w \in RecordWaiters : recWaits[w].answer \in -2..Len(logs)

\* The picture an event of the timeline links to is the one taken for it: no later one was written over
\* it, though the number of one that failed is used again.
PictureIsOfItsEvent ==
  \A r \in Logs, e \in 1..MaxEvents :
    (e \in DOMAIN logs[r].events /\ logs[r].events[e].frame # NoName)
      => [rec |-> r, name |-> logs[r].events[e].frame, entry |-> e] \in jpegs

\* "A delayed click or navigation keyframe that comes due after stop would be a file the timeline,
\* already written, does not mention": once no stop is under way, each picture of a recording whose
\* timeline is written is linked from it, unless the log was full.
TimelineMentionsAll ==
  \A r \in Logs : (/\ timelines[r] # <<>> /\ Len(timelines[r]) < MaxEvents
                   /\ \A i \in DOMAIN captures[r] : captures[r][i].reason # "stop")
                   => \A f \in jpegs : f.rec = r => \E i \in DOMAIN timelines[r] :
                                                      timelines[r][i].frame = f.name

\* "Either key stops whichever recording is running": one that was started and not stopped is the one
\* the pane has, through the stops of others, their pictures and failures, and a second stop asked for
\* while one is under way (toggleRecording does not look).  That second stop goes on after the first
\* has made room for a new recording, and takes the pane's entry whatever it is by then; so the
\* recordings that began before it went on are left out.
RunningIsStoppable == \A r \in Logs : ~logs[r].stopped /\ ~logs[r].beside => active = r

\* Not so, for what began beside a stop that had still to go on (stopRecording, recordings.delete).
EveryRunningIsStoppable == \A r \in Logs : ~logs[r].stopped => active = r

\* A call that waits is answered with the recording it waits for.
WaiterHearsItsOwn == \A w \in RecordWaiters :
  (recWaits[w].while # 0 /\ recWaits[w].answer > 0) => recWaits[w].answer = recWaits[w].while

\* "The second wait names the recording and gets its result instead of 'not recording'": the last one
\* of the pane is known to a call that names it.
NamedIsFound == \A w \in RecordWaiters :
  recWaits[w].names # 0 /\ recWaits[w].names = Len(logs) => recWaits[w].answer # NotRecording
=============================================================================
