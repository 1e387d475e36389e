----------------------------- MODULE InputModes -----------------------------
\* Whether a pane's keys go to its page as real keys (src/electron/main.cjs inputState().
\* insertMode, insertModeOwners, activateTab, applyShortcutMode, "insert-mode",
\* tweb-preload-ready; preload.cjs setEngineNativeKeys, normalMode, "tweb-shortcuts-mode").
\* The frame whose field has focus says so; the engine keeps one flag for the pane and
\* remembers which frame of each tab set it; both sides clear their copy on a mode message.
EXTENDS FiniteSets, Naturals, Sequences, SequencesExt

CONSTANTS ModeTabs,       \* tabs of the pane
          ModeFrames,     \* frames of each, "top" among them
          BackgroundActs, \* whether a tab that is not shown may act: an autofocus, a reload
          ModeScenes      \* what may happen, how often

ASSUME ModesAssumption == "top" \in ModeFrames /\ "none" \notin ModeFrames /\ BackgroundActs \in BOOLEAN

VARIABLES modeTab,  \* the tab the pane shows
          mirror,   \* inputState().insertMode
          modeOwner,    \* insertModeOwners: tab -> the frame that armed native keys, or "none"
          field,    \* tab -> frame -> whether the focus is in a field of it
          armed,    \* tab -> frame -> the preload's engineNativeKeys
          focusouts,     \* frames whose focusout has not run yet
          reports,  \* preload messages on their way: [tab, frame, what]
          notices,  \* tab -> frame -> mode messages on their way
          strayed,  \* for the properties: a tab that is not shown was heard, or a ping was answered
          modeSpend
modeVars == <<modeTab, mirror, modeOwner, field, armed, focusouts, reports, notices, strayed, modeSpend>>

ModeSpend(what) == modeSpend[what] > 0 /\ modeSpend' = [modeSpend EXCEPT ![what] = @ - 1]
MayAct(t) == BackgroundActs \/ t = modeTab

ModesInit ==
    /\ modeTab \in ModeTabs /\ mirror = FALSE /\ modeOwner = [t \in ModeTabs |-> "none"]
    /\ field = [t \in ModeTabs |-> [f \in ModeFrames |-> FALSE]] /\ armed = field
    /\ focusouts = {} /\ reports = <<>> /\ notices = [t \in ModeTabs |-> [f \in ModeFrames |-> 0]]
    /\ strayed = FALSE /\ modeSpend \in ModeScenes

\* setEngineNativeKeys: said only when it differs from what was said last.
SetNativeKeys(t, f, on) ==
    /\ armed' = [armed EXCEPT ![t][f] = on]
    /\ reports' = IF armed[t][f] = on THEN reports
                  ELSE Append(reports, [tab |-> t, frame |-> f, what |-> IF on THEN "on" ELSE "off"])

\* The focus goes into a field of a frame; another frame that had it hears later.
FocusIn(t, f) ==
    /\ MayAct(t) /\ ~field[t][f] /\ <<t, f>> \notin focusouts /\ ModeSpend("focuses")
    /\ field' = [field EXCEPT ![t] = [g \in ModeFrames |-> g = f]]
    /\ focusouts' = focusouts \cup {<<t, g>> : g \in {g \in ModeFrames : field[t][g]}}
    /\ SetNativeKeys(t, f, TRUE)
    /\ UNCHANGED <<modeTab, mirror, modeOwner, notices, strayed>>

\* It leaves the field for nothing in particular; that frame's own focusout is heard at once.
FocusGoes(t, f) ==
    /\ MayAct(t) /\ field[t][f] /\ ModeSpend("focuses")
    /\ field' = [field EXCEPT ![t][f] = FALSE] /\ SetNativeKeys(t, f, FALSE)
    /\ UNCHANGED <<modeTab, mirror, modeOwner, focusouts, notices, strayed>>

\* normalMode: after a focusout, and on a mode message.
FocusOut(t, f) ==
    /\ <<t, f>> \in focusouts /\ focusouts' = focusouts \ {<<t, f>>} /\ SetNativeKeys(t, f, field[t][f])
    /\ UNCHANGED <<modeTab, mirror, modeOwner, field, notices, strayed, modeSpend>>

HearNotice(t, f) ==
    /\ notices[t][f] > 0 /\ notices' = [notices EXCEPT ![t][f] = @ - 1]
    /\ armed' = [armed EXCEPT ![t][f] = field[t][f]]
    /\ reports' = IF field[t][f] THEN Append(reports, [tab |-> t, frame |-> f, what |-> "on"]) ELSE reports
    /\ UNCHANGED <<modeTab, mirror, modeOwner, field, focusouts, strayed, modeSpend>>

\* A new document: its preload starts in normal mode and says it is there.
Reloads(t) ==
    /\ MayAct(t) /\ ModeSpend("reloads")
    /\ field' = [field EXCEPT ![t] = [g \in ModeFrames |-> FALSE]]
    /\ armed' = [armed EXCEPT ![t] = [g \in ModeFrames |-> FALSE]]
    /\ notices' = [notices EXCEPT ![t] = [g \in ModeFrames |-> 0]]
    /\ focusouts' = {x \in focusouts : x[1] # t}
    /\ reports' = Append(reports, [tab |-> t, frame |-> "top", what |-> "ready"])
    /\ UNCHANGED <<modeTab, mirror, modeOwner, strayed>>

\* A preload that is alive but not on the books answers a ping, asked for by a key that
\* could not be delivered.
AnswersPing(t) ==
    /\ t = modeTab /\ ModeSpend("pings")
    /\ reports' = Append(reports, [tab |-> t, frame |-> "top", what |-> "ready"]) /\ strayed' = TRUE
    /\ UNCHANGED <<modeTab, mirror, modeOwner, field, armed, focusouts, notices>>

------------------------------------------------------------------------------
\* The engine.

Tell(tabs) ==
  notices' = [t \in ModeTabs |-> [f \in ModeFrames |-> notices[t][f] + (IF t \in tabs THEN 1 ELSE 0)]]

\* Any frame turns insert mode off.
AnyoneTurnsOff ==
    /\ reports # <<>> /\ reports' = Tail(reports)
    /\ LET r == Head(reports)
       IN mirror' = (r.what = "on") /\ modeOwner' = [modeOwner EXCEPT ![r.tab] = IF r.what = "on"
                                                                                 THEN r.frame
                                                                                 ELSE "none"]
    /\ strayed' = (strayed \/ Head(reports).tab # modeTab)
    /\ UNCHANGED <<modeTab, field, armed, focusouts, notices, modeSpend>>

\* "insert-mode" and tweb-preload-ready: only the owner, or anyone when there is none,
\* turns it off.
HearReport ==
    /\ reports # <<>> /\ reports' = Tail(reports)
    /\ LET r == Head(reports)
           off == r.what = "ready" \/ (r.what = "off" /\ modeOwner[r.tab] \in {"none", r.frame})
       IN IF r.what = "on" THEN mirror' = TRUE /\ modeOwner' = [modeOwner EXCEPT ![r.tab] = r.frame]
          ELSE IF off THEN mirror' = FALSE /\ modeOwner' = [modeOwner EXCEPT ![r.tab] = "none"]
          ELSE UNCHANGED <<mirror, modeOwner>>
    /\ strayed' = (strayed \/ Head(reports).tab # modeTab)
    /\ UNCHANGED <<modeTab, field, armed, focusouts, notices, modeSpend>>

\* activateTab, and applyShortcutMode with its broadcast.
ShowsModeTab(t) ==
    /\ t # modeTab /\ ModeSpend("switches") /\ modeTab' = t
    /\ mirror' = FALSE /\ modeOwner' = [modeOwner EXCEPT ![t] = "none"] /\ Tell({t}) /\ strayed' = FALSE
    /\ UNCHANGED <<field, armed, focusouts, reports>>

ShortcutMode ==
    /\ ModeSpend("toggles")
    /\ mirror' = FALSE /\ modeOwner' = [modeOwner EXCEPT ![modeTab] = "none"] /\ Tell(ModeTabs)
    /\ strayed' = FALSE
    /\ UNCHANGED <<modeTab, field, armed, focusouts, reports>>

ModesNext ==
    \/ \E t \in ModeTabs : Reloads(t) \/ AnswersPing(t) \/ ShowsModeTab(t)
    \/ \E t \in ModeTabs, f \in ModeFrames :
         FocusIn(t, f) \/ FocusGoes(t, f) \/ FocusOut(t, f) \/ HearNotice(t, f)
    \/ HearReport \/ ShortcutMode

ModesSpec == ModesInit /\ [][ModesNext]_modeVars
------------------------------------------------------------------------------

ModesSettled == reports = <<>> /\ focusouts = {} /\ \A t \in ModeTabs, f \in ModeFrames : notices[t][f] = 0

\* One field at most has the focus, and the engine's flag has an owner in some tab.
ModesTypeOK ==
    /\ mirror \in BOOLEAN /\ modeTab \in ModeTabs
    /\ \A t \in ModeTabs : modeOwner[t] \in ModeFrames \cup {"none"}
                             /\ Cardinality({f \in ModeFrames : field[t][f]}) <= 1

\* Once every message has arrived, keys go to the page as real keys exactly when the focus
\* is in a field of the tab the pane shows ("the mirror of the preload's insert mode that
\* key dispatch reads"), however the reports of its frames, tab switches and mode changes
\* crossed.
MirrorIsRight == ModesSettled => mirror = (\E f \in ModeFrames : field[modeTab][f])

\* The same, unless another tab has been heard, or a ping answered, since the pane last showed
\* a tab or changed its shortcut mode: that answer is taken for a new document's.
MirrorIsRightAlone == ~strayed => MirrorIsRight

\* A frame of the tab shown that believes the engine delivers real keys to it owns them, so
\* that it can give them back.
ArmedIsOwner ==
  ModesSettled /\ ~strayed => \A f \in ModeFrames : armed[modeTab][f] => modeOwner[modeTab] = f
=============================================================================
