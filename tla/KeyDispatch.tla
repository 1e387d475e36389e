---------------------------- MODULE KeyDispatch ----------------------------
\* How one key press becomes key events of a page (src/electron/main.cjs dispatchNamedKey,
\* dispatchNativeKey, dispatchEditKey, setCmdBypassEnabled; held-keys.cjs).  Inside tmux a terminal
\* reports presses only, an autorepeat like any other press, so the engine holds a key
\* down and judges by the gap whether the next press of it is a repeat or a second tap.
\* Time passes in ticks of 30 ms, as the code's windows are cut: 60, 110 ms, 0.9 of the
\* initial delay, the initial delay and 170.
EXTENDS FiniteSets, Integers

CONSTANTS KeyTabs,    \* tabs of the pane
          Reports,    \* whether the terminal reports releases and repeats (not inside tmux)
          Initial,    \* the keyboard's initial repeat delay, in ticks
          Jitter,     \* ticks a repeat may be late
          KeyScenes   \* what may happen, how often: [presses, modes, switches]

ASSUME KeysAssumption == Initial \in Nat \ {0} /\ Jitter \in Nat /\ Reports \in BOOLEAN

Keys == {"a", ";"}
Interval == 1
CadenceMax == 2
RepeatWait == 4
FirstWait == Initial + 6

VARIABLES finger,   \* the keys that are physically down
          since,    \* key -> ticks since it was pressed or repeated, as far as FirstWait
          repeated, \* keys that have repeated since they were pressed
          blurred,  \* keys last pressed with Ctrl, or so late that it was taken for a repeat
          last,     \* the key the keyboard repeats, or "none"
          ctrl,     \* whether Ctrl is down
          modes,    \* inputState()'s vimium, bypass and insertMode
          keyTab,    \* the tab that is shown
          heldKeys,     \* heldKeys: <<tab, key>> -> [age, repeating], age -1 when it is not held
          down,     \* what each page saw go down natively and not up again
          orphan,   \* keys whose keyUp reached a page that had not seen them down
          said,     \* the last press: [key, is |-> what it was, as |-> what it was taken for]
          holding,  \* <<tab, key>> held by a finger and delivered natively, while nothing changed
          keySpend
keyVars ==
  <<finger, since, repeated, blurred, last, ctrl, modes, keyTab, heldKeys, down, orphan, said,
    holding, keySpend>>

Spends(what) == keySpend[what] > 0 /\ keySpend' = [keySpend EXCEPT ![what] = @ - 1]
NotHeld == [age |-> -1, repeating |-> FALSE]
Ids == KeyTabs \X Keys

KeysInit ==
    /\ finger = {} /\ since = [k \in Keys |-> FirstWait] /\ repeated = {} /\ blurred = {} /\ last = "none"
    /\ ctrl = FALSE
    /\ modes \in [vimium : BOOLEAN, bypass : {FALSE}, insert : {FALSE}] /\ keyTab \in KeyTabs
    /\ heldKeys = [i \in Ids |-> NotHeld] /\ down = {} /\ orphan = {} /\ holding = {}
    /\ said = [key |-> "a", is |-> "tap", as |-> "fresh"] /\ keySpend \in KeyScenes

------------------------------------------------------------------------------
\* held-keys.cjs.

IsHeld(i) == heldKeys[i].age >= 0

\* Any second press of a held key is a repeat.
AnySecondPress(i) == IsHeld(i)

\* press: a repeat by its gap, or a second press, which lets go of the first.
TakenForRepeat(i) ==
    IsHeld(i) /\ (heldKeys[i].repeating \/ heldKeys[i].age <= CadenceMax \/ heldKeys[i].age * 10 >= Initial * 9)
Press(i) ==
    /\ heldKeys' = [heldKeys EXCEPT ![i] = [age |-> 0, repeating |-> TakenForRepeat(i)]]
    /\ down' = down \cup {i} /\ UNCHANGED orphan

\* keyUps, each to the page its key went down in.
Ups(ids) == down' = down \ ids /\ orphan' = orphan \cup {i[2] : i \in ids \ down}

\* The timer: the next repeat is overdue.
Overdue(i) == IsHeld(i) /\ heldKeys[i].age >= (IF heldKeys[i].repeating THEN RepeatWait ELSE FirstWait)
\* Only a key of the tab shown is let go.
LetsGoShown(i) ==
    /\ i[1] = keyTab /\ Overdue(i) /\ heldKeys' = [heldKeys EXCEPT ![i] = NotHeld] /\ Ups({i})
    /\ UNCHANGED <<finger, since, repeated, blurred, last, ctrl, modes, keyTab, said, holding, keySpend>>

LetGo(i) ==
    /\ Overdue(i) /\ heldKeys' = [heldKeys EXCEPT ![i] = NotHeld] /\ Ups({i})
    /\ UNCHANGED <<finger, since, repeated, blurred, last, ctrl, modes, keyTab, said, holding, keySpend>>

------------------------------------------------------------------------------
\* dispatchNamedKey: kind 1 is a press, 2 a repeat, 3 a release.

GoesNative == modes.bypass \/ ~modes.vimium \/ modes.insert

\* dispatchNativeKey and dispatchEditKey.  A chord is not held: one down, and its up
\* at once unless the terminal says the key repeats.
Native(i, kind) ==
    CASE kind = 3 -> heldKeys' = [heldKeys EXCEPT ![i] = NotHeld] /\ Ups({i})
      [] kind # 3 /\ ~ctrl -> Press(i)
      [] kind = 1 /\ ctrl -> down' = down \ {i} /\ UNCHANGED <<heldKeys, orphan>>
      [] kind = 2 /\ ctrl -> down' = down \cup {i} /\ UNCHANGED <<heldKeys, orphan>>

\* Ctrl-; is the engine's in every mode: held keys are let go, and the mode changes.
Toggle(kind) ==
    IF kind = 3 THEN UNCHANGED <<heldKeys, down, orphan, modes, holding>>
    ELSE /\ Ups({i \in Ids : IsHeld(i)}) /\ heldKeys' = [i \in Ids |-> NotHeld] /\ holding' = {}
         /\ modes' = [modes EXCEPT !.bypass = ~@, !.insert = FALSE]

Dispatch(k, kind, is) ==
    LET i == <<keyTab, k>>
        claimed == ctrl /\ k = ";"
        native == ~claimed /\ GoesNative
        starts == native /\ ~ctrl /\ is # "stray" /\ ~(is = "late tap" /\ TakenForRepeat(i))
    IN /\ IF claimed THEN Toggle(kind)
          ELSE IF native THEN Native(i, kind) /\ UNCHANGED modes
          \* The page script's: not a key of the page.
          ELSE UNCHANGED <<heldKeys, down, orphan, modes>>
       /\ said' = [key |-> k, is |-> is, as |-> IF ~native \/ ctrl THEN "chord" ELSE IF TakenForRepeat(i)
                                                                                     THEN "repeat"
                                                                                     ELSE "fresh"]
       /\ claimed \/ holding' = IF kind = 3 THEN holding \ (KeyTabs \X {k})
                                ELSE (holding \ (KeyTabs \X Keys)) \cup (IF starts THEN {i} ELSE {})

\* Where the terminal reports no releases every press is kind 1 and a release says nothing.
FingerDown(k) ==
    /\ k \notin finger /\ Spends("presses")
    /\ since[k] > CadenceMax \* no hand is faster
    /\ Dispatch(k, 1, IF k \in repeated \cup blurred \/ since[k] * 10 >= Initial * 9 THEN "late tap"
                      ELSE "tap")
    /\ finger' = finger \cup {k} /\ since' = [since EXCEPT ![k] = 0] /\ repeated' = repeated \ {k}
    /\ last' = k
    /\ blurred' = IF ctrl \/ TakenForRepeat(<<keyTab, k>>) THEN blurred \cup {k} ELSE blurred \ {k}
    /\ UNCHANGED <<ctrl, keyTab>>

RepeatDue == last \in finger /\ since[last] >= (IF last \in repeated THEN Interval ELSE Initial)
Repeats ==
    /\ RepeatDue
    /\ Dispatch(last, IF Reports THEN 2 ELSE 1, IF <<keyTab, last>> \in holding THEN "repeat" ELSE "stray")
    /\ since' = [since EXCEPT ![last] = 0] /\ repeated' = repeated \cup {last}
    /\ UNCHANGED <<finger, blurred, last, ctrl, keyTab, keySpend>>

FingerUp(k) ==
    /\ k \in finger /\ finger' = finger \ {k} /\ last' = (IF last = k THEN "none" ELSE last)
    /\ IF Reports THEN Dispatch(k, 3, "release")
       ELSE holding' = holding \ (KeyTabs \X {k}) /\ UNCHANGED <<heldKeys, down, orphan, modes, said>>
    /\ UNCHANGED <<since, repeated, blurred, ctrl, keyTab, keySpend>>

Ctrl == ctrl' = ~ctrl /\ last' = "none" /\ holding' = {}
        /\ UNCHANGED <<finger, since, repeated, blurred, modes, keyTab, heldKeys, down, orphan, said,
                       keySpend>>

\* A field gets or loses the focus, or the person turns shortcuts off or on (a private code).
ModeMoves ==
    /\ Spends("modes") /\ holding' = {}
    /\ \/ modes' = [modes EXCEPT !.insert = ~@]
       \/ modes' = [modes EXCEPT !.vimium = ~@, !.insert = FALSE]
    /\ UNCHANGED <<finger, since, repeated, blurred, last, ctrl, keyTab, heldKeys, down, orphan, said>>

ShowsAnother(t) ==
    /\ t # keyTab /\ Spends("switches") /\ keyTab' = t /\ modes' = [modes EXCEPT !.insert = FALSE]
    /\ holding' = {}
    /\ UNCHANGED <<finger, since, repeated, blurred, last, ctrl, heldKeys, down, orphan, said>>

\* No timer is later than its tick, and no repeat later than the jitter.
KeysTick ==
    /\ ~\E i \in Ids : Overdue(i)
    /\ RepeatDue => since[last] < (IF last \in repeated THEN Interval ELSE Initial) + Jitter
    /\ (\E i \in Ids : IsHeld(i)) \/ \E k \in Keys : since[k] < FirstWait
    /\ since' = [k \in Keys |-> IF since[k] < FirstWait THEN since[k] + 1 ELSE FirstWait]
    /\ heldKeys' = [i \in Ids |-> IF IsHeld(i) THEN [heldKeys[i] EXCEPT !.age = @ + 1] ELSE heldKeys[i]]
    /\ UNCHANGED <<finger, repeated, blurred, last, ctrl, modes, keyTab, down, orphan, said, holding,
                   keySpend>>

KeysNext ==
    \/ \E i \in Ids : LetGo(i)
    \/ \E k \in Keys : FingerDown(k) \/ FingerUp(k)
    \/ Repeats \/ Ctrl \/ ModeMoves \/ KeysTick
    \/ \E t \in KeyTabs : ShowsAnother(t)

\* Timers run, and a person lifts their fingers in the end.
KeysFairness ==
    /\ WF_keyVars(KeysTick)
    /\ WF_keyVars(\E i \in Ids : LetGo(i))
    /\ \A k \in Keys : SF_keyVars(FingerUp(k))
KeysSpec == KeysInit /\ [][KeysNext]_keyVars /\ KeysFairness
------------------------------------------------------------------------------

KeysTypeOK ==
    /\ finger \subseteq Keys /\ last \in finger \cup {"none"} /\ down \subseteq Ids /\ holding \subseteq Ids
    /\ \A i \in Ids : heldKeys[i].age \in -1..FirstWait

\* A page reading "is this key down right now" sees a key down for as long as the finger that
\* repeats it is on it: no gap of a repeat, nor the first, longer one, lets it go.
HeldStaysDown == holding \subseteq down

\* A repeat of the keyboard is never taken for a second press, nor two quick presses for a
\* held key ("a double tap and a first autorepeat can be told apart").
TapsAreTaps == said.as # "chord" =>
    /\ said.is = "repeat" => said.as = "repeat"
    /\ said.is = "tap" => said.as = "fresh"

\* A key nobody has a finger on does not stay down in any page: again and again there is none.
EveryKeyIsLetGo == []<>(\A i \in down : i[2] \in finger)

\* No keyUp of the ; of Ctrl-; reaches a page that never saw it go down ("The release
\* is consumed as well, so no orphan keyUp reaches the page").
NoOrphanUp == ";" \notin orphan
=============================================================================
