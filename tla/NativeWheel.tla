---------------------------- MODULE NativeWheel ----------------------------
\* One scroll, heard twice: from the device and as a notch of the terminal
\* (src/electron/native-input.cjs wheelClaim, hold, noteNativeScroll; main.cjs dispatchMouse,
\* the "scroll" handler, dispatchTerminalWheel).  In ticks of 30 ms: HOLD_MS is two, DROP_MS ten.
EXTENDS Integers, Sequences, FiniteSets, FiniteSetsExt

CONSTANTS WheelTabs,    \* tabs of the pane
          Skew,         \* ticks by which one stream may be behind the other
          WheelScenes   \* what is done, how often: [swipes, turns, deaf, switches, moves]

ASSUME WheelAssumption == Skew \in Nat

HoldTicks == 2
DropTicks == 10
FlushesToSilence == 3
Silence == 12  \* stands for SILENCE_MS, longer than all the others

WheelPlaces == {"here", "outside", "unknown"}

VARIABLES placed,   \* where the helper places the pointer: over this pane, latched ("here"); at no
                    \* place of the pane or not latched ("outside"); or it is not live, sees another
                    \* window or the grid is not measured ("unknown")
          began,    \* the scrolls made: [dev, precise, tab, mixed]: by which device, "deaf" when it is
                    \* not one heard here; and whether what decides on it changed in between
          scrollEvents, notches, \* of them what is on its way: [n |-> scroll, age |-> ticks]
          preciseAgo, coarseAgo, \* ticks since, DropTicks + 1 when it is longer
          heldNotches,  \* wheel.pending: scrolls whose notch is held
          holdTimer,    \* ticks wheel.timer has run, -1 while it is not set
          flushes, silent,
          given,    \* what pages were given: [n, by, tab]
          twice,    \* for the properties: scrolls given when they had been already
          wheelTab,  \* the tab that is shown
          wheelSpend
wheelVars ==
  <<placed, began, scrollEvents, notches, preciseAgo, coarseAgo, heldNotches, holdTimer, flushes, silent,
    given, twice, wheelTab, wheelSpend>>

SpendWheel(what) == wheelSpend[what] > 0 /\ wheelSpend' = [wheelSpend EXCEPT ![what] = @ - 1]

WheelInit ==
    /\ placed \in WheelPlaces
    /\ began = <<>> /\ scrollEvents = <<>> /\ notches = <<>> /\ heldNotches = {} /\ holdTimer = -1
    /\ preciseAgo = DropTicks + 1 /\ coarseAgo = DropTicks + 1 /\ flushes = 0 /\ silent = 0
    /\ given = {} /\ twice = {} /\ wheelTab \in WheelTabs /\ wheelSpend \in WheelScenes

\* dispatchTerminalWheel, or the scroll itself from the device's own deltas: in the tab
\* shown when it is given.
Gives(ns, by) ==
    /\ given' = given \cup {[n |-> n, by |-> by, tab |-> wheelTab] : n \in ns}
    /\ twice' = twice \cup {n \in ns : \E g \in given : g.n = n}

------------------------------------------------------------------------------
\* The person, with a trackpad or with a mouse's wheel; one the helper may not hear.

ScrollsWaiting == heldNotches \cup {scrollEvents[i].n : i \in DOMAIN scrollEvents}
                     \cup {notches[i].n : i \in DOMAIN notches}

Scrolls(dev, what) ==
    /\ SpendWheel(what)
    /\ LET n == Len(began) + 1
           heard == IF placed = "here" THEN dev ELSE "deaf"
           others == {i \in ScrollsWaiting : began[i].dev # heard \/ began[i].mixed}
           near == /\ placed # "unknown"
                   /\ IF heard = "pad" THEN coarseAgo <= DropTicks \/ silent > 0 ELSE preciseAgo <= DropTicks
           made == [dev |-> heard, precise |-> dev = "pad", tab |-> wheelTab, mixed |-> near \/ others # {}]
       IN /\ began' = [i \in 1..n |-> IF i = n THEN made ELSE [began[i] EXCEPT !.mixed = @ \/ i \in others]]
          /\ notches' = Append(notches, [n |-> n, age |-> 0])
          /\ scrollEvents' = IF dev = "deaf" THEN scrollEvents
                             ELSE Append(scrollEvents, [n |-> n, age |-> 0])
    /\ UNCHANGED <<placed, preciseAgo, coarseAgo, heldNotches, holdTimer, flushes, silent, given, twice, wheelTab>>

\* The pointer leaves the pane or its window, or is reported there again; the helper's arming
\* runs out or is renewed.
PlaceChanges(o) ==
    /\ o # placed /\ SpendWheel("moves") /\ placed' = o
    /\ began' = [i \in DOMAIN began |-> [began[i] EXCEPT !.mixed = @ \/ i \in ScrollsWaiting]]
    /\ UNCHANGED <<scrollEvents, notches, preciseAgo, coarseAgo, heldNotches, holdTimer, flushes, silent,
                   given, twice, wheelTab>>

WheelShows(t) ==
    /\ t # wheelTab /\ SpendWheel("switches") /\ wheelTab' = t
    /\ UNCHANGED <<placed, began, scrollEvents, notches, preciseAgo, coarseAgo, heldNotches, holdTimer,
                   flushes, silent, given, twice>>

\* A notch: drop, pass or hold.
WheelClaim == CASE placed = "unknown" -> "pass"
                [] placed # "unknown" /\ preciseAgo <= DropTicks -> "drop"
                [] placed # "unknown" /\ preciseAgo > DropTicks ->
                     IF coarseAgo <= DropTicks \/ silent > 0 THEN "pass" ELSE "hold"

NotchArrives ==
    /\ notches # <<>> /\ notches' = Tail(notches)
    /\ LET n == Head(notches).n
       IN CASE WheelClaim = "drop" -> UNCHANGED <<heldNotches, holdTimer, given, twice>>
            [] WheelClaim = "pass" -> Gives({n}, "notch") /\ UNCHANGED <<heldNotches, holdTimer>>
            [] WheelClaim = "hold" -> heldNotches' = heldNotches \cup {n} /\ holdTimer' = (IF holdTimer = -1
                                                                                           THEN 0
                                                                                           ELSE holdTimer)
                                      /\ UNCHANGED <<given, twice>>
    /\ UNCHANGED <<placed, began, scrollEvents, preciseAgo, coarseAgo, flushes, silent, wheelTab, wheelSpend>>

\* Nothing native came for what was held.
Flush ==
    /\ holdTimer = HoldTicks /\ holdTimer' = -1 /\ heldNotches' = {} /\ Gives(heldNotches, "notch")
    /\ flushes' = (flushes + 1) % FlushesToSilence
    /\ silent' = IF flushes + 1 = FlushesToSilence THEN Silence ELSE silent
    /\ UNCHANGED <<placed, began, scrollEvents, notches, preciseAgo, coarseAgo, wheelTab, wheelSpend>>

\* noteNativeScroll, and a precise one is given by its own deltas: what was held was the same.
NoteNativeScroll(n) ==
    /\ holdTimer' = -1 /\ heldNotches' = {}
    /\ IF began[n].precise
       THEN preciseAgo' = 0 /\ flushes' = 0 /\ Gives({n}, "native") /\ UNCHANGED coarseAgo
       ELSE coarseAgo' = 0 /\ Gives(heldNotches, "notch") /\ UNCHANGED <<preciseAgo, flushes>>

\* A scroll of the device, and whether it is in this pane (withNativePane).
EventArrives ==
    /\ scrollEvents # <<>> /\ scrollEvents' = Tail(scrollEvents)
    /\ IF placed = "here" THEN NoteNativeScroll(Head(scrollEvents).n)
       ELSE UNCHANGED <<preciseAgo, coarseAgo, heldNotches, holdTimer, flushes, given, twice>>
    /\ UNCHANGED <<placed, began, notches, silent, wheelTab, wheelSpend>>

Later(s) == [i \in DOMAIN s |-> [s[i] EXCEPT !.age = @ + 1]]
WheelTick ==
    /\ holdTimer # HoldTicks /\ \A s \in {scrollEvents, notches} : \A i \in DOMAIN s : s[i].age < Skew
    /\ preciseAgo <= DropTicks \/ coarseAgo <= DropTicks \/ silent > 0
       \/ holdTimer >= 0 \/ scrollEvents # <<>> \/ notches # <<>>
    /\ preciseAgo' = Min({preciseAgo + 1, DropTicks + 1})
    /\ coarseAgo' = Min({coarseAgo + 1, DropTicks + 1})
    /\ holdTimer' = (IF holdTimer >= 0 THEN holdTimer + 1 ELSE holdTimer) /\ silent' = Max({silent - 1, 0})
    /\ scrollEvents' = Later(scrollEvents) /\ notches' = Later(notches)
    /\ UNCHANGED <<placed, began, heldNotches, flushes, given, twice, wheelTab, wheelSpend>>

WheelNext ==
    \/ Scrolls("pad", "swipes") \/ Scrolls("wheel", "turns") \/ Scrolls("deaf", "deaf")
    \/ \E t \in WheelTabs : WheelShows(t)
    \/ \E o \in WheelPlaces : PlaceChanges(o)
    \/ NotchArrives \/ Flush \/ EventArrives \/ WheelTick

WheelSpec == WheelInit /\ [][WheelNext]_wheelVars
------------------------------------------------------------------------------

Quiet == scrollEvents = <<>> /\ notches = <<>> /\ heldNotches = {}

WheelTypeOK ==
    /\ holdTimer \in -1..HoldTicks /\ flushes \in 0..FlushesToSilence - 1
    /\ heldNotches \subseteq DOMAIN began /\ placed \in WheelPlaces
    /\ \A g \in given : g.n \in DOMAIN began /\ g.by \in {"native", "notch"}

\* Every scroll is given to the page once, whichever stream hears of it first and whether or not
\* the helper hears it, be the pointer placed over the pane, beside it or nowhere: never lost, and
\* never "scrolled twice".  Except where a person uses two devices in turn, where the helper is taken
\* for deaf, and where the pointer is placed elsewhere while a scroll is on its way.
ScrolledOnce == \A n \in DOMAIN began : ~began[n].mixed =>
    /\ n \notin twice
    /\ Quiet => \E g \in given : g.n = n

\* A notch that is held is given at the latest when its window has passed.
HeldIsFlushed == heldNotches # {} => holdTimer >= 0

\* A scroll is given to the page it was made over.
ScrollsItsTab == \A g \in given : g.tab = began[g.n].tab
=============================================================================
