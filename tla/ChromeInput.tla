---------------------------- MODULE ChromeInput ----------------------------
(* Input on its way to a Chrome tab (sendInputEvent, sendInput, inputScaleReady and measureInputScale of
   src/electron/cdp/web-contents.cjs, and KeySequencer of cdp/input.cjs): a key is held back until its
   text is known, everything goes to the page in one queue, and a pointer's place is corrected by a skew
   that comes and goes in Chrome and is measured with a move of its own. Places are left out: an event
   lands right when it is sent with the skew there is. *)
EXTENDS Integers, Sequences, FiniteSets, SequencesExt

CONSTANT ChromeInputScenes  \* how often each kind of event happens

VARIABLES
  callsMade,   \* how many input events there have been: each has a number
  pendingDown, \* KeySequencer.pendingDown, or NoEvent
  flushQueued, \* keyFlushQueued: the run of events at hand has not ended
  inputQueue,  \* what waits for its turn; the head is being seen to
  probeStep,   \* where the measurement of the head is
  probeSaw,    \* the skew the probe's move met with
  skew,        \* the skew Chrome has now: 1 is none
  inputScale,  \* the skew last measured, or 0
  scaleIsOld,  \* that was INPUT_SCALE_RECHECK_MS ago
  pointerHeld,
  arrived,     \* what the page has got
  pageHeld,    \* the page has a button down
  dragCut,     \* history: a move without buttons reached the page in a drag
  chromeInputBudget

chromeInputVars == <<callsMade, pendingDown, flushQueued, inputQueue, probeStep, probeSaw, skew, inputScale,
                     scaleIsOld, pointerHeld, arrived, pageHeld, dragCut, chromeInputBudget>>

NoEvent == [n |-> 0, kind |-> "none", text |-> 0]
Pointer == {"press", "move", "drag", "release"}
InputEvent(n, kind, text) == [n |-> n, kind |-> kind, text |-> text]

ChromeInputInit ==
  /\ callsMade = 0 /\ pendingDown = NoEvent /\ flushQueued = FALSE /\ inputQueue = <<>>
  /\ probeStep = "none"
  /\ probeSaw = 0 /\ skew = 1 /\ inputScale = 0 /\ scaleIsOld = FALSE /\ pointerHeld = FALSE
  /\ arrived = <<>>
  /\ pageHeld = FALSE /\ dragCut = FALSE /\ chromeInputBudget \in ChromeInputScenes

SpendInput(what) == chromeInputBudget[what] > 0
                    /\ chromeInputBudget' = [chromeInputBudget EXCEPT ![what] = @ - 1]

-----------------------------------------------------------------------------
(* KeySequencer. *)

\* A char gives its text to the key that waits; alone it is text without a key.
FoldsChar(down, text) == IF down # NoEvent THEN <<InputEvent(down.n, "key", text)>>
                         ELSE <<InputEvent(callsMade + 1, "text", text)>>
Flushed(down) == IF down # NoEvent THEN <<InputEvent(down.n, "key", 0)>> ELSE <<>>

\* sendInput: behind what waits.
Queued(queue, events) == queue \o events

\* push, and the microtask that will flush.
PushKey(kind) ==
  /\ SpendInput("keys") /\ callsMade' = callsMade + 1 /\ flushQueued' = TRUE
  /\ CASE kind = "char"    -> /\ pendingDown' = NoEvent
                              /\ inputQueue' = Queued(inputQueue, FoldsChar(pendingDown, callsMade + 1))
       [] kind = "keyDown" -> /\ pendingDown' = InputEvent(callsMade + 1, "key", 0)
                              /\ inputQueue' = Queued(inputQueue, Flushed(pendingDown))
       [] kind = "keyUp"   -> /\ pendingDown' = NoEvent
                              /\ inputQueue' = Queued(inputQueue, Flushed(pendingDown)
                                                       \o <<InputEvent(callsMade + 1, "keyUp", 0)>>)
  /\ UNCHANGED <<probeStep, probeSaw, skew, inputScale, scaleIsOld, pointerHeld, arrived, pageHeld,
                 dragCut>>
FlushKeys == /\ flushQueued /\ flushQueued' = FALSE /\ pendingDown' = NoEvent
             /\ inputQueue' = Queued(inputQueue, Flushed(pendingDown))
             /\ UNCHANGED <<callsMade, probeStep, probeSaw, skew, inputScale, scaleIsOld, pointerHeld,
                            arrived, pageHeld, dragCut, chromeInputBudget>>

\* sendInput: whether a button is held is what the last call says, not what the page has got.
SendMouse(kind) ==
  /\ callsMade' = callsMade + 1 /\ inputQueue' = Append(inputQueue, InputEvent(callsMade + 1, kind, 0))
  /\ pointerHeld' = CASE kind = "press" -> TRUE [] kind \in {"release", "move"} -> FALSE [] OTHER -> pointerHeld
\* A hand presses, drags and lets go in that order.
DragMoves(kind) ==
  /\ SpendInput("pointer") /\ kind \in (IF pointerHeld THEN {"drag", "release"} ELSE {"press", "move"})
  /\ SendMouse(kind)
  /\ UNCHANGED <<pendingDown, flushQueued, probeStep, probeSaw, skew, inputScale, scaleIsOld, arrived,
                 pageHeld, dragCut>>

-----------------------------------------------------------------------------
(* The queue. *)

\* A mutant: a press is content with the value there is.
TrustsTheScale(event) == inputScale # 0 /\ (pointerHeld \/ ~scaleIsOld)
\* inputScaleReady: a value that is there and not old will do, except for a press.
ScaleWillDo(event) == inputScale # 0 /\ event.kind # "press" /\ (pointerHeld \/ ~scaleIsOld)

\* right: sent with the skew Chrome had when it was measured, or has.
Arrives(event, scale, measured) ==
  /\ arrived' = Append(arrived, [n |-> event.n, kind |-> event.kind, text |-> event.text,
                                 right |-> event.kind \notin Pointer \/ scale \in {skew, measured}])
  /\ pageHeld' = CASE event.kind = "press" -> TRUE [] event.kind \in {"release", "move"} -> FALSE
                   [] OTHER -> pageHeld
  /\ inputQueue' = Tail(inputQueue) /\ probeStep' = "none" /\ probeSaw' = 0

\* What needs no measurement goes as it is.
SendHead ==
  /\ inputQueue # <<>> /\ probeStep = "none"
  /\ Head(inputQueue).kind \notin Pointer \/ ScaleWillDo(Head(inputQueue))
  /\ Arrives(Head(inputQueue), inputScale, 0)
  /\ UNCHANGED <<callsMade, pendingDown, flushQueued, skew, inputScale, scaleIsOld, pointerHeld, dragCut,
                 chromeInputBudget>>
ProbeArms ==
  /\ inputQueue # <<>> /\ probeStep = "none"
  /\ Head(inputQueue).kind \in Pointer /\ ~ScaleWillDo(Head(inputQueue)) /\ probeStep' = "armed"
  /\ UNCHANGED <<callsMade, pendingDown, flushQueued, inputQueue, probeSaw, skew, inputScale, scaleIsOld,
                 pointerHeld, arrived, pageHeld, dragCut, chromeInputBudget>>
\* The move without buttons, which ends a drag the page is in.
ProbeMoves ==
  /\ probeStep = "armed" /\ probeStep' = "moved" /\ probeSaw' = skew
  /\ dragCut' = (dragCut \/ pageHeld) /\ pageHeld' = FALSE
  /\ UNCHANGED <<callsMade, pendingDown, flushQueued, inputQueue, skew, inputScale, scaleIsOld, pointerHeld,
                 arrived, chromeInputBudget>>
\* The event follows at once. A measurement that is lost keeps the value there was, or none.
ProbeEnds(missed) ==
  /\ probeStep = "moved" /\ (missed => SpendInput("misses")) /\ (~missed => UNCHANGED chromeInputBudget)
  /\ scaleIsOld' = FALSE
  /\ inputScale' = IF ~missed THEN probeSaw ELSE IF inputScale # 0 THEN inputScale ELSE 1
  /\ Arrives(Head(inputQueue), inputScale', IF missed THEN inputScale' ELSE probeSaw)
  /\ UNCHANGED <<callsMade, pendingDown, flushQueued, skew, pointerHeld, dragCut>>

-----------------------------------------------------------------------------
(* Chrome. *)

SkewChanges == /\ SpendInput("skews") /\ skew' = 3 - skew
               /\ UNCHANGED <<callsMade, pendingDown, flushQueued, inputQueue, probeStep, probeSaw,
                              inputScale, scaleIsOld, pointerHeld, arrived, pageHeld, dragCut>>
ScaleAges == /\ inputScale # 0 /\ ~scaleIsOld /\ SpendInput("ages") /\ scaleIsOld' = TRUE
             /\ UNCHANGED <<callsMade, pendingDown, flushQueued, inputQueue, probeStep, probeSaw, skew,
                            inputScale, pointerHeld, arrived, pageHeld, dragCut>>
\* applyMetrics and onFrameNavigated.
InvalidateInputScale ==
  /\ inputScale # 0 /\ SpendInput("metrics") /\ inputScale' = 0
  /\ UNCHANGED <<callsMade, pendingDown, flushQueued, inputQueue, probeStep, probeSaw, skew, scaleIsOld,
                 pointerHeld, arrived, pageHeld, dragCut>>

ChromeInputNext ==
  \/ \E kind \in {"keyDown", "char", "keyUp"} : PushKey(kind)
  \/ \E kind \in Pointer : DragMoves(kind)
  \/ FlushKeys \/ SendHead \/ ProbeArms \/ ProbeMoves
  \/ \E missed \in BOOLEAN : ProbeEnds(missed)
  \/ SkewChanges \/ ScaleAges \/ InvalidateInputScale
ChromeInputSpec == ChromeInputInit /\ [][ChromeInputNext]_chromeInputVars

-----------------------------------------------------------------------------
(* Properties. *)

ChromeInputTypeOK ==
  /\ pendingDown.n \in 0..callsMade /\ probeStep \in {"none", "armed", "moved"}
  /\ probeSaw \in 0..2 /\ skew \in {1, 2} /\ inputScale \in {0, 1, 2}
  /\ {flushQueued, scaleIsOld, pointerHeld, pageHeld, dragCut} \subseteq BOOLEAN
  /\ probeStep # "none" => inputQueue # <<>>

\* "Keys wait their turn behind any pointer event still queued so a click-then-type is not reordered":
\* nothing reaches the page before a pointer event that was called before it.
ClickThenType ==
  \A i, j \in DOMAIN arrived : i < j /\ arrived[j].kind \in Pointer => arrived[i].n < arrived[j].n
\* A char is typed once, and by the key it came behind.
TypedOnce ==
  /\ \A i, j \in DOMAIN arrived : arrived[i].text # 0 /\ arrived[i].text = arrived[j].text => i = j
  /\ \A i \in DOMAIN arrived : arrived[i].text # 0 /\ arrived[i].kind = "key" => arrived[i].n < arrived[i].text

\* "A press is measured afresh, whatever the cache says": it lands where the skew it met, or the one
\* measured for it, says, unless the measurement was lost.
PressLandsTrue == \A i \in DOMAIN arrived : arrived[i].kind = "press" => arrived[i].right

\* "Never mid-drag: the probe is a buttonless move, and it would end the drag on the page."
NeverMidDrag == ~dragCut
=============================================================================
