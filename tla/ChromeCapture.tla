---- MODULE ChromeCapture ----
(***************************************************************************)
(* How a page in Chrome gets drawn (cdp/web-contents.cjs). Screencast      *)
(* frames tell that the page changed and are drawn while it moves; a       *)
(* screenshot in device pixels, one at a time, sharpens it when it rests.  *)
(* The interval of the pane's frame rate, the settle and the grace timers  *)
(* are steps that may come in any order the code's times allow.            *)
(* Chrome is external: it sends a frame for every change, takes a shot     *)
(* under the metrics of its beginning and puts those back when it ends.    *)
(***************************************************************************)
EXTENDS Naturals, FiniteSets, SequencesExt

CONSTANTS
  Looks,         \* what the page can look like
  Budgets,       \* how often the page may change, the pane be resized, painting be stopped, asked
                 \* for, hurried or a shot be asked for from outside, and a shot not come in time
  ScalesAgree    \* whether the tab is emulated at the browser's own scale

CaptureAssumption ==
  /\ Looks # {} /\ "none" \notin Looks /\ ScalesAgree \in BOOLEAN
  /\ Budgets \subseteq [changes : Nat, resizes : Nat, switches : Nat, timeouts : Nat]
ASSUME CaptureAssumption

VARIABLES
  page,      \* what the page looks like
  want,      \* the pane's size: setViewport and frameSize
  applied,   \* the size Chrome lays the page out at
  override,  \* sizes sent and not yet applied
  casts,     \* screencast frames Chrome has sent
  grab,      \* each screenshot: how far it is, the size it began at, its picture
  painting, screencast,
  cap,       \* this.capture: what waits, what is armed
  shotSeen,      \* lastSignal, lastCast and lastBitmap
  pane,      \* what the pane shows, with its size and whether it is soft
  slips,     \* history: what the comments rule out and the code lets through
  warm,      \* whether Chrome sends frames in device pixels
  budget     \* what may still happen

chromeState == <<page, applied, override, casts, warm>>
wishes == <<want, painting>>
captureVars == <<page, want, applied, override, casts, grab, painting, screencast, cap, shotSeen, pane,
                 slips, warm, budget>>

Shots == {"pump", "page", "late"}
None == [look |-> "none", size |-> 0, kind |-> "none"]
Pictures == [look : Looks, size : Nat, kind : {"css", "device", "shot"}]
NoShot == [stage |-> "none", began |-> 0, pic |-> None, stale |-> FALSE]
\* Chrome begins a shot when it has carried out what it was sent before.
Asked(sent) == [NoShot EXCEPT !.stage = "begun", !.began = IF sent = <<>> THEN applied ELSE Last(sent)]
Flying(shots) == Cardinality({s \in {"pump", "page"} : shots[s].stage \in {"begun", "done"}})

\* A screencast frame: in CSS pixels until a shot has been taken, and at times after a resize.
Cast(look, size) == [look |-> look, size |-> size, kind |-> IF warm THEN "device" ELSE "css"]

\* The end of initialize(): its invalidate has asked for a shot, then the screencast started.
CaptureInit ==
  /\ page \in Looks /\ want = 0 /\ applied = 0 /\ override = <<>>
  /\ painting = TRUE /\ screencast = TRUE
  /\ warm = FALSE /\ casts = <<Cast(page, 0)>>
  /\ grab = [s \in Shots |-> IF s = "pump" THEN Asked(<<>>) ELSE NoShot]
  /\ cap = [dirty |-> FALSE, timer |-> FALSE, cast |-> "none", pending |-> None, inCapture |-> FALSE,
            settle |-> FALSE, grace |-> FALSE, fresh |-> FALSE, force |-> TRUE, soft |-> FALSE,
            expedite |-> TRUE, behind |-> FALSE, fits |-> 0, due |-> FALSE]
  /\ shotSeen = [signal |-> None, cast |-> None, bitmap |-> None]
  /\ pane = [look |-> "none", size |-> 0, soft |-> FALSE]
  /\ slips = {}
  /\ budget \in Budgets

-----------------------------------------------------------------------------
\* What the methods below leave of b: the capture state, the shots, the metrics sent.

\* A frame whose turn has come is looked at before anything that takes longer.
NoneRipe == cap.cast # "ripe"

Ready(c) == c.expedite \/ c.due
AtOnce == [cap |-> cap, grab |-> grab, sent |-> override]
Leaves(b) == cap' = b.cap /\ grab' = b.grab /\ override' = b.sent

\* pumpCapture: starts a shot, arms the timer for the end of the interval, or neither.
Pumped(b, on) ==
  IF ~b.cap.dirty \/ b.cap.timer \/ Flying(b.grab) >= 1 \/ ~on THEN b
  ELSE IF ~Ready(b.cap) THEN [b EXCEPT !.cap.timer = TRUE]
  ELSE [b EXCEPT !.cap.dirty = FALSE, !.cap.due = FALSE,
                 !.cap.cast = IF @ = "waits" THEN "ripe" ELSE @, !.grab["pump"] = Asked(b.sent)]

Requested(b, on) == IF on THEN Pumped([b EXCEPT !.cap.dirty = TRUE], on) ELSE b

\* rearmWaits: what waits out the interval is scheduled afresh.
Rearmed(b) ==
  LET p == IF b.cap.timer THEN Pumped([b EXCEPT !.cap.timer = FALSE], painting) ELSE b IN
    [p EXCEPT !.cap.cast = IF @ = "none" THEN @ ELSE IF Ready(p.cap) THEN "ripe" ELSE "waits"]

\* invalidate: the next frame is forced through, waits are cut short, and a running screencast has
\* a moment's grace to show the change before a shot is asked for.
Invalidated(b) ==
  IF ~painting THEN b
  ELSE LET r == Rearmed([b EXCEPT !.cap.force = TRUE, !.cap.expedite = TRUE]) IN
       IF ~screencast THEN Requested(r, TRUE)
       ELSE [r EXCEPT !.cap.grace = TRUE, !.cap.fresh = b.cap.grace /\ @]

\* applyMetrics: sent now, and again later if a shot is in flight that would undo it.
MetricsSent(b, size) ==
  [b EXCEPT !.sent = Append(@, size), !.cap.behind = @ \/ Flying(b.grab) > 0, !.cap.fits = @ + 1]

\* A slot that is given back without the metrics the shot has undone.
GivesSlotOnly(b) == Pumped(b, painting)

\* The slot is given back: metrics sent meanwhile are sent again, and the pump goes on.
GivenBack(b) ==
  LET over == b.cap.behind /\ Flying(b.grab) = 0 IN
    Pumped(IF over THEN MetricsSent([b EXCEPT !.cap.behind = FALSE], want) ELSE b, painting)

\* A paint that reaches the pane: main.cjs drops a picture of another size than the pane's.
Painted(pic, soft) ==
  IF pic.size = want THEN pane' = [look |-> pic.look, size |-> want, soft |-> soft] ELSE UNCHANGED pane

-----------------------------------------------------------------------------
\* Chrome.

SpendShot(what) == budget[what] > 0 /\ budget' = [budget EXCEPT ![what] = @ - 1]

PageChanges ==
  /\ SpendShot("changes")
  /\ \E l \in Looks \ {page} :
       page' = l /\ casts' = IF screencast THEN Append(casts, Cast(l, applied)) ELSE casts
  /\ UNCHANGED <<wishes, applied, override, warm, grab, screencast, cap, shotSeen, pane, slips>>

\* Chrome lays the page out at a size; the screencast shows it.
LaidOut(size) ==
  /\ applied' = size
  /\ casts' = IF screencast /\ applied # size THEN Append(casts, Cast(page, size)) ELSE casts

ChromeApplies ==
  /\ override # <<>>
  /\ override' = Tail(override) /\ LaidOut(Head(override))
  /\ warm' \in {warm, warm /\ Head(override) = applied}
  /\ UNCHANGED <<page, wishes, grab, screencast, cap, shotSeen, pane, slips, budget>>

\* A shot that timed out may end as well; nobody waits for it.
ChromeEnds(s) ==
  /\ grab[s].stage = "begun" /\ NoneRipe /\ grab[s].began \notin Range(override)
  /\ grab' = [grab EXCEPT ![s] =
       IF s = "late" THEN NoShot
       ELSE [@ EXCEPT !.stage = "done", !.pic = [look |-> page, size |-> grab[s].began, kind |-> "shot"]]]
  /\ slips' = IF s = "late" /\ applied # grab[s].began THEN slips \cup {"late"} ELSE slips
  /\ LaidOut(grab[s].began) /\ warm' = TRUE
  /\ UNCHANGED <<page, override, wishes, screencast, cap, shotSeen, pane, budget>>

-----------------------------------------------------------------------------
\* Screencast frames.

\* onScreencastFrame: an unchanged frame is a capture's echo; another waits for its turn. While painting
\* is stopped it is kept, and a turn that was given before comes to it.
CastArrives ==
  /\ casts # <<>> /\ casts' = Tail(casts)
  /\ LET f == Head(casts) IN
       IF f = shotSeen.signal THEN UNCHANGED <<cap, shotSeen>>
       ELSE /\ shotSeen' = [shotSeen EXCEPT !.signal = f]
            /\ cap' = [cap EXCEPT !.fresh = @ \/ cap.grace, !.settle = TRUE,
                                  !.inCapture = ~ScalesAgree /\ Flying(grab) > 0,
                                  !.pending = f,
                                  !.cast = IF @ # "none" \/ ~painting THEN @
                                           ELSE IF Ready(cap) THEN "ripe" ELSE "waits"]
  /\ UNCHANGED <<page, applied, override, warm, wishes, grab, screencast, pane, slips, budget>>

\* A frame of the pane's own size, not to be taken for the stretched one of a running capture.
Drawable(f) == f.size = want /\ f.kind = "device" /\ (ScalesAgree \/ ~cap.inCapture)
AsksForShot(f) == f.size = want /\ (f.kind = "css" \/ (cap.inCapture /\ ~ScalesAgree))

CastTurn == cap.cast = "ripe" /\ UNCHANGED <<chromeState, wishes, screencast, budget>>
Taken == [AtOnce EXCEPT !.cap.cast = "none", !.cap.pending = None]

\* The frame is drawn, soft, where it differs from the last one drawn; a shot begun before is stale.
CastDraws ==
  /\ CastTurn /\ painting /\ Drawable(cap.pending)
  /\ shotSeen' = [shotSeen EXCEPT !.cast = cap.pending]
  /\ IF shotSeen.cast # None /\ shotSeen.cast.size = want /\ shotSeen.cast.look # cap.pending.look
     THEN /\ Leaves([Taken EXCEPT !.cap.soft = TRUE, !.cap.force = FALSE, !.cap.due = FALSE,
                                  !.cap.expedite = FALSE, !.grab["pump"].stale = grab["pump"] # NoShot])
          /\ slips' = IF ~cap.settle /\ ~cap.dirty THEN slips \cup {"stale"} ELSE slips
          /\ Painted(cap.pending, TRUE)
     ELSE Leaves(Taken) /\ UNCHANGED <<slips, pane>>

\* A frame at another scale is a change signal only: the change is captured at once.
CastAsks ==
  /\ CastTurn /\ painting /\ AsksForShot(cap.pending)
  /\ Leaves(Requested(Taken, TRUE))
  /\ UNCHANGED <<shotSeen, pane, slips>>

\* A frame of another size is dropped and the window fitted, for the settle to draw the change;
\* nothing is drawn while painting is stopped.
CastDrops ==
  /\ CastTurn /\ (~painting \/ cap.pending.size # want)
  /\ Leaves(Taken)
  /\ UNCHANGED <<shotSeen, pane, slips>>

-----------------------------------------------------------------------------
\* Timers.

Timer(armed, b) ==
  /\ armed /\ Leaves(b)
  /\ UNCHANGED <<chromeState, wishes, screencast, shotSeen, pane, slips, budget>>

IntervalPasses ==
  Timer(~cap.due /\ NoneRipe, [AtOnce EXCEPT !.cap.due = TRUE, !.cap.cast = IF @ = "waits" THEN "ripe"
                                                                            ELSE @])
TimerFires == Timer(cap.timer /\ cap.due, Pumped([AtOnce EXCEPT !.cap.timer = FALSE], painting))
SettleFires ==
  Timer(cap.settle /\ NoneRipe, Requested([AtOnce EXCEPT !.cap.settle = FALSE, !.cap.force = TRUE], painting))
GraceEnds ==
  LET over == [AtOnce EXCEPT !.cap.grace = FALSE, !.cap.fresh = FALSE] IN
    Timer(cap.grace /\ NoneRipe, IF cap.fresh THEN over ELSE Requested(over, painting))

-----------------------------------------------------------------------------
\* Screenshots.

\* captureFrame's answer: drawn where it differs from the last shot or where frames were drawn
\* since, unless a frame newer than the shot was drawn meanwhile.
ShotDraws ==
  /\ grab["pump"].stage = "done"
  /\ LET pic == grab["pump"].pic
         used == ~grab["pump"].stale \/ cap.force
         drawn == used /\ (shotSeen.bitmap # pic \/ cap.soft \/ cap.force)
     IN
       /\ Leaves(GivenBack([AtOnce EXCEPT !.grab["pump"] = NoShot, !.cap.soft = @ /\ ~used,
                                !.cap.force = @ /\ ~drawn, !.cap.expedite = @ /\ ~drawn]))
       /\ shotSeen' = IF used THEN [shotSeen EXCEPT !.bitmap = pic] ELSE shotSeen
       /\ IF drawn THEN Painted(pic, FALSE) ELSE UNCHANGED pane
  /\ UNCHANGED <<page, applied, casts, warm, wishes, screencast, slips, budget>>

\* Not answered in time: the slot is given back, and whatever changed is still unpainted. Chrome may
\* be at it yet.
ShotTimesOut ==
  /\ grab["pump"].stage = "begun" /\ grab["late"] = NoShot
  /\ SpendShot("timeouts")
  /\ \E s \in {NoShot, grab["pump"]} :
       Leaves(GivenBack([AtOnce EXCEPT !.cap.dirty = TRUE, !.grab["pump"] = NoShot, !.grab["late"] = s]))
  /\ UNCHANGED <<page, applied, casts, warm, wishes, screencast, shotSeen, pane, slips>>

\* capturePage: a shot asked for from outside waits for the slot.
AskPage ==
  /\ grab["page"] = NoShot /\ SpendShot("switches")
  /\ grab' = [grab EXCEPT !["page"].stage = "waits"]
  /\ UNCHANGED <<chromeState, wishes, screencast, cap, shotSeen, pane, slips>>

SlotFree == Flying(grab) = 0
PageTakesSlot ==
  /\ grab["page"].stage = "waits" /\ SlotFree
  /\ grab' = [grab EXCEPT !["page"] = Asked(override)]
  /\ UNCHANGED <<chromeState, wishes, screencast, cap, shotSeen, pane, slips, budget>>

\* The wait is bounded.
PageWaitsNoLonger ==
  /\ grab["page"].stage = "waits" /\ ~SlotFree
  /\ SpendShot("timeouts")
  /\ grab' = [grab EXCEPT !["page"] = Asked(override)]
  /\ slips' = slips \cup {"two"}
  /\ UNCHANGED <<chromeState, wishes, screencast, cap, shotSeen, pane>>

PageAnswered ==
  /\ grab["page"].stage = "done"
  /\ Leaves(GivenBack([AtOnce EXCEPT !.grab["page"] = NoShot]))
  /\ UNCHANGED <<page, applied, casts, warm, wishes, screencast, shotSeen, pane, slips, budget>>

-----------------------------------------------------------------------------
\* The pane.

\* relayout and setViewport: metrics go to Chrome, the window is fitted to them, then an invalidate.
Resize ==
  /\ SpendShot("resizes") /\ want' = want + 1
  /\ Leaves(MetricsSent(AtOnce, want'))
  /\ UNCHANGED <<page, applied, casts, warm, painting, screencast, shotSeen, pane, slips>>

MetricsFitted ==
  /\ cap.fits > Len(override)
  /\ Leaves(Invalidated([AtOnce EXCEPT !.cap.fits = @ - 1]))
  /\ UNCHANGED <<chromeState, wishes, screencast, shotSeen, pane, slips, budget>>

AskPaint ==
  /\ painting /\ SpendShot("switches")
  /\ Leaves(Invalidated(AtOnce))
  /\ UNCHANGED <<chromeState, wishes, screencast, shotSeen, pane, slips>>

\* setFrameRate to a higher rate, at which the interval is over.
RaiseFrameRate ==
  /\ ~cap.due /\ SpendShot("switches")
  /\ Leaves(Rearmed([AtOnce EXCEPT !.cap.due = TRUE]))
  /\ UNCHANGED <<chromeState, wishes, screencast, shotSeen, pane, slips>>

StopPainting ==
  /\ painting /\ SpendShot("switches")
  /\ painting' = FALSE /\ screencast' = FALSE
  /\ UNCHANGED <<chromeState, want, grab, cap, shotSeen, pane, slips>>

\* The screencast starts afresh, and the tab is captured at once.
StartPainting ==
  /\ ~painting
  /\ painting' = TRUE /\ screencast' = TRUE
  /\ casts' = Append(casts, Cast(page, applied))
  /\ shotSeen' = [shotSeen EXCEPT !.signal = None]
  /\ Leaves(Requested([AtOnce EXCEPT !.cap.force = TRUE], TRUE))
  /\ UNCHANGED <<page, applied, override, warm, want, pane, slips, budget>>

ChromeStep ==
  ChromeApplies \/ \E s \in Shots : ChromeEnds(s)
CastStep == CastArrives \/ CastDraws \/ CastAsks \/ CastDrops
TimerStep == IntervalPasses \/ TimerFires \/ SettleFires \/ GraceEnds
ShotStep == ShotDraws \/ PageTakesSlot \/ PageAnswered

CaptureNext ==
  \/ PageChanges \/ ChromeStep \/ CastStep \/ TimerStep \/ ShotStep \/ MetricsFitted
  \/ ShotTimesOut \/ AskPage \/ PageWaitsNoLonger
  \/ Resize \/ AskPaint \/ RaiseFrameRate \/ StopPainting \/ StartPainting

CaptureSpec == CaptureInit /\ [][CaptureNext]_captureVars

CaptureFairness ==
  /\ WF_captureVars(ChromeApplies) /\ WF_captureVars(CastArrives)
  /\ WF_captureVars(CastDraws \/ CastAsks \/ CastDrops)
  /\ \A s \in Shots : WF_captureVars(ChromeEnds(s))
  /\ WF_captureVars(IntervalPasses) /\ WF_captureVars(TimerFires) /\ WF_captureVars(SettleFires)
  /\ WF_captureVars(GraceEnds) /\ WF_captureVars(MetricsFitted)
  /\ WF_captureVars(ShotDraws) /\ WF_captureVars(PageTakesSlot) /\ WF_captureVars(PageAnswered)

-----------------------------------------------------------------------------
CaptureTypeOK ==
  /\ page \in Looks /\ want \in Nat /\ applied \in Nat /\ warm \in BOOLEAN
  /\ override \in Seq(Nat) /\ casts \in Seq(Pictures)
  /\ grab \in [Shots -> [stage : {"none", "waits", "begun", "done"}, began : Nat,
                         pic : Pictures \cup {None}, stale : BOOLEAN]]
  /\ painting \in BOOLEAN /\ screencast \in BOOLEAN
  /\ cap.cast \in {"none", "waits", "ripe"} /\ cap.pending \in Pictures \cup {None} /\ cap.fits \in Nat
  /\ shotSeen \in [{"signal", "cast", "bitmap"} -> Pictures \cup {None}]
  /\ pane \in [look : Looks \cup {"none"}, size : Nat, soft : BOOLEAN]
  /\ slips \subseteq {"stale", "late", "two"}

\* Nothing is on its way: no frame, no shot, no metrics, no timer.
PaneRests ==
  /\ painting /\ casts = <<>> /\ override = <<>> /\ cap.fits = 0
  /\ \A s \in Shots : grab[s] = NoShot
  /\ ~cap.timer /\ cap.cast = "none" /\ ~cap.settle /\ ~cap.grace

RestsSharp == pane = [look |-> page, size |-> want, soft |-> FALSE]

\* A page at rest is shown as it is, sharp and at the pane's size.
StillIsSharp == PaneRests => RestsSharp

\* The same, but for the two slips the table of the README tells of.
StillIsSharpButSlips == PaneRests /\ slips \cap {"stale", "late"} = {} => RestsSharp

\* Chrome is asked for one shot at a time, but for the one whose wait was bounded.
OneShot == "two" \notin slips => Flying(grab) <= 1
====
