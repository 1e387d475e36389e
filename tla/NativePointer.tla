--------------------------- MODULE NativePointer ---------------------------
\* Where the pointer really is in a pane whose terminal only says in which cell
\* (src/electron/native-input.cjs GridEstimate, NativeInput.report, hit; main.cjs
\* dispatchMouse, withNativePane, the "move" handler; mouse-click-state.cjs).  One axis,
\* in half points.  The helper sees every position; the terminal reports a cell each time the
\* pointer enters one, later.  Where cell 0 starts is found from both.
EXTENDS Integers, Sequences, FiniteSets, FiniteSetsExt, SequencesExt

CONSTANTS Places,        \* where the pointer can be, from the window's left edge
          Origins,       \* where the terminal's grid may start
          Cell,          \* the width of a cell
          Cols,          \* cells of the pane, the first of the terminal's grid among them
          PointerScenes  \* what may happen, how often: [moves, presses, late, shifts, windows]

\* Further than any screen is wide, in half points: the interval before the first report.
Boundless == 100000

ASSUME PointerAssumption ==
  Places \subseteq 0..Boundless /\ Origins \subseteq 0..Boundless /\ Cell \in Nat /\ Cols \in Nat /\ 4 <= Cell

\* REPORT_WINDOW_MS in ticks: no report is later than that, but those counted as late.
ReportWindow == 1
Agree == 2
Anywhere == [lo |-> -Boundless, hi |-> Boundless]
NoChallenger == [lo |-> 1, hi |-> -1]
NoReport == [col |-> -1, after |-> 0]

VARIABLES pos, origin,  \* the truth: the pointer, and where cell 0 starts
          button,       \* whether the hardware's button is down
          over,         \* whether the pane's terminal is the window under the pointer
          seen,         \* NativeInput.window: what the helper last said of that
          samples,      \* NativeInput.samples: [x, age]
          cellReports,         \* terminal reports on their way: [col, age, what]
          estimate, challenger, lastReport,
          latched, heldButton,  \* paneNative
          sent,         \* the last point given to the page: [off, from, button], how far off the pointer it was
          misled,        \* for the properties: what may have misled the estimate
          pointerSpend
pointerVars == <<pos, origin, button, over, seen, samples, cellReports, estimate, challenger, lastReport,
                 latched, heldButton, sent, misled, pointerSpend>>
Sees == <<samples, estimate, challenger, lastReport>>
SendsPointer == <<latched, heldButton, sent>>

SpendPointer(what) == pointerSpend[what] > 0 /\ pointerSpend' = [pointerSpend EXCEPT ![what] = @ - 1]
CellOf(x) == (x - origin) \div Cell
InPane(x) == x >= origin /\ CellOf(x) < Cols
Nowhere == [off |-> 0, from |-> "none", button |-> FALSE]

PointerInit ==
    /\ pos \in Places /\ origin \in Origins /\ button = FALSE /\ over = TRUE /\ seen = TRUE
    /\ samples = <<>> /\ cellReports = <<>> /\ estimate = Anywhere /\ challenger = NoChallenger
    /\ lastReport = NoReport /\ latched = FALSE /\ heldButton = FALSE /\ sent = Nowhere
    /\ misled = {} /\ pointerSpend \in PointerScenes

------------------------------------------------------------------------------
\* GridEstimate and AxisEstimate.

Fits(e, b) == Max({e.lo, b.lo}) <= Min({e.hi, b.hi}) + Agree
Apply(e, b) ==
    LET lo == Max({e.lo, b.lo})
        hi == Min({e.hi, b.hi})
    IN IF lo > hi THEN [lo |-> (lo + hi) \div 2, hi |-> (lo + hi) \div 2] ELSE [lo |-> lo, hi |-> hi]
Narrow(e) == e.hi - e.lo <= Max({2, Cell \div 2})

\* A report the estimate cannot hold goes to the challenger, which takes over once it is narrow.
Offer(g, b) ==
    IF Fits(g.estimate, b) THEN [estimate |-> Apply(g.estimate, b), challenger |-> NoChallenger]
    ELSE LET c == IF g.challenger = NoChallenger \/ ~Fits(g.challenger, b) THEN b
                  ELSE Apply(g.challenger, b)
         IN IF Narrow(c) THEN [estimate |-> c, challenger |-> NoChallenger]
            ELSE [estimate |-> g.estimate, challenger |-> c]
Grid == [estimate |-> estimate, challenger |-> challenger]

\* Where cell 0 may start if the pointer was in a cell at one of some samples.
Bounds(col, xs) == [lo |-> Min(xs) - (col + 1) * Cell, hi |-> Max(xs) - col * Cell]
Offered(g, col, xs) == IF xs = {} THEN g ELSE Offer(g, Bounds(col, xs))

Middle(e) == (e.lo + e.hi) \div 2
WithinCell(e, x) == (x - Middle(e)) \div Cell

------------------------------------------------------------------------------
\* The pointer and its two streams.

\* sendPointerEvent: a move, a press or a release.
Moves(x, at, from, b) == sent' = [off |-> x - (at - origin), from |-> from, button |-> b]

\* withNativePane and the "move" handler, for the pane.
Hit(x) == x - Middle(estimate)
Inside(x) == Hit(x) >= 0 /\ Hit(x) < Cols * Cell
NativeMove(x) ==
    IF ~latched THEN UNCHANGED SendsPointer
    ELSE IF ~seen THEN latched' = FALSE /\ UNCHANGED <<heldButton, sent>>
    ELSE IF ~Narrow(estimate) THEN UNCHANGED SendsPointer
    ELSE IF ~Inside(x) /\ ~heldButton THEN latched' = FALSE /\ UNCHANGED <<heldButton, sent>>
    ELSE Moves(Hit(x), x, "pointer", button /\ heldButton) /\ UNCHANGED <<latched, heldButton>>

\* The pointer moves: the helper's line is first, and the terminal reports a cell entered.
PointerMoves(x) ==
    /\ x # pos /\ SpendPointer("moves") /\ pos' = x
    /\ samples' = Append(samples, [x |-> x, age |-> 0])
    /\ cellReports' = IF over /\ InPane(x) /\ CellOf(x) # CellOf(pos)
                      THEN Append(cellReports, [col |-> CellOf(x), age |-> 0,
                                                 what |-> IF button THEN "drag" ELSE "motion"])
                      ELSE cellReports
    /\ NativeMove(x)
    /\ misled' = IF (over /\ InPane(x)) \/ lastReport = NoReport THEN misled ELSE misled \cup {"left"}
    /\ UNCHANGED <<origin, button, over, seen, estimate, challenger, lastReport>>

\* A press or a release names the cell the terminal last tracked, which need not be where it is.
Buttons ==
    /\ over /\ (button \/ InPane(pos)) /\ SpendPointer("presses") /\ button' = ~button
    /\ \E stale \in {CellOf(pos)} \cup {CellOf(x) : x \in {x \in Places : InPane(x)}} :
          cellReports' = Append(cellReports, [col |-> stale, age |-> 0, what |-> IF button THEN "up"
                                                                                 ELSE "down"])
    /\ UNCHANGED <<pos, origin, over, seen, misled>> /\ UNCHANGED Sees /\ UNCHANGED SendsPointer

\* The window under the pointer changes, and the helper says so.
WindowChanges == over' = ~over /\ ~button /\ cellReports = <<>> /\ SpendPointer("windows")
    /\ UNCHANGED <<pos, origin, button, seen, cellReports, misled>> /\ UNCHANGED Sees
    /\ UNCHANGED SendsPointer
HelperSays ==
    /\ seen # over /\ seen' = over /\ samples' = <<>>
    /\ lastReport' = [lastReport EXCEPT !.after = 0]
    /\ misled' = IF cellReports = <<>> THEN misled ELSE misled \cup {"left"}
    /\ UNCHANGED <<pos, origin, button, over, cellReports, estimate, challenger, pointerSpend>>
    /\ UNCHANGED SendsPointer

\* The terminal's grid moves: a tab bar shows.
GridShifts(o) ==
    /\ o # origin /\ SpendPointer("shifts") /\ origin' = o /\ misled' = misled \cup {"shift"}
    /\ UNCHANGED <<pos, button, over, seen, cellReports>> /\ UNCHANGED Sees /\ UNCHANGED SendsPointer

Age(s) == [i \in DOMAIN s |-> [s[i] EXCEPT !.age = Min({@ + 1, 3})]]
PointerTick ==
    /\ \E s \in {samples, cellReports} : s # Age(s)
    /\ IF \E i \in DOMAIN cellReports : cellReports[i].age >= ReportWindow
       THEN SpendPointer("late") /\ misled' = misled \cup {"late"}
       ELSE UNCHANGED <<pointerSpend, misled>>
    /\ samples' = Age(samples) /\ cellReports' = Age(cellReports)
    /\ UNCHANGED <<pos, origin, button, over, seen, estimate, challenger, lastReport>>
    /\ UNCHANGED SendsPointer

------------------------------------------------------------------------------
\* NativeInput.report, and dispatchMouse of what it answers.

Recent == {samples[i].x : i \in {i \in DOMAIN samples : samples[i].age <= ReportWindow}}
SettledIn ==
  {samples[i].x : i \in {i \in DOMAIN samples : samples[i].age > ReportWindow /\ i > lastReport.after}}
AfterReport(r) ==
    LET g == Offered(Grid, r.col, Recent)
    IN IF r.what \notin {"motion", "drag"} THEN Grid
       ELSE IF lastReport.col \notin {-1, r.col} THEN Offered(g, lastReport.col, SettledIn) ELSE g

\* FRESH_MS is twice the window.
Agrees(g, r) ==
    /\ samples # <<>> /\ Last(samples).age <= 2 * ReportWindow /\ Narrow(g.estimate)
    /\ WithinCell(g.estimate, Last(samples).x) \in r.col - 1 .. r.col + 1

ReportArrives ==
    /\ cellReports # <<>> /\ cellReports' = Tail(cellReports)
    /\ LET r == Head(cellReports)
           motion == r.what \in {"motion", "drag"}
           g == IF seen THEN AfterReport(r) ELSE Grid
           native == seen /\ Agrees(g, r)
       IN /\ estimate' = g.estimate /\ challenger' = g.challenger
          /\ lastReport' = IF seen /\ motion THEN [col |-> r.col, after |-> Len(samples)] ELSE lastReport
          /\ latched' = (latched \/ native)
          /\ misled' = IF ~seen /\ motion /\ lastReport # NoReport THEN misled \cup {"left"} ELSE misled
          /\ heldButton' = (r.what \in {"down", "drag"})
          /\ IF native THEN Moves(Last(samples).x - Middle(g.estimate), Last(samples).x, "agreed",
                              r.what \in {"down", "drag"})
             ELSE Moves(r.col * Cell + (Cell \div 2), pos, "cell", r.what \in {"down", "drag"})
    /\ UNCHANGED <<pos, origin, button, over, seen, samples, pointerSpend>>

PointerNext ==
    \/ \E x \in Places : PointerMoves(x)
    \/ \E o \in Origins : GridShifts(o)
    \/ Buttons \/ WindowChanges \/ HelperSays \/ PointerTick \/ ReportArrives

PointerSpec == PointerInit /\ [][PointerNext]_pointerVars
------------------------------------------------------------------------------

PointerTypeOK ==
    /\ heldButton \in BOOLEAN /\ latched \in BOOLEAN /\ misled \subseteq {"shift", "late", "left"}
    /\ estimate.lo <= estimate.hi /\ sent.from \in {"none", "cell", "agreed", "pointer"}

\* Where cell 0 starts is in the interval the reports have left, as long as the grid stands
\* still, no report is later than the window the code allows the terminal's path, and the pointer has
\* not been away from the pane since a report, nor come to a cell the helper did not hear of: "the cell
\* the LAST report named: the pointer stayed in it until it left for this one".
EstimateIsRight == misled = {} => estimate.lo <= origin /\ origin <= estimate.hi

\* A point given to the page as the pointer's own is then where the pointer is, to less than half a
\* cell, whatever a press says of a cell the pointer has left.
PointIsTrue ==
    sent.from \in {"agreed", "pointer"} /\ misled = {} => -(Cell \div 2) <= sent.off /\ sent.off <= Cell \div 2
=============================================================================
