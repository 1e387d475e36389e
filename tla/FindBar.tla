------------------------------ MODULE FindBar ------------------------------
(* Find in a page: the bar and n of the page script (preload.cjs), the find session main.cjs keeps
   for the tab (find-session.cjs), and the matcher of the engine that shows it: Chromium's own on
   Electron, a script in the page on Chrome and WebKit (findInPage of cdp/web-contents.cjs and
   webkit/web-contents.cjs). Messages between the three keep their order and take their time.

   A query is a number, 0 the empty one; every query has FindMatches of them, searched forwards. *)
EXTENDS Naturals, Sequences

CONSTANTS
  Queries, FindMatches,
  FindScenes   \* what happens: the engine, "chrome" standing for those whose matcher is a script,
               \* and how often the bar opens or closes, keys are typed and the page goes
ASSUME FindAssumption ==
  /\ \A s \in FindScenes : s.engine \in {"electron", "chrome"}
  /\ Queries \subseteq Nat \ {0} /\ FindMatches \in Nat \ {0}

VARIABLES
  findBar,     \* the bar: shown, its query, the count it shows, closeOnResult
  waiting,     \* searchPending, searchRestoreTimer, stepSearchPending
  lastSearch,  \* the query n repeats
  calls,       \* messages on their way to main
  findSession,  \* findSessionByTab: the query of the live session, 0 for IDLE
  toPage,       \* requests the page has not run
  live,        \* the query of Chromium's own session, 0 for none
  matchAt,       \* the match that is selected, and the ordinal the matcher counts, 0 for none
  results,     \* found-in-page results on their way to the page script
  era,         \* history: which bar, or time without one, this is, a new one after a timeout or a
               \* navigation; requests and answers carry it
  stray,       \* history: the answer of an earlier era has been counted in this one
  cut,         \* history: a stop sent on an answer of this era has cancelled a request
  findSpend

findVars ==
  <<findBar, waiting, lastSearch, calls, findSession, toPage, live, matchAt, results, era, stray, cut, findSpend>>

NoBar == [shown |-> FALSE, query |-> 0, count |-> <<>>, closing |-> FALSE]
Quiet == [pending |-> 0, timer |-> FALSE, step |-> FALSE]
Nowhere == [at |-> 0, ordinal |-> 0]
FindEngine == findSpend.engine
Find(q) == [op |-> "find", query |-> q, keep |-> FALSE, era |-> era]
Stop(keep, e) == [op |-> "stop", query |-> 0, keep |-> keep, era |-> e]
NoEra == 0

FindInit == /\ findBar = NoBar /\ waiting = Quiet /\ lastSearch = 0 /\ calls = <<>> /\ findSession = 0
            /\ toPage = <<>> /\ live = 0 /\ matchAt = Nowhere /\ results = <<>> /\ era = 1 /\ stray = FALSE
            /\ cut = FALSE /\ findSpend \in FindScenes

SpendFind(what) == findSpend[what] > 0 /\ findSpend' = [findSpend EXCEPT ![what] = @ - 1]
NewEra == era' = era + 1 /\ stray' = FALSE
SessionUnmoved == UNCHANGED <<findSession, toPage, live, matchAt, results, cut>>

\* Requests and results the page script has sent for and not heard of.
UnderWay == Len(SelectSeq(calls, LAMBDA c : c.op = "find")) + Len(toPage) + Len(results)

-----------------------------------------------------------------------------
(* The page script. *)

ShowSearch == /\ ~findBar.shown /\ SpendFind("opens")
              /\ findBar' = [NoBar EXCEPT !.shown = TRUE] /\ lastSearch' = 0
              /\ waiting' = [waiting EXCEPT !.step = FALSE]
              /\ calls' = Append(calls, Stop(FALSE, NoEra)) /\ NewEra /\ SessionUnmoved

SendFind(q) == /\ waiting' = [waiting EXCEPT !.pending = @ + 1, !.timer = TRUE]
               /\ calls' = Append(calls, Find(q))

\* A letter, or Backspace, which with the last letter gone only stops.
TypesQuery(q) == /\ findBar.shown /\ q # findBar.query /\ SpendFind("types")
                 /\ findBar' = [findBar EXCEPT !.query = q, !.count = <<>>] /\ lastSearch' = q
                 /\ IF q # 0 THEN SendFind(q)
                    ELSE calls' = Append(calls, Stop(FALSE, NoEra)) /\ UNCHANGED waiting
                 /\ UNCHANGED <<era, stray>> /\ SessionUnmoved

Enter == /\ findBar.shown /\ findBar.query # 0 /\ SpendFind("types")
         /\ lastSearch' = findBar.query /\ SendFind(findBar.query)
         /\ findBar' = [findBar EXCEPT !.closing = TRUE]
         /\ UNCHANGED <<era, stray>> /\ SessionUnmoved

CancelSearch(keep) == /\ findBar' = NoBar /\ waiting' = [waiting EXCEPT !.pending = 0, !.timer = FALSE]
                      /\ calls' = Append(calls, Stop(keep, NoEra)) /\ NewEra

EscapesSearch == /\ findBar.shown /\ SpendFind("opens") /\ CancelSearch(FALSE)
                 /\ UNCHANGED lastSearch /\ SessionUnmoved

StepSearch == /\ ~findBar.shown /\ lastSearch # 0 /\ SpendFind("types")
              /\ waiting' = [waiting EXCEPT !.step = TRUE] /\ calls' = Append(calls, Find(lastSearch))
              /\ UNCHANGED <<findBar, lastSearch, era, stray>> /\ SessionUnmoved

\* 700 ms without the answer of a request.
RestoreTimer == /\ waiting.timer
                /\ IF findBar.shown /\ findBar.closing
                   THEN CancelSearch(TRUE)
                   ELSE /\ waiting' = [waiting EXCEPT !.pending = 0, !.timer = FALSE]
                        /\ NewEra /\ UNCHANGED <<findBar, calls>>
                /\ UNCHANGED <<lastSearch, findSpend>> /\ SessionUnmoved

\* The bar closes on the first answer.
ClosesAtFirst ==
  LET closes == findBar.shown /\ findBar.closing
      late == stray \/ Head(results)[3] # era
      stop == Stop(TRUE, IF late THEN NoEra ELSE era)
  IN /\ results # <<>> /\ results' = Tail(results)
     /\ calls' = calls \o (IF waiting.step THEN <<stop>> ELSE <<>>) \o (IF closes THEN <<stop>> ELSE <<>>)
     /\ IF closes THEN NewEra ELSE era' = era /\ stray' = late
     /\ waiting' = [waiting EXCEPT !.pending = IF @ > 0 THEN @ - 1 ELSE 0, !.step = FALSE]
     /\ findBar' = IF closes THEN NoBar
                   ELSE IF findBar.shown THEN [findBar EXCEPT !.count = Head(results)] ELSE findBar
     /\ UNCHANGED <<lastSearch, findSession, toPage, live, matchAt, cut, findSpend>>

FindResultArrives ==
  LET left == IF waiting.pending > 0 THEN waiting.pending - 1 ELSE 0
      closes == findBar.shown /\ left = 0 /\ findBar.closing
      late == stray \/ Head(results)[3] # era
      stop == Stop(TRUE, IF late THEN NoEra ELSE era)
  IN /\ results # <<>> /\ results' = Tail(results)
     /\ calls' = calls \o (IF waiting.step THEN <<stop>> ELSE <<>>) \o (IF closes THEN <<stop>> ELSE <<>>)
     /\ IF closes THEN NewEra ELSE era' = era /\ stray' = late
     /\ waiting' = [pending |-> IF findBar.shown THEN left ELSE waiting.pending, step |-> FALSE,
                    timer |-> waiting.timer /\ (findBar.shown => left > 0)]
     /\ findBar' = IF closes THEN NoBar
               ELSE IF findBar.shown THEN [findBar EXCEPT !.count = Head(results)] ELSE findBar
     /\ UNCHANGED <<lastSearch, findSession, toPage, live, matchAt, cut, findSpend>>

-----------------------------------------------------------------------------
(* main.cjs. *)

\* findStep: a request for the query of a live session continues it, any other opens one.
FindStep(q, e) == [query |-> q, fresh |-> findSession # q, era |-> e]

\* Chromium drops a request that was to open a session when the stop comes before it ran.
Stopped == IF FindEngine = "electron" THEN SelectSeq(toPage, LAMBDA r : ~r.fresh) ELSE toPage

CallArrives ==
  LET call == Head(calls)
  IN /\ calls # <<>> /\ calls' = Tail(calls)
     /\ IF call.op = "find"
        THEN /\ toPage' = Append(toPage, FindStep(call.query, call.era)) /\ findSession' = call.query
             /\ UNCHANGED <<live, matchAt, cut>>
        ELSE /\ findSession' = 0 /\ toPage' = Stopped /\ live' = 0
             /\ matchAt' = IF call.keep THEN matchAt ELSE [matchAt EXCEPT !.at = 0]
             /\ cut' = (cut \/ (call.era # NoEra /\ Stopped # toPage))
     /\ UNCHANGED <<findBar, waiting, lastSearch, results, era, stray, findSpend>>

-----------------------------------------------------------------------------
(* The page. *)

Next1(n) == (n % FindMatches) + 1

\* Chromium opens a session at the first match, or goes on in the one it has; a request that
\* continues a session it does not have moves the match and answers nothing.
ChromiumFinds(r) ==
  /\ live' = IF r.fresh THEN r.query ELSE live
  /\ matchAt' = LET n == IF r.fresh THEN 1 ELSE Next1(matchAt.ordinal) IN [at |-> n, ordinal |-> n]
  /\ results' = IF r.fresh \/ live = r.query
                THEN Append(results, <<r.query, matchAt'.ordinal, r.era>>) ELSE results

\* The script: findNext keeps the selection and the count, and its absence starts over.
ScriptFinds(r) ==
  /\ live' = live
  /\ matchAt' = [at |-> Next1(IF r.fresh THEN matchAt.at ELSE 0),
               ordinal |-> Next1(IF r.fresh THEN matchAt.ordinal ELSE 0)]
  /\ results' = Append(results, <<r.query, matchAt'.ordinal, r.era>>)

PageFinds == /\ toPage # <<>> /\ toPage' = Tail(toPage)
             /\ IF FindEngine = "electron" THEN ChromiumFinds(Head(toPage)) ELSE ScriptFinds(Head(toPage))
             /\ UNCHANGED <<findBar, waiting, lastSearch, calls, findSession, era, stray, cut, findSpend>>

\* A navigation of the main frame: main forgets the session when it starts, and the document that
\* commits has neither the bar nor anything it asked for.
NavigationStarts == /\ SpendFind("moves") /\ findSession' = 0
                    /\ NewEra
                    /\ UNCHANGED <<findBar, waiting, lastSearch, calls, toPage, live, matchAt, results,
                                   cut>>
DocumentReplaced == /\ SpendFind("moves") /\ findBar' = NoBar /\ waiting' = Quiet /\ lastSearch' = 0
                    /\ toPage' = <<>> /\ live' = 0 /\ matchAt' = Nowhere /\ NewEra
                    /\ UNCHANGED <<calls, findSession, results, cut>>

FindNext ==
  \/ ShowSearch \/ (\E q \in Queries \union {0} : TypesQuery(q)) \/ Enter \/ EscapesSearch \/ StepSearch
  \/ RestoreTimer \/ FindResultArrives \/ CallArrives \/ PageFinds \/ NavigationStarts \/ DocumentReplaced

\* Timers run, and messages and the page's matches arrive.
FindFairness == /\ WF_findVars(RestoreTimer) /\ WF_findVars(FindResultArrives)
                /\ WF_findVars(CallArrives) /\ WF_findVars(PageFinds)
FindSpec == FindInit /\ [][FindNext]_findVars /\ FindFairness

-----------------------------------------------------------------------------
\* What is shown, awaited, asked and selected stays within the queries and matches there are.
FindTypeOK == /\ findBar.query \in Queries \union {0} /\ findBar.closing \in BOOLEAN
              /\ waiting.pending \in Nat
              /\ findSession \in Queries \union {0} /\ matchAt.at \in 0 .. FindMatches
              /\ matchAt.ordinal \in 0 .. FindMatches

\* The stop that shows a match as a selection waits for that match: it never cancels the request
\* that was to find it.  The exception is a late answer of a bar closed before, taken for this one.
MatchIsKept == ~cut

\* With everything answered, the count in the bar is that of the query in it.
CountIsOfTheQuery ==
  findBar.shown /\ findBar.query # 0 /\ UnderWay = 0 /\ calls = <<>> /\ findBar.count # <<>>
    => findBar.count[1] = findBar.query

\* Asking again for the query of a live session goes on to the next match.
RepeatAdvances ==
  [][PageFinds /\ ~Head(toPage).fresh /\ Len(results') > Len(results) =>
       matchAt'.ordinal = Next1(matchAt.ordinal)]_findVars

\* Enter closes the bar in the end, whatever becomes of its request.
EnterCloses == []<>~(findBar.shown /\ findBar.closing)
=============================================================================
