------------------------------ MODULE TabLoads ------------------------------
\* What one tab loads (src/electron/main.cjs configureTab, createTab, refreshStartPage,
\* repairShortcutDelivery; renderer-recovery.cjs): the url it was
\* opened with behind a placeholder, what the user and an agent load, the error page put
\* in a failed page's place, the reload after a crash or a lost preload, the start page
\* drawn again when the port list arrives, and the bar that says a load is under way.
EXTENDS Naturals

CONSTANTS LoadUrls,    \* pages a tab may be sent to
          OpeningUrl,  \* the one of them it was opened with
          OpensStart,  \* whether it was opened on the start page instead: a set of answers
          LoadScenes   \* what may happen, how often

ASSUME LoadsAssumption == OpeningUrl \in LoadUrls /\ OpensStart \subseteq BOOLEAN

MaxAttempts == 3         \* renderer-recovery.cjs MAX_ATTEMPTS in ATTEMPT_WINDOW_MS
MaxShortcutReloads == 2  \* MAX_SHORTCUT_RELOADS

VARIABLES loadDoc,       \* the committed document: its url and what kind of page it is
          nav,       \* the load in flight
          errorOnWay,\* showingLoadError
          sessionUrl,\* tabSessionUrls: what a saved session restores
          preload,   \* whether the document's preload runs, and whether main may send to it
          crash,     \* the renderer, and its recoveries within a minute
          repair,    \* shortcutRecoveryByTab, and the answer on its way
          bar,       \* the loading indicator and its timer
          opening,   \* the program's own loads still to come
          overtaken, \* for the properties: a page was loaded over an error page on its way
          loadSpend
loadVars ==
  <<loadDoc, nav, errorOnWay, sessionUrl, preload, crash, repair, bar, opening, overtaken, loadSpend>>

NoNav == [url |-> "", kind |-> "none", by |-> "", at |-> ""]
To(url, kind, by) == [url |-> url, kind |-> kind, by |-> by, at |-> "started"]
Loading == nav # NoNav
SpendLoad(what) == loadSpend[what] > 0 /\ loadSpend' = [loadSpend EXCEPT ![what] = @ - 1]

\* A navigation starts over whatever was in flight: the frame leaves the ready set and the
\* bar is scheduled.  The load in flight is aborted.
LoadStarts(n) ==
    /\ nav' = n
    /\ preload' = [preload EXCEPT !.ready = FALSE]
    /\ bar' = [bar EXCEPT !.timer = TRUE]
    /\ overtaken' = (overtaken \/ errorOnWay)

LoadsInit ==
    /\ loadDoc = [url |-> "", kind |-> "blank"]
    /\ \E start \in OpensStart :
         /\ nav = To("", IF start THEN "start" ELSE "placeholder", "program")
         /\ opening = [afterPlaceholder |-> ~start, ports |-> start]
    /\ errorOnWay = FALSE /\ sessionUrl = OpeningUrl
    /\ preload = [alive |-> FALSE, ready |-> FALSE]
    /\ crash = [gone |-> FALSE, recent |-> 0]
    /\ repair = [pinging |-> FALSE, answer |-> FALSE, reloads |-> 0]
    /\ bar = [drawn |-> FALSE, timer |-> TRUE]
    /\ overtaken = FALSE /\ loadSpend \in LoadScenes

------------------------------------------------------------------------------
\* What the user or an agent asks for.

UserLoads(url) ==
    /\ SpendLoad("user") /\ LoadStarts(To(url, "page", "user"))
    /\ UNCHANGED <<loadDoc, errorOnWay, sessionUrl, crash, repair, opening>>

\* Loads of the program's own.

\* createTab: the placeholder's load ended one way or the other.
LoadOpening ==
    /\ opening.afterPlaceholder /\ (nav.kind # "placeholder" \/ nav.at = "finished")
    /\ LoadStarts(To(OpeningUrl, "page", "program"))
    /\ opening' = [opening EXCEPT !.afterPlaceholder = FALSE]
    /\ UNCHANGED <<loadDoc, errorOnWay, sessionUrl, crash, repair, loadSpend>>

\* refreshStartPage: lsof answered; redrawn if the tab still shows the start page, or
\* nothing yet.
PortsArrive ==
    /\ opening.ports
    /\ opening' = [opening EXCEPT !.ports = FALSE]
    /\ IF loadDoc.kind \in {"blank", "start"} THEN LoadStarts(To("", "start", "program"))
       ELSE UNCHANGED <<nav, preload, bar, overtaken>>
    /\ UNCHANGED <<loadDoc, errorOnWay, sessionUrl, crash, repair, loadSpend>>

------------------------------------------------------------------------------
\* The life of a load.

\* "did-navigate": the session is told the url, unless an error page is on its way.
Commit ==
    /\ nav.at = "started"
    /\ nav' = [nav EXCEPT !.at = "committed"]
    /\ loadDoc' = [url |-> nav.url, kind |-> nav.kind]
    /\ sessionUrl' = IF errorOnWay \/ nav.kind # "page" THEN sessionUrl ELSE nav.url
    /\ crash' = [crash EXCEPT !.gone = FALSE]
    /\ preload' = [alive |-> FALSE, ready |-> FALSE]
    /\ bar' = [bar EXCEPT !.drawn = FALSE]
    /\ repair' = [repair EXCEPT !.answer = FALSE]
    /\ UNCHANGED <<errorOnWay, opening, overtaken, loadSpend>>

\* The new document's preload registers ("tweb-preload-ready").
PreloadRegisters ==
    /\ nav.at # "started" /\ ~preload.alive /\ loadDoc.kind # "blank" /\ ~crash.gone
    /\ preload' = [alive |-> TRUE, ready |-> TRUE]
    /\ UNCHANGED <<loadDoc, nav, errorOnWay, sessionUrl, crash, repair, bar, opening, overtaken, loadSpend>>

\* The indicator's timer, or "dom-ready" once it fired.
BarDraws ==
    /\ bar.timer \/ nav.at = "committed"
    /\ bar' = [drawn |-> bar.drawn \/ preload.ready, timer |-> FALSE]
    /\ bar' # bar
    /\ UNCHANGED <<loadDoc, nav, errorOnWay, sessionUrl, preload, crash, repair, opening, overtaken,
                   loadSpend>>

\* "did-stop-loading" takes the bar away, where main may send.
BarGone == [drawn |-> bar.drawn /\ ~preload.ready, timer |-> FALSE]

\* "did-finish-load" and "did-stop-loading".
Finish ==
    /\ nav.at = "committed"
    /\ nav' = IF nav.kind = "placeholder" /\ opening.afterPlaceholder THEN [nav EXCEPT !.at = "finished"]
              ELSE NoNav
    /\ errorOnWay' = FALSE /\ bar' = BarGone
    /\ UNCHANGED <<loadDoc, sessionUrl, preload, crash, repair, opening, overtaken, loadSpend>>

\* "did-fail-load": the error page goes in its place, unless one is on its way already.
Fail ==
    /\ nav.at = "started" /\ nav.kind = "page" /\ SpendLoad("fails")
    /\ IF errorOnWay
       THEN nav' = NoNav /\ loadDoc' = [url |-> nav.url, kind |-> "failed"] /\ bar' = BarGone
            /\ preload' = [alive |-> FALSE, ready |-> FALSE] /\ UNCHANGED errorOnWay
       ELSE nav' = To(nav.url, "error", "program") /\ errorOnWay' = TRUE
            /\ bar' = [bar EXCEPT !.timer = TRUE] /\ UNCHANGED <<loadDoc, preload>>
    /\ UNCHANGED <<sessionUrl, crash, repair, opening, overtaken>>

\* The load turns out to be a download: it is aborted and the page stays.
BecomesDownload ==
    /\ nav.at = "started" /\ nav.kind = "page" /\ SpendLoad("downloads")
    /\ nav' = NoNav /\ bar' = BarGone
    /\ UNCHANGED <<loadDoc, errorOnWay, sessionUrl, preload, crash, repair, opening, overtaken>>

------------------------------------------------------------------------------
\* Crashes and lost preloads.

\* "render-process-gone", recoveryDecision: the page is loaded again, three times a
\* minute, and then an error page instead.
RendererGone ==
    /\ ~crash.gone /\ loadDoc.kind # "blank" /\ SpendLoad("crashes")
    /\ IF crash.recent >= MaxAttempts
       THEN /\ crash' = [crash EXCEPT !.gone = TRUE] /\ errorOnWay' = TRUE
            /\ nav' = To(loadDoc.url, "error", "program")
       ELSE /\ crash' = [gone |-> TRUE, recent |-> crash.recent + 1] /\ UNCHANGED errorOnWay
            /\ nav' = To(loadDoc.url, loadDoc.kind, "recovery")
    /\ preload' = [alive |-> FALSE, ready |-> FALSE] /\ bar' = [drawn |-> FALSE, timer |-> TRUE]
    /\ overtaken' = (overtaken \/ errorOnWay)
    /\ UNCHANGED <<loadDoc, sessionUrl, repair, opening>>

AttemptsForgotten ==
    /\ crash.recent > 0 /\ crash' = [crash EXCEPT !.recent = 0]
    /\ UNCHANGED <<loadDoc, nav, errorOnWay, sessionUrl, preload, repair, bar, opening, overtaken,
                   loadSpend>>

\* A registered preload falls out of use without a word.
PreloadLost ==
    /\ preload.alive /\ ~Loading /\ SpendLoad("preloads")
    /\ preload' = [alive |-> FALSE, ready |-> FALSE]
    /\ UNCHANGED <<loadDoc, nav, errorOnWay, sessionUrl, crash, repair, bar, opening, overtaken>>

\* A key that cannot be delivered asks the page whether it is there.
DropsKey ==
    /\ ~preload.ready /\ ~repair.pinging /\ ~Loading /\ SpendLoad("keys")
    /\ repair' = [repair EXCEPT !.pinging = TRUE, !.answer = preload.alive]
    /\ UNCHANGED <<loadDoc, nav, errorOnWay, sessionUrl, preload, crash, bar, opening, overtaken>>

PreloadAnswers ==
    /\ repair.answer
    /\ repair' = [repair EXCEPT !.answer = FALSE]
    /\ preload' = [preload EXCEPT !.ready = preload.alive]
    /\ UNCHANGED <<loadDoc, nav, errorOnWay, sessionUrl, crash, bar, opening, overtaken, loadSpend>>

\* 1.2 seconds later: with no answer the page is reloaded, whatever it does by now.
PingTimesOut ==
    /\ repair.pinging /\ UNCHANGED <<loadDoc, errorOnWay, sessionUrl, crash, opening, loadSpend>>
    /\ IF preload.ready \/ repair.reloads >= MaxShortcutReloads
       THEN /\ repair' = [repair EXCEPT !.pinging = FALSE, !.reloads = IF preload.ready THEN 0 ELSE @]
            /\ UNCHANGED <<nav, preload, bar, overtaken>>
       ELSE /\ repair' = [repair EXCEPT !.pinging = FALSE, !.reloads = @ + 1]
            /\ LoadStarts(To(loadDoc.url, loadDoc.kind, "repair"))

LoadsNext ==
    \/ \E url \in LoadUrls : UserLoads(url)
    \/ LoadOpening \/ PortsArrive
    \/ Commit \/ PreloadRegisters \/ BarDraws \/ Finish \/ Fail \/ BecomesDownload
    \/ RendererGone \/ AttemptsForgotten \/ PreloadLost
    \/ DropsKey \/ PreloadAnswers \/ PingTimesOut

LoadsSpec == LoadsInit /\ [][LoadsNext]_loadVars
------------------------------------------------------------------------------

LoadsTypeOK ==
    /\ loadDoc.kind \in {"blank", "start", "placeholder", "page", "error", "failed"}
    /\ nav.at \in {"", "started", "committed", "finished"}
    /\ crash.recent \in 0..MaxAttempts /\ repair.reloads \in 0..MaxShortcutReloads

\* At rest, what a restored session would open is the page the tab shows (recordNavigation),
\* through failures, crashes, reloads and downloads.  Not so once a page was loaded while
\* an error page was on its way: "did-navigate" finds showingLoadError still set.
SessionUrlIsShown ==
    ~Loading /\ loadDoc.kind = "page" /\ ~overtaken => sessionUrl = loadDoc.url

\* A tab is not left on a dead or failed document: a load is under way, or an error page
\* says so ("An offscreen one has no such trigger, so nothing ever comes back without this").
DeadPageIsReplaced ==
    /\ crash.gone /\ ~overtaken => Loading
    /\ loadDoc.kind = "failed" => overtaken

\* The bar of a load goes when the load ends ("Gone on the way out, whether the load
\* worked or not").
BarGoes == ~Loading => ~bar.drawn

\* A page the user or an agent asked for is only ever superseded by another they ask for:
\* a load of the program's own does not cancel it ("Reloading it here would cancel the very
\* navigation that is about to fix things").
AskedLoadSurvives ==
    [][nav.by = "user" /\ nav.at = "started" /\ nav'.at = "started" /\ nav' # nav
       => nav'.by = "user" \/ nav'.kind = "error"]_loadVars
=============================================================================
