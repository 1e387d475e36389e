---------------------------- MODULE WebKitEngine ----------------------------
(* The WebKit engine: tabs of the pane shown by WKWebViews of a tweb-webkit process.  The engine
   (webkit/engine.cjs, webkit/helper.cjs, webkit/web-contents.cjs) sends commands down one pipe
   and hears events on another (crates/tweb-engine/webkit/src/app.rs).  View 1 is a tab's, view 2
   a popup WebKit makes on its own.  Urls, documents and requests are numbered as they come; the
   navigations inside WebKit are external, as their delegate reports them. *)
EXTENDS Naturals, Sequences, FiniteSets

CONSTANTS SubFrames,      \* ids of subframes
          WebKitScenes    \* how often each thing happens, one behaviour per scene

Views == {1, 2}

VARIABLES
  host,      \* the process: "up" or "dead"
  hostView,  \* what it keeps for each view, and what WebKit does there
  running,   \* evaluations and pictures under way in the page
  fetched,   \* the download: "none", "asks" for its destination, "runs" or "over"
  commands, events, \* the two pipes
  closed,    \* helper.closed: the exit has been heard
  win,       \* WebKitBrowserWindow and its webContents
  pending,   \* requests without an answer
  item,      \* the download as the pane sees it: "none", "going", "cancelled" or "done"
  fresh,     \* history: the next number
  wkSpend

hostVars == <<host, hostView, running, fetched>>
jsVars == <<closed, win, pending, item>>
webkitVars == <<hostVars, jsVars, commands, events, fresh, wkSpend>>

NoFrames == [f \in SubFrames |-> 0]
NoView == [open |-> FALSE, url |-> 0, next |-> 0, going |-> 0, busy |-> FALSE, docs |-> NoFrames,
           spoken |-> {}, known |-> {}, told |-> <<0, FALSE>>]
NoTabWindow == [life |-> "none", url |-> 0, navigating |-> FALSE, loading |-> FALSE, load |-> 0,
                frames |-> [f \in SubFrames |-> <<0, 0>>]]

WebKitInit ==
  /\ host = "up" /\ hostView = [v \in Views |-> NoView] /\ running = {} /\ fetched = "none"
  /\ commands = <<[op |-> "create", view |-> 1]>> /\ events = <<>> /\ closed = FALSE
  /\ win = [v \in Views |-> IF v = 1 THEN [NoTabWindow EXCEPT !.life = "live"] ELSE NoTabWindow]
  /\ pending = {} /\ item = "none" /\ fresh = 1 /\ wkSpend \in WebKitScenes

SpendWk(what) == wkSpend[what] > 0 /\ wkSpend' = [wkSpend EXCEPT ![what] = @ - 1]

-----------------------------------------------------------------------------
(* The host. *)

\* What poll_page_state reads of a view: WKWebView's url is the one it was asked for last.
Reads(h) == <<IF h.next # 0 THEN h.next ELSE IF h.going # 0 THEN h.going ELSE h.url,
              h.next # 0 \/ h.going # 0 \/ h.busy>>

\* Events of a view and, after them, its state if that has changed.
Told(v, h, es) == /\ hostView' = [hostView EXCEPT ![v] = [h EXCEPT !.told = Reads(h)]]
                  /\ events' = events \o es \o (IF Reads(h) # h.told
                       THEN <<[ev |-> "state", view |-> v, url |-> Reads(h)[1]]>> ELSE <<>>)
Nav(v, phase, url) == [ev |-> "nav", view |-> v, phase |-> phase, url |-> url]
Message(v, f, doc, name) == [ev |-> "msg", view |-> v, frame |-> f, doc |-> doc, name |-> name]
Result(r, error) == [ev |-> "result", req |-> r, error |-> error]

HostUp(v) == host = "up" /\ hostView[v].open
HostOnly == UNCHANGED <<jsVars, commands>>

PollPageState(v) == /\ HostUp(v) /\ Reads(hostView[v]) # hostView[v].told /\ Told(v, hostView[v], <<>>)
                    /\ UNCHANGED <<host, running, fetched, fresh, wkSpend>> /\ HostOnly

\* A navigation starts; the one it supersedes fails first, and so may the load it interrupts.
Starting(v, url) ==
  LET h == hostView[v]
      over == IF h.going # 0 THEN <<Nav(v, "cancelled", h.going)>> ELSE <<>>
  IN \E cut \in {FALSE, h.busy} :
       Told(v, [h EXCEPT !.next = 0, !.going = url, !.busy = @ /\ ~cut],
            over \o (IF cut THEN <<Nav(v, "cancelled", h.url)>> ELSE <<>>) \o <<Nav(v, "start", url)>>)

LoadStarts(v) == /\ HostUp(v) /\ hostView[v].next # 0 /\ Starting(v, hostView[v].next)
                 /\ UNCHANGED <<host, running, fetched, fresh, wkSpend>> /\ HostOnly
LinkStarts(v) == /\ HostUp(v) /\ hostView[v].next = 0 /\ SpendWk("moves") /\ Starting(v, fresh)
                 /\ fresh' = fresh + 1
                 /\ UNCHANGED <<host, running, fetched>> /\ HostOnly

Gone(v) == LET h == hostView[v]
               S[fs \in SUBSET SubFrames] ==
                 IF fs = {} THEN <<>>
                 ELSE LET f == CHOOSE x \in fs : TRUE
                      IN <<Message(v, f, h.docs[f], "gone")>> \o S[fs \ {f}]
           IN S[{f \in SubFrames : h.docs[f] # 0}]

NavCommits(v) ==
  /\ HostUp(v) /\ hostView[v].going # 0
  /\ Told(v, [hostView[v] EXCEPT !.url = hostView[v].going, !.going = 0, !.busy = TRUE, !.docs = NoFrames,
                                 !.spoken = {}, !.known = {}],
          Gone(v) \o <<Nav(v, "commit", hostView[v].going)>>)
  /\ UNCHANGED <<host, running, fetched, fresh, wkSpend>> /\ HostOnly
NavFinishes(v) == /\ HostUp(v) /\ hostView[v].busy
                  /\ Told(v, [hostView[v] EXCEPT !.busy = FALSE], <<Nav(v, "finish", hostView[v].url)>>)
                  /\ UNCHANGED <<host, running, fetched, fresh, wkSpend>> /\ HostOnly
\* An error, or an answer that becomes a download.
NavFails(v) == /\ HostUp(v) /\ hostView[v].going # 0
               /\ \E phase \in {"fail", "cancelled"} :
                    Told(v, [hostView[v] EXCEPT !.going = 0], <<Nav(v, phase, hostView[v].going)>>)
               /\ UNCHANGED <<host, running, fetched, fresh, wkSpend>> /\ HostOnly
PushState(v) == /\ HostUp(v) /\ hostView[v].url # 0 /\ SpendWk("moves") /\ fresh' = fresh + 1
                /\ hostView' = [hostView EXCEPT ![v].url = fresh]
                /\ UNCHANGED <<host, running, fetched, events>> /\ HostOnly

\* A subframe of the page: made, or on its next document; the first message of a document;
\* removed from the page.
FrameLoads(v, f) ==
  /\ HostUp(v) /\ hostView[v].url # 0 /\ SpendWk("frames") /\ fresh' = fresh + 1
  /\ hostView' = [hostView EXCEPT ![v].docs[f] = fresh, ![v].spoken = @ \ {f}]
  /\ events' = IF hostView[v].docs[f] = 0 THEN events
               ELSE Append(events, Message(v, f, hostView[v].docs[f], "gone"))
  /\ UNCHANGED <<host, running, fetched>> /\ HostOnly
FrameSpeaks(v, f) ==
  /\ HostUp(v) /\ hostView[v].docs[f] # 0 /\ f \notin hostView[v].spoken
  /\ hostView' = [hostView EXCEPT ![v].spoken = @ \union {f}, ![v].known = @ \union {f}]
  /\ events' = Append(events, Message(v, f, hostView[v].docs[f], "ipc"))
  /\ UNCHANGED <<host, running, fetched, fresh, wkSpend>> /\ HostOnly
FrameRemoved(v, f) ==
  /\ HostUp(v) /\ hostView[v].docs[f] # 0 /\ SpendWk("frames")
  /\ hostView' = [hostView EXCEPT ![v].docs[f] = 0, ![v].spoken = @ \ {f}]
  /\ events' = Append(events, Message(v, f, hostView[v].docs[f], "gone"))
  /\ UNCHANGED <<host, running, fetched, fresh>> /\ HostOnly

\* on_window_open; window.close() of the page.
PopupOpens == /\ HostUp(1) /\ ~hostView[2].open /\ SpendWk("popups")
              /\ hostView' = [hostView EXCEPT ![2] = [NoView EXCEPT !.open = TRUE]]
              /\ events' = events \o <<[ev |-> "created", view |-> 2], [ev |-> "popup", view |-> 2, opener |-> 1]>>
              /\ UNCHANGED <<host, running, fetched, fresh>> /\ HostOnly
PageCloses(v) == /\ HostUp(v) /\ SpendWk("closes")
                 /\ events' = Append(events, [ev |-> "page-close", view |-> v])
                 /\ UNCHANGED <<hostVars, fresh>> /\ HostOnly

\* An evaluation ends, in the order the page likes.
EvalEnds == /\ host = "up"
            /\ \E r \in running : running' = running \ {r} /\ events' = Append(events, Result(r, "none"))
            /\ UNCHANGED <<host, hostView, fetched, fresh, wkSpend>> /\ HostOnly

DownloadAsks == /\ host = "up" /\ fetched = "none" /\ SpendWk("downloads") /\ fetched' = "asks"
                /\ events' = Append(events, [ev |-> "download-start"])
                /\ UNCHANGED <<host, hostView, running, fresh>> /\ HostOnly
DownloadEnds == /\ host = "up" /\ fetched = "runs" /\ fetched' = "over"
                /\ events' = Append(events, [ev |-> "download-done"])
                /\ UNCHANGED <<host, hostView, running, fresh, wkSpend>> /\ HostOnly

\* Handling one command. Evaluations of a view that closes end with an error.
ClosesView(v) == /\ hostView' = [hostView EXCEPT ![v] = NoView]
                 /\ LET cut == {r \in running : r.view = v}
                        S[rs \in SUBSET cut] == IF rs = {} THEN <<>>
                          ELSE LET r == CHOOSE x \in rs : TRUE IN <<Result(r, "failed")>> \o S[rs \ {r}]
                    IN /\ running' = running \ cut
                       /\ events' = events \o S[cut] \o <<[ev |-> "closed", view |-> v]>>
                 /\ UNCHANGED <<host, fetched>>
Evaluates(c) ==
  LET lost == IF ~hostView[c.view].open THEN "failed"
              ELSE IF c.frame # 0 /\ c.frame \notin hostView[c.view].known THEN "frame gone" ELSE "none"
  IN /\ running' = IF lost = "none" THEN running \union {c.req} ELSE running
     /\ events' = IF lost = "none" THEN events ELSE Append(events, Result(c.req, lost))
     /\ UNCHANGED <<host, hostView, fetched>>

HostTakes ==
  LET c == Head(commands)
  IN /\ host = "up" /\ commands # <<>> /\ commands' = Tail(commands) /\ UNCHANGED <<jsVars, fresh, wkSpend>>
     /\ CASE c.op = "create" -> /\ hostView' = [hostView EXCEPT ![c.view] = [NoView EXCEPT !.open = TRUE]]
                                /\ events' = Append(events, [ev |-> "created", view |-> c.view])
                                /\ UNCHANGED <<host, running, fetched>>
          [] c.op = "close" /\ hostView[c.view].open -> ClosesView(c.view)
          [] c.op = "load" /\ hostView[c.view].open ->
               /\ hostView' = [hostView EXCEPT ![c.view].next = c.url]
               /\ UNCHANGED <<host, running, fetched, events>>
          [] c.op = "eval" -> Evaluates(c)
          [] c.op = "download-dest" /\ fetched = "asks" ->
               fetched' = "runs" /\ UNCHANGED <<host, hostView, running, events>>
          [] c.op = "download-cancel" /\ fetched \in {"asks", "runs"} ->
               /\ fetched' = "over" /\ events' = Append(events, [ev |-> "download-done"])
               /\ UNCHANGED <<host, hostView, running>>
          [] c.op = "quit" -> host' = "dead" /\ UNCHANGED <<hostView, running, fetched, events>>
          [] OTHER -> UNCHANGED <<hostVars, events>>

HostDies == /\ host = "up" /\ SpendWk("deaths") /\ host' = "dead"
            /\ UNCHANGED <<hostView, running, fetched, events, commands, fresh>> /\ UNCHANGED jsVars

-----------------------------------------------------------------------------
(* The engine. *)

Live(v) == win[v].life = "live"
Sent(cs) == commands' = IF closed THEN commands ELSE commands \o cs

\* WebKitWebContents.destroy: a load that is still awaited is rejected.
KeepsLoad(w) == IF w.life # "live" THEN w ELSE [w EXCEPT !.life = "destroyed"]  \* a mutant: it is not
Destroyed(w) == IF w.life # "live" THEN w ELSE [w EXCEPT !.life = "destroyed", !.load = 0]

LoadUrl(v) == /\ Live(v) /\ SpendWk("loads") /\ fresh' = fresh + 1
              /\ win' = [win EXCEPT ![v].load = fresh]
              /\ Sent(<<[op |-> "load", view |-> v, url |-> fresh]>>)
              /\ UNCHANGED <<hostVars, events, closed, pending, item>>
CloseWebKit(v) == /\ Live(v) /\ SpendWk("closes") /\ Sent(<<[op |-> "close", view |-> v]>>)
                  /\ UNCHANGED <<hostVars, events, fresh, jsVars>>

\* evalIn: the frame is 0 for the main one; a subframe's request remembers the frame object.
EvalIn(v, f) ==
  LET obj == IF f = 0 THEN 0 ELSE win[v].frames[f][1]
      r == [id |-> fresh, view |-> v, frame |-> f, object |-> obj]
  IN /\ Live(v) /\ (f # 0 => obj # 0) /\ ~closed /\ SpendWk("evals") /\ fresh' = fresh + 1
     /\ pending' = pending \union {r}
     /\ Sent(<<[op |-> "eval", view |-> v, frame |-> f, req |-> r]>>)
     /\ UNCHANGED <<hostVars, events, closed, win, item>>

\* onNavigation and onState of web-contents.cjs.
OnNavigation(w, e) ==
  CASE e.phase = "start" -> [w EXCEPT !.navigating = TRUE, !.loading = TRUE]
    [] e.phase = "commit" -> [w EXCEPT !.navigating = FALSE, !.url = e.url, !.load = 0,
                                       !.frames = [f \in SubFrames |-> <<0, 0>>]]
    [] e.phase = "finish" -> [w EXCEPT !.loading = FALSE]
    [] OTHER -> [w EXCEPT !.navigating = FALSE, !.loading = FALSE, !.load = 0]
OnState(w, e) == IF e.url # 0 /\ ~w.navigating /\ ~w.loading THEN [w EXCEPT !.url = e.url] ELSE w

\* onMessage: a frame is the object made for its first message and the document it is on.
OnMessage(w, e) ==
  LET known == w.frames[e.frame]
  IN IF e.name = "gone"
     THEN IF known[2] = e.doc THEN [w EXCEPT !.frames[e.frame] = <<0, 0>>] ELSE w
     ELSE [w EXCEPT !.frames[e.frame] = <<IF known[1] = 0 THEN e.doc ELSE known[1], e.doc>>]

\* An error "frame gone" takes the frame object it was asked of, if that is still the frame's.
DetachFrame(r) == IF r.frame # 0 /\ win[r.view].frames[r.frame][1] = r.object
                  THEN [win EXCEPT ![r.view].frames[r.frame] = <<0, 0>>] ELSE win

ToWindow(v, new) == /\ win' = IF Live(v) THEN [win EXCEPT ![v] = new] ELSE win
                    /\ UNCHANGED <<commands, pending, item>>
OnPopup(e, allow) == /\ win' = IF allow THEN [win EXCEPT ![2] = [NoTabWindow EXCEPT !.life = "live"]]
                               ELSE win
                     /\ Sent(IF allow THEN <<>> ELSE <<[op |-> "close", view |-> 2]>>)
                     /\ UNCHANGED <<pending, item>>

\* The listener of will-download picks the place, and the host is told of it.
OnDownloadStart == item' = "going" /\ Sent(<<[op |-> "download-dest"]>>) /\ UNCHANGED <<win, pending>>

JsHears ==
  LET e == Head(events)
  IN /\ events # <<>> /\ events' = Tail(events) /\ UNCHANGED <<hostVars, closed, fresh, wkSpend>>
     /\ CASE e.ev = "nav" -> ToWindow(e.view, OnNavigation(win[e.view], e))
          [] e.ev = "state" -> ToWindow(e.view, OnState(win[e.view], e))
          [] e.ev = "msg" -> ToWindow(e.view, OnMessage(win[e.view], e))
          [] e.ev = "closed" -> ToWindow(e.view, Destroyed(win[e.view]))
          [] e.ev = "page-close" -> /\ Sent(IF Live(e.view) THEN <<[op |-> "close", view |-> e.view]>>
                                            ELSE <<>>)
                                    /\ UNCHANGED <<win, pending, item>>
          [] e.ev = "popup" -> \E allow \in BOOLEAN : (allow => Live(e.opener)) /\ OnPopup(e, allow)
          [] e.ev = "result" -> /\ pending' = pending \ {e.req}
                                /\ win' = IF e.error = "frame gone" /\ e.req \in pending
                                          THEN DetachFrame(e.req) ELSE win
                                /\ UNCHANGED <<commands, item>>
          [] e.ev = "download-start" -> OnDownloadStart
          [] e.ev = "download-done" -> item' = "done" /\ UNCHANGED <<win, pending, commands>>
          [] OTHER -> UNCHANGED <<win, pending, item, commands>>

CancelDownload == /\ item = "going" /\ SpendWk("downloads") /\ item' = "cancelled"
                  /\ Sent(<<[op |-> "download-cancel"]>>)
                  /\ UNCHANGED <<hostVars, events, closed, win, pending, fresh>>

\* The exit: every request is rejected and every page is gone; events still in the pipe come after.
ExitHeard == /\ host = "dead" /\ ~closed /\ closed' = TRUE /\ pending' = {}
             /\ win' = [v \in Views |-> Destroyed(win[v])]
             /\ UNCHANGED <<hostVars, commands, events, item, fresh, wkSpend>>
StopHelper == /\ ~closed /\ SpendWk("stops") /\ Sent(<<[op |-> "quit"]>>)
              /\ UNCHANGED <<hostVars, events, fresh, jsVars>>

WebKitNext ==
  \/ \E v \in Views : \/ PollPageState(v) \/ LoadStarts(v) \/ LinkStarts(v) \/ NavCommits(v) \/ NavFinishes(v)
                      \/ NavFails(v) \/ PushState(v) \/ PageCloses(v) \/ LoadUrl(v) \/ CloseWebKit(v)
                      \/ \E f \in SubFrames : FrameLoads(v, f) \/ FrameSpeaks(v, f) \/ FrameRemoved(v, f)
                      \/ \E f \in SubFrames \union {0} : EvalIn(v, f)
  \/ PopupOpens \/ EvalEnds \/ DownloadAsks \/ DownloadEnds \/ HostTakes \/ HostDies \/ JsHears
  \/ CancelDownload \/ ExitHeard \/ StopHelper

\* The pipes are read, polling goes on, a navigation ends and so do an evaluation and a download.
WebKitFairness ==
  /\ WF_webkitVars(HostTakes) /\ WF_webkitVars(JsHears) /\ WF_webkitVars(ExitHeard)
  /\ WF_webkitVars(EvalEnds)
  /\ WF_webkitVars(DownloadEnds)
  /\ \A v \in Views : /\ WF_webkitVars(PollPageState(v)) /\ WF_webkitVars(LoadStarts(v))
                      /\ WF_webkitVars(NavCommits(v) \/ NavFails(v)) /\ WF_webkitVars(NavFinishes(v))
WebKitSpec == WebKitInit /\ [][WebKitNext]_webkitVars /\ WebKitFairness

-----------------------------------------------------------------------------
\* Every window is at a stage of its life, requests are of known views, and the download is.
WebKitTypeOK == /\ \A v \in Views : win[v].life \in {"none", "live", "destroyed"}
                /\ \A r \in pending : r.view \in Views
                /\ item \in {"none", "going", "cancelled", "done"}
                /\ fetched \in {"none", "asks", "runs", "over"}

\* Nothing is on its way for the view, in either direction.
Settled(v) == /\ host = "up" /\ ~closed /\ Live(v) /\ hostView[v].open /\ commands = <<>> /\ events = <<>>
              /\ hostView[v].going = 0 /\ hostView[v].next = 0 /\ Reads(hostView[v]) = hostView[v].told

\* A state report the engine leaves out because the page is loading is made up for: the url of a
\* page that has come to rest is the one WebKit shows.  (A view that has shown nothing has no url
\* to report: one whose first load failed keeps the url of that load.)
UrlAgrees ==
  \A v \in Views : Settled(v) /\ ~hostView[v].busy /\ hostView[v].url # 0 => win[v].url = hostView[v].url

\* The frames the engine would address are the ones whose document has spoken and is still there,
\* whatever gone messages, commits and late errors of requests crossed each other on the way.
FramesAgree == \A v \in Views : Settled(v) =>
  \A f \in SubFrames : win[v].frames[f][2] = (IF f \in hostView[v].spoken THEN hostView[v].docs[f] ELSE 0)

\* A dead host leaves nothing that waits for it, and no page that looks alive.
DeadHostOwesNothing == closed => pending = {} /\ \A v \in Views : ~Live(v) /\ win[v].load = 0

\* Every request is answered, by the page, its closing or the host's death.
RequestsEnd == []<>(pending = {})

\* Every load the engine promised is settled: it began, failed, was closed or the host died.
LoadsSettle == []<>(\A v \in Views : win[v].load = 0)

\* A download the pane was told of ends for it too, unless the host dies under it.
TransfersEnd == []<>(item # "going" \/ closed)

\* A load is settled by its own navigation: the failure of one it superseded is not its failure.
LoadTellsItsOwn ==
  [][\A v \in Views : JsHears /\ Head(events).ev = "nav" /\ Head(events).phase \in {"fail", "cancelled"}
       /\ Head(events).view = v /\ Live(v) /\ win[v].load # 0 => Head(events).url = win[v].load]_webkitVars
=============================================================================
