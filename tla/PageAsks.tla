------------------------------ MODULE PageAsks ------------------------------
(* What the page of a tab has its user asked: a permission, the files for an input, a command of the
   context menu. main.cjs keeps each question and its answer is what counts; preload.cjs, in the
   tab's top frame, draws it. Messages between the two keep their order and take their time; a new
   document loses those on their way to the old one. How the questions look is left out. *)
EXTENDS Naturals, Sequences, SequencesExt

CONSTANTS Sites,      \* origins a document's frames may ask for
          AskScenes   \* how often each kind of event happens

VARIABLES
  front,      \* the tab is the one its pane shows
  askDoc,        \* the document of its top frame
  askReady,      \* that frame is among readyFrameKeys
  toTop,      \* messages to the page script
  toMain,     \* messages to main
  asks,       \* the permission requests made: document, site, what the callback was called with
  queue,      \* permissionPrompts
  remembered, \* site-permissions.json: what is stored for each site
  box,        \* permissionHost: the request whose question is drawn, 0 for none
  wired,      \* the debugger of the tab is attached and intercepts its choosers
  choosers,   \* the choosers opened: document and answer
  pending,    \* fileChooserByTab
  reads,      \* choosers whose accept attribute is being read
  panel,      \* fileChooserState: the chooser it is drawn for
  menuState,  \* contextMenuStateByTab: the menu's number, 0 for none
  menuShown,  \* the menu that is drawn
  menus,      \* the document each menu was sent to, 0 for one that had no frame to go to
  misgiven,   \* history: the files of one chooser's panel were given to another
  misran,     \* history: the command of one menu was run on another's target
  askBudget

permissionVars == <<asks, queue, remembered, box>>
chooserVars == <<wired, choosers, pending, reads, panel, misgiven>>
menuVars == <<menuState, menuShown, menus, misran>>
asksVars == <<front, askDoc, askReady, toTop, toMain, permissionVars, chooserVars, menuVars, askBudget>>

AsksInit ==
  /\ front = TRUE /\ askDoc = 1 /\ askReady = FALSE /\ toTop = <<>> /\ toMain = <<>>
  /\ asks = <<>> /\ queue = <<>> /\ remembered = [s \in Sites |-> "none"] /\ box = 0
  /\ wired = TRUE /\ choosers = <<>> /\ pending = 0 /\ reads = {} /\ panel = 0 /\ misgiven = FALSE
  /\ menuState = 0 /\ menuShown = 0 /\ menus = <<>> /\ misran = FALSE
  /\ askBudget \in AskScenes

SpendAsk(what) == askBudget[what] > 0 /\ askBudget' = [askBudget EXCEPT ![what] = @ - 1]

\* sendToMainTabFrame: to a frame that has registered, or nowhere.
Sends(message) == toTop' = IF askReady THEN Append(toTop, message) ELSE toTop
Asking(kind, n) == [kind |-> kind, of |-> n]
Saying(kind, what, n) == [kind |-> kind, what |-> what, of |-> n]

-----------------------------------------------------------------------------
(* Permissions. *)

Calls(requests, allowed) ==
  [i \in DOMAIN asks |->
     IF i \notin requests THEN asks[i]
     ELSE [asks[i] EXCEPT !.got = IF @ = "none" THEN IF allowed THEN "allow" ELSE "deny" ELSE "twice"]]

PermissionRequest(s) ==
  /\ SpendAsk("asks")
  /\ LET id == Len(asks) + 1
         held == remembered[s] = "none" /\ askReady
         got == IF held THEN "none" ELSE IF remembered[s] = "allow" THEN "allow" ELSE "deny"
     IN /\ asks' = Append(asks, [askDoc |-> askDoc, site |-> s, got |-> got])
        /\ queue' = IF held THEN Append(queue, id) ELSE queue
        /\ IF held /\ queue = <<>> THEN Sends(Asking("prompt", id)) ELSE toTop' = toTop
  /\ UNCHANGED <<front, askDoc, askReady, toMain, remembered, box, chooserVars, menuVars>>

AnswerPermissionPrompt(id, answer) ==
  IF \A k \in DOMAIN queue : queue[k] # id THEN UNCHANGED <<asks, queue, remembered, toTop>>
  ELSE LET index == CHOOSE k \in DOMAIN queue : queue[k] = id
           left == RemoveAt(queue, index)
       IN /\ queue' = left /\ asks' = Calls({id}, answer \in {"once", "always"})
          /\ remembered' = IF answer \in {"always", "never"}
                           THEN [remembered EXCEPT ![asks[id].site] =
                                   IF answer = "always" THEN "allow" ELSE "deny"]
                           ELSE remembered
          /\ Sends(Asking("prompt", IF left = <<>> THEN 0 ELSE Head(left)))

Answers == {"once", "always", "deny", "never"}
\* routePermissionKey: a key answers what is asked first, whatever is drawn.
RoutePermissionKey(answer) ==
  /\ front /\ queue # <<>> /\ SpendAsk("keys") /\ AnswerPermissionPrompt(Head(queue), answer)
  /\ UNCHANGED <<front, askDoc, askReady, toMain, box, chooserVars, menuVars>>
ClicksAnswer(answer) ==
  /\ front /\ box # 0 /\ SpendAsk("keys")
  /\ toMain' = Append(toMain, Saying("permission-answer", answer, box))
  /\ UNCHANGED <<front, askDoc, askReady, toTop, permissionVars, chooserVars, menuVars>>
\* :permit, :forbid and :permissions reset.
SitePermissionCommand(s, v) ==
  /\ SpendAsk("keys") /\ v \in {"allow", "deny", "none"} /\ remembered' = [remembered EXCEPT ![s] = v]
  /\ UNCHANGED <<front, askDoc, askReady, toTop, toMain, asks, queue, box, chooserVars, menuVars>>

\* A mutant: the queue of the old document is kept.
KeepsPrompts == UNCHANGED <<asks, queue, remembered>>
RefusePermissionPrompts == /\ asks' = Calls({queue[i] : i \in DOMAIN queue}, FALSE)
                           /\ queue' = <<>> /\ remembered' = remembered

-----------------------------------------------------------------------------
(* Choosers. *)

OpenFileChooser ==
  /\ wired /\ SpendAsk("choosers") /\ choosers' = Append(choosers, [askDoc |-> askDoc, got |-> "none"])
  /\ pending' = Len(choosers') /\ reads' = reads \union {pending'}
  /\ UNCHANGED <<front, askDoc, askReady, toTop, toMain, permissionVars, wired, panel, misgiven, menuVars>>

\* The script that reads the attribute waits for the page to load, and fails when the page goes; the
\* panel is asked for either way.
AcceptRead(id) ==
  /\ id \in reads /\ (choosers[id].askDoc = askDoc => askReady) /\ reads' = reads \ {id}
  /\ Sends(Asking("file-chooser", id))
  /\ UNCHANGED <<front, askDoc, askReady, toMain, permissionVars, wired, choosers, pending, panel, misgiven,
                 menuVars, askBudget>>

ResolveFileChooser(how, of) ==
  IF pending = 0 THEN UNCHANGED <<choosers, pending, misgiven, toTop>>
  ELSE IF how = "missing"
  THEN Sends(Asking("file-chooser", pending)) /\ UNCHANGED <<choosers, pending, misgiven>>
  ELSE /\ pending' = 0 /\ choosers' = [choosers EXCEPT ![pending].got = how]
       /\ misgiven' = (misgiven \/ of # pending) /\ toTop' = toTop

DebuggerDetaches ==
  /\ wired /\ SpendAsk("losses") /\ wired' = FALSE /\ pending' = 0
  /\ UNCHANGED <<front, askDoc, askReady, toTop, toMain, permissionVars, choosers, reads, panel, misgiven,
                 menuVars>>

-----------------------------------------------------------------------------
(* The menu. *)

\* A right click that no menu covers.
OpensMenu ==
  /\ front /\ menuShown = 0 /\ SpendAsk("menus")
  /\ menus' = Append(menus, IF askReady THEN askDoc ELSE 0)
  /\ menuState' = Len(menus') /\ Sends(Asking("context-menu", menuState'))
  /\ UNCHANGED <<front, askDoc, askReady, toMain, permissionVars, chooserVars, menuShown, misran>>

RunsMenuCommand(of) ==
  menuState' = 0 /\ misran' = (misran \/ (menuState # 0 /\ front /\ menuState # of))

-----------------------------------------------------------------------------
(* The page script. *)

\* cancelTransient: the chooser is answered and the menu dismissed.
CancelsChooser ==
  IF panel = 0 THEN <<>> ELSE <<Saying("file-chooser-resolve", "cancel", panel)>>
DismissesMenu ==
  IF menuShown = 0 THEN <<>> ELSE <<Saying("context-menu-dismiss", "", menuShown)>>
CancelledAsks == CancelsChooser \o DismissesMenu

DrawsPrompt(id) == box' = id /\ UNCHANGED <<panel, menuShown, toMain>>
\* A panel that is there is replaced; what is otherwise open is cancelled first.
ShowsPanel(id) ==
  panel' = id /\ menuShown' = 0 /\ box' = box /\ toMain' = toMain \o DismissesMenu
ShowsMenu(id) ==
  menuShown' = id /\ panel' = 0 /\ box' = box /\ toMain' = toMain \o CancelsChooser

TopTakes ==
  /\ toTop # <<>> /\ toTop' = Tail(toTop)
  /\ LET ask == Head(toTop)
     IN \/ ask.kind = "prompt" /\ DrawsPrompt(ask.of)
        \/ ask.kind = "file-chooser" /\ ShowsPanel(ask.of)
        \/ ask.kind = "context-menu" /\ ShowsMenu(ask.of)
  /\ UNCHANGED <<front, askDoc, askReady, asks, queue, remembered, wired, choosers, pending, reads,
                 misgiven, menuState, menus, misran, askBudget>>

AskSays(message) == /\ toMain' = Append(toMain, message)
                    /\ UNCHANGED <<front, askDoc, askReady, toTop, permissionVars, wired, choosers,
                                   pending, reads, misgiven, menuState, menus, misran, askBudget>>
SubmitFileChooser(how) == /\ panel # 0 /\ how \in {"files", "missing"} /\ panel' = 0
                          /\ AskSays(Saying("file-chooser-resolve", how, panel)) /\ menuShown' = menuShown
ClosesMenu(what) ==
  /\ menuShown # 0 /\ what \in {"context-menu-command", "context-menu-dismiss"} /\ menuShown' = 0
  /\ AskSays(Saying(what, "", menuShown)) /\ panel' = panel
\* Escape, or another overlay that opens.
CancelsAsks ==
  /\ CancelledAsks # <<>> /\ toMain' = toMain \o CancelledAsks /\ panel' = 0 /\ menuShown' = 0
  /\ UNCHANGED <<front, askDoc, askReady, toTop, permissionVars, wired, choosers, pending, reads, misgiven,
                 menuState, menus, misran, askBudget>>

-----------------------------------------------------------------------------
(* main.cjs, and the document. *)

MainTakes ==
  /\ toMain # <<>> /\ toMain' = Tail(toMain)
  /\ LET said == Head(toMain)
     IN \/ /\ said.kind = "permission-answer" /\ AnswerPermissionPrompt(said.of, said.what)
           /\ UNCHANGED <<choosers, pending, misgiven, menuState, misran>>
        \/ /\ said.kind = "file-chooser-resolve" /\ ResolveFileChooser(said.what, said.of)
           /\ UNCHANGED <<asks, queue, remembered, menuState, misran>>
        \/ /\ said.kind = "context-menu-command" /\ RunsMenuCommand(said.of)
           /\ UNCHANGED <<asks, queue, remembered, choosers, pending, misgiven, toTop>>
        \/ /\ said.kind = "context-menu-dismiss" /\ menuState' = 0
           /\ UNCHANGED <<asks, queue, remembered, choosers, pending, misgiven, misran, toTop>>
  /\ UNCHANGED <<front, askDoc, askReady, box, wired, reads, panel, menuShown, menus, askBudget>>

PageGoes == toTop' = <<>> /\ askReady' = FALSE /\ box' = 0 /\ panel' = 0 /\ menuShown' = 0
AskPreloadReady ==
  /\ ~askReady /\ askReady' = TRUE
  /\ UNCHANGED <<front, askDoc, toTop, toMain, permissionVars, chooserVars, menuVars, askBudget>>
DidNavigate ==
  /\ SpendAsk("navigations") /\ PageGoes /\ askDoc' = askDoc + 1 /\ RefusePermissionPrompts
  /\ UNCHANGED <<front, toMain, wired, choosers, pending, reads, misgiven, menuState, menus, misran>>
SwitchTab == /\ SpendAsk("switches") /\ front' = ~front
             /\ UNCHANGED <<askDoc, askReady, toTop, toMain, permissionVars, chooserVars, menuVars>>

AsksNext ==
  \/ \E s \in Sites : PermissionRequest(s) \/ \E v \in {"allow", "deny", "none"} : SitePermissionCommand(s, v)
  \/ \E answer \in Answers : RoutePermissionKey(answer) \/ ClicksAnswer(answer)
  \/ OpenFileChooser \/ DebuggerDetaches \/ OpensMenu
  \/ \E id \in reads : AcceptRead(id)
  \/ TopTakes \/ MainTakes \/ CancelsAsks
  \/ \E how \in {"files", "missing"} : SubmitFileChooser(how)
  \/ \E what \in {"context-menu-command", "context-menu-dismiss"} : ClosesMenu(what)
  \/ AskPreloadReady \/ DidNavigate \/ SwitchTab
AsksSpec == AsksInit /\ [][AsksNext]_asksVars

-----------------------------------------------------------------------------
(* Properties. *)

AsksTypeOK ==
  /\ {front, askReady, wired, misgiven, misran} \subseteq BOOLEAN /\ askDoc \in Nat
  /\ asks \in Seq([askDoc : 1..askDoc, site : Sites, got : {"none", "allow", "deny", "twice"}])
  /\ queue \in Seq(DOMAIN asks) /\ box \in 0..Len(asks)
  /\ choosers \in Seq([askDoc : 1..askDoc, got : {"none", "files", "cancel"}])
  /\ {pending, panel} \subseteq 0..Len(choosers) /\ reads \subseteq DOMAIN choosers
  /\ {menuState, menuShown} \subseteq 0..Len(menus)

\* A request is answered once, and one that is not answered waits its turn: none is "left holding a
\* device call open forever" (main.cjs, the comment on permissionPrompts).
AnsweredOnce == \A i \in DOMAIN asks :
  asks[i].got # "twice" /\ (asks[i].got = "none") = (\E k \in DOMAIN queue : queue[k] = i)

\* "A prompt belongs to the page that asked; a new document never answers it": whatever waits for a
\* key or a click was asked by the document that is there.
NewDocumentNeverAnswers == \A k \in DOMAIN queue : asks[queue[k]].askDoc = askDoc

\* Once the messages have arrived, the question over the page is the one a key would answer.
BoxIsHead == askReady /\ toTop = <<>> => box = IF queue = <<>> THEN 0 ELSE Head(queue)

\* Once the messages have arrived, a chooser or a menu of this document that main keeps is on the
\* page, where it can be answered.
NothingIsForgotten ==
  askReady /\ toTop = <<>> /\ toMain = <<>> /\ reads = {} =>
    /\ pending # 0 /\ choosers[pending].askDoc = askDoc => panel # 0
    /\ menuState # 0 /\ menus[menuState] = askDoc => menuShown = menuState

\* "An unanswered chooser leaves the page believing a dialog is still open, which is the state this
\* path exists to avoid" (preload.cjs, cancelFileChooser).
EveryAskerIsHeld == \A i \in DOMAIN choosers :
  wired /\ choosers[i] = [askDoc |-> askDoc, got |-> "none"] => pending = i

\* Files go to the input whose chooser they were typed in; a menu's command to what it was drawn for.
FilesGoWhereAsked == ~misgiven
CommandIsOfItsMenu == ~misran
=============================================================================
