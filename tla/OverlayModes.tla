---------------------------- MODULE OverlayModes ----------------------------
(* The overlays the page script draws over a page (src/electron/preload.cjs), the mode its indicator
   names, and what the engine makes of that mode: main.cjs takes the keys of a pane for text while
   the mode is one of TEXT_MODES, and for commands otherwise.

   One document, its top frame. Overlays open from keys, from clicks and from messages of the
   engine, some of them answers that arrive late; they close on Escape, on a choice, on a message,
   or because another opens. What is drawn inside an overlay is left out. *)
EXTENDS Integers, FiniteSets

CONSTANT OverlayScenes    \* how often each kind of event happens

VARIABLES
  opened,     \* the overlays whose state is not null
  indicator,  \* the mode last given to setMode, which main.cjs mirrors as text or not
  caret,      \* which editable holds the focus: none, one of the page, the overlay's own
  caretBack,  \* what a select list or a context menu gives the focus back to
  focusDue,   \* an overlay has asked for its focus on the next animation frame
  filter,     \* the help's filter: off, typing, typed (typing, not empty), kept (not empty)
  pageInsert, \* insertMode
  vim,        \* vimiumEnabled
  passing,    \* passThroughEscape
  timers,     \* normalMode calls under way in a setTimeout
  lists,      \* list-tabs requests not answered
  rounds,     \* hint-round requests not answered
  unsaid,     \* history: an overlay went, or the mode was set, without the one knowing of the other
  overBudget

overlayVars == <<opened, indicator, caret, caretBack, focusDue, filter, pageInsert, vim, passing,
                 timers, lists, rounds, unsaid, overBudget>>

\* Overlays with an input of their own, which asks for the focus; the others take keys from the
\* document.
OwnFields == {"omnibox", "command-line", "history", "downloads", "chooser"}
Overlays == OwnFields \union {"help", "search", "command", "visual", "hint", "pick", "inspect", "tabs",
                               "select", "menu"}
TEXT_MODES == {"insert", "omnibox", "search", "command-line", "command"}
\* The modes an overlay shows.
ModesOf(o) == CASE o = "hint" -> {"hint", "visual"} [] o = "pick" -> {"visual", "inspect"}
                [] o = "menu" -> {} [] OTHER -> {o}

hasTransientMode(os) == os \ {"command", "command-line"} # {}

OverlaysInit ==
  /\ opened = {} /\ indicator = "normal" /\ caret = "none" /\ caretBack = "none"
  /\ focusDue = FALSE /\ filter = "off" /\ pageInsert = FALSE /\ vim = TRUE /\ passing = FALSE
  /\ timers = 0 /\ lists = 0 /\ rounds = 0 /\ unsaid = FALSE
  /\ overBudget \in OverlayScenes

SpendOver(what) == overBudget[what] > 0 /\ overBudget' = [overBudget EXCEPT ![what] = @ - 1]

-----------------------------------------------------------------------------
(* The pieces every handler is made of. *)

\* The mode normalMode picks when f holds the focus.
Natural(f, insert) == IF insert \/ f # "none" THEN "insert" ELSE "normal"

\* setMode: it also settles what an earlier close has left unsaid.
SetMode(m) == indicator' = m /\ unsaid' = FALSE
NormalMode == SetMode(Natural(caret', pageInsert'))
\* normalMode called by something that does not know what is open.
NormalModeOver(os, f, insert) == indicator' = Natural(f, insert) /\ unsaid' = (os # {})

\* Where the focus is once cancelTransient has closed everything: a removed field loses it.
CaretAfter == IF caret = "own" THEN "none"
              ELSE IF opened \intersect {"select", "menu"} # {} THEN caretBack ELSE caret

\* cancelTransient(false), then the overlays os.
Instead(os) == /\ opened' = os /\ caret' = CaretAfter /\ filter' = "off"
               /\ focusDue' = (os \intersect OwnFields # {})
               /\ caretBack' = IF os \intersect {"select", "menu"} # {} THEN CaretAfter ELSE "none"

Rest == UNCHANGED <<pageInsert, vim, passing, timers, lists, rounds>>

\* A letter reaches the command table: nothing editable has the focus and no open overlay keeps it.
Commands == /\ vim /\ ~pageInsert /\ caret = "none"
            /\ opened \subseteq {"command-line", "menu"}

-----------------------------------------------------------------------------
(* Opening. *)

\* A key opens an overlay that is drawn at once.
Show(o) == Commands /\ SpendOver("opens") /\ Instead({o}) /\ SetMode(o) /\ Rest
ShowHelp == Show("help")
ShowPrompt == Show("omnibox")
StartCommandLine == Show("command-line")
SearchOpens == Show("search")
ShowHistory == Show("history")
ShowDownloads == Show("downloads")
StartCommandPalette == Show("command")
SelectPageText == Show("visual")

\* The engine asks for a file: also again, after a path that does not exist.
ShowFileChooser == SpendOver("pushes") /\ Instead({"chooser"}) /\ SetMode("chooser") /\ Rest

\* The tab list is drawn when the engine answers; then it only replaces an older list.
ShowTabList == /\ Commands /\ SpendOver("opens") /\ Instead({}) /\ SetMode("tabs")
               /\ lists' = lists + 1 /\ UNCHANGED <<pageInsert, vim, passing, timers, rounds>>
RenderTabList == /\ lists > 0 /\ lists' = lists - 1
                 /\ opened' = opened \union {"tabs"} /\ SetMode("tabs")
                 /\ UNCHANGED <<caret, caretBack, focusDue, filter, pageInsert, vim, passing,
                                timers, rounds, overBudget>>

\* f and v ask the engine for this frame's share of the labels, and draw when it comes.
StartHints == /\ Commands
              /\ SpendOver("opens") /\ rounds' = rounds + 1
              /\ UNCHANGED <<opened, indicator, caret, caretBack, focusDue, filter, pageInsert, vim,
                             passing, timers, lists, unsaid>>
DrawHints(some, shown) ==
  /\ rounds > 0 /\ rounds' = rounds - 1 /\ shown \in ModesOf("hint")
  /\ Instead(IF some THEN {"hint"} ELSE {})
  /\ IF some THEN SetMode(shown) ELSE indicator' = indicator /\ unsaid' = TRUE
  /\ UNCHANGED <<pageInsert, vim, passing, timers, lists, overBudget>>

\* A picker of this frame alone; with nothing to pick the mode says so for a while.
StartPicker(some) ==
  /\ Commands /\ SpendOver("opens") /\ Instead(IF some THEN {"pick"} ELSE {}) /\ SetMode("inspect")
  /\ timers' = IF some THEN timers ELSE timers + 1
  /\ UNCHANGED <<pageInsert, vim, passing, lists, rounds>>

\* A click on a select; one without an option to choose closes what was open and draws nothing.
ShowSelectList(some) ==
  /\ vim /\ SpendOver("pushes") /\ Rest
  /\ IF "select" \in opened
     THEN Instead({}) /\ NormalMode
     ELSE /\ opened' = (IF some THEN {"select"} ELSE {}) /\ filter' = "off" /\ focusDue' = FALSE
          /\ caret' = (IF some THEN "none" ELSE CaretAfter)
          /\ caretBack' = (IF some THEN CaretAfter ELSE "none")
          /\ IF some THEN SetMode("select") ELSE indicator' = indicator /\ unsaid' = TRUE

ShowBrowserContextMenu ==
  /\ SpendOver("pushes") /\ opened' = {"menu"} /\ filter' = "off" /\ focusDue' = FALSE
  /\ caret' = "none" /\ caretBack' = CaretAfter
  /\ indicator' = indicator /\ unsaid' = TRUE /\ Rest

\* The context menu's inspect, and main's other ways into an overlay with a state of its own.
InspectContextPoint == SpendOver("pushes") /\ Instead({"inspect"}) /\ SetMode("inspect") /\ Rest

EnterInsertMode == /\ Commands /\ SpendOver("modes") /\ pageInsert' = TRUE /\ Instead({})
                   /\ SetMode("insert") /\ UNCHANGED <<vim, passing, timers, lists, rounds>>

-----------------------------------------------------------------------------
(* The focus, answers, timers and messages. *)

\* handleFocusIn and the microtask of handleFocusOut, for a focus that is at f afterwards.
FocusSets(f) ==
  IF f # "none" /\ vim /\ opened \intersect {"search", "omnibox"} = {} THEN SetMode("insert")
  ELSE IF ~hasTransientMode(opened) THEN SetMode(Natural(f, pageInsert))
  ELSE UNCHANGED <<indicator, unsaid>>

OwnFocus == /\ focusDue /\ focusDue' = FALSE /\ caret' = "own" /\ FocusSets("own")
            /\ UNCHANGED <<opened, caretBack, filter, overBudget>> /\ Rest
PageFocus(f) == /\ f \in {"none", "field"} /\ f # caret /\ SpendOver("focuses")
                /\ caret' = f /\ FocusSets(f)
                /\ UNCHANGED <<opened, caretBack, focusDue, filter>> /\ Rest

\* A reply, or a cursor movement, in an overlay that names itself again.
Again(o) == /\ o \in opened /\ SpendOver("replies") /\ SetMode(o)
            /\ UNCHANGED <<opened, caret, caretBack, focusDue, filter>> /\ Rest
RenderHistoryModel == Again("history")
RenderDownloadsModel == Again("downloads")
CompletionRenders == Again("chooser")
SelectTabListIndex == Again("tabs")
PaintSelectList == Again("select")
FilterCommandPalette == Again("command")
FindResult == Again("search")
PromptModel == Again("omnibox")
UpdateVisualSelection == Again("visual")

\* A message of the engine is shown in the indicator's place for 650 ms.
Flash == /\ SpendOver("pushes") /\ SetMode("normal") /\ timers' = timers + 1
         /\ UNCHANGED <<opened, caret, caretBack, focusDue, filter, pageInsert, vim, passing, lists,
                        rounds>>
FlashEnds == /\ timers > 0 /\ timers' = timers - 1
             /\ NormalModeOver(opened, caret, pageInsert)
             /\ UNCHANGED <<opened, caret, caretBack, focusDue, filter, pageInsert, vim, passing, lists,
                            rounds, overBudget>>

ShortcutsMode(v) ==
  /\ SpendOver("modes") /\ vim' = v /\ pageInsert' = FALSE
  /\ IF v THEN UNCHANGED <<opened, caret, caretBack, focusDue, filter>> ELSE Instead({})
  /\ NormalModeOver(opened', caret', pageInsert') /\ UNCHANGED <<passing, timers, lists, rounds>>

\* The window loses the focus: a picker goes, and the mode is not set.
WindowBlur == /\ opened \intersect {"hint", "pick"} # {} /\ SpendOver("pushes")
              /\ opened' = opened \ {"hint", "pick"} /\ unsaid' = TRUE
              /\ UNCHANGED <<indicator, caret, caretBack, focusDue, filter>> /\ Rest
\* A round that ends and leaves the mode.
EndsInHint == /\ "hint" \in opened /\ opened' = opened \ {"hint"}
              /\ UNCHANGED <<caret, caretBack, focusDue, filter, overBudget, indicator, unsaid>> /\ Rest
\* The round ended elsewhere.
HintEnd == /\ "hint" \in opened /\ opened' = opened \ {"hint"}
           /\ UNCHANGED <<caret, caretBack, focusDue, filter, overBudget>> /\ Rest /\ NormalMode

-----------------------------------------------------------------------------
(* Closing. *)

Close(o) == /\ o \in opened /\ opened' = opened \ {o} /\ filter' = "off" /\ focusDue' = FALSE
            /\ caret' = IF o \in OwnFields /\ caret = "own" THEN "none"
                        ELSE IF o \in {"select", "menu"} THEN caretBack ELSE caret
            /\ caretBack' = "none" /\ UNCHANGED overBudget

\* A choice that sets the mode again.
Submit(o) == Close(o) /\ Rest /\ NormalMode
SubmitPrompt == Submit("omnibox")
SubmitCommandLine == Submit("command-line")
MatchLanded == Submit("search")
ChooserSubmits == Submit("chooser")
ChooseSelectOption == Submit("select")
CloseBrowserContextMenu == Submit("menu")
ClickVisual == Submit("visual")
CancelHelp == Submit("help")

\* A choice that goes to another page or tab, or runs a command, and leaves the mode.
SubmitQuietly(o) == Close(o) /\ Rest /\ indicator' = indicator /\ unsaid' = TRUE
ActivateSelectedTab == SubmitQuietly("tabs")
OpenSelectedHistory == SubmitQuietly("history")
OpenSelectedDownload == SubmitQuietly("downloads")
PaletteEnter == SubmitQuietly("command")

\* A choice that says what it did: cancel(false), then flash.
SubmitWithFlash(o) == /\ o \in opened /\ SpendOver("replies") /\ opened' = opened \ {o}
                      /\ SetMode("normal") /\ timers' = timers + 1
                      /\ UNCHANGED <<caret, caretBack, focusDue, filter, pageInsert, vim, passing, lists,
                                     rounds>>
CopyVisual == SubmitWithFlash("visual")
HandleInspectKey == SubmitWithFlash("inspect")

\* A label is typed: a click, an area to scroll, visual mode or the inspector.
PickInto(o, into) == /\ o \in opened /\ opened' = (opened \ {o}) \union into
                     /\ UNCHANGED <<caret, caretBack, focusDue, filter, overBudget>> /\ Rest
PickAndClick == \E o \in {"hint", "pick"} : PickInto(o, {}) /\ NormalMode
EnterVisual == \E o \in {"hint", "pick"} : PickInto(o, {"visual"}) /\ SetMode("visual")
\* d in visual mode goes on to the inspector.
EnterInspect == \E o \in {"pick", "visual"} : PickInto(o, {"inspect"}) /\ SetMode("inspect")

\* Keys of the help's filter.
HelpFilter == /\ "help" \in opened /\ vim /\ ~pageInsert /\ SpendOver("replies")
              /\ filter' \in CASE filter = "off" -> {"typing"} [] filter = "typing" -> {"typed", "off"}
                               [] filter = "typed" -> {"typing", "kept"} [] OTHER -> {"typed"}
              /\ UNCHANGED <<opened, indicator, caret, caretBack, focusDue, unsaid>> /\ Rest

\* An Escape arrives: handleNormalKey from the top.
EscapeTransient == /\ Instead({}) /\ UNCHANGED <<passing>> /\ NormalMode
EscapeFilter == /\ filter' = (IF filter = "typed" THEN "typing" ELSE "off")
                /\ UNCHANGED <<opened, indicator, caret, caretBack, focusDue, unsaid, passing>>
EscapePalette == /\ opened' = {} /\ indicator' = indicator /\ unsaid' = TRUE
                 /\ UNCHANGED <<caret, caretBack, focusDue, filter, passing>>
DismissPageOverlay == /\ passing' = TRUE
                      /\ UNCHANGED <<opened, indicator, caret, caretBack, focusDue, filter, unsaid>>
Escape == /\ vim /\ ~passing /\ SpendOver("escapes")
          /\ UNCHANGED <<vim, timers, lists, rounds>>
          /\ IF hasTransientMode(opened) /\ (filter = "off" \/ "help" \notin opened)
             THEN pageInsert' = pageInsert /\ EscapeTransient
             ELSE IF pageInsert
             THEN /\ pageInsert' = FALSE /\ UNCHANGED <<opened, caret, caretBack, focusDue, filter,
                                                        passing>>
                  /\ NormalMode
             ELSE /\ pageInsert' = pageInsert
                  /\ IF "help" \in opened THEN EscapeFilter
                     ELSE IF "command" \in opened THEN EscapePalette ELSE DismissPageOverlay

\* The Escape that was asked for reaches the page, or 500 ms pass without it: then the focus goes.
\* The line's own input sees that Escape while it has the focus, and closes.
PassedEscape(delivered) ==
  LET seen == delivered /\ "command-line" \in opened /\ caret = "own"
  IN /\ passing /\ passing' = FALSE
     /\ opened' = IF seen THEN opened \ {"command-line"} ELSE opened
     /\ caret' = "none" /\ focusDue' = IF seen THEN FALSE ELSE focusDue
     /\ UNCHANGED <<caretBack, filter, pageInsert, vim, timers, lists, rounds, overBudget>>
     /\ NormalModeOver(opened', caret', pageInsert)

OverlaysNext ==
  \/ ShowHelp \/ ShowPrompt \/ StartCommandLine \/ SearchOpens \/ ShowHistory \/ ShowDownloads
  \/ StartCommandPalette \/ SelectPageText \/ ShowFileChooser \/ ShowTabList \/ RenderTabList
  \/ StartHints \/ ShowBrowserContextMenu \/ InspectContextPoint \/ EnterInsertMode
  \/ \E some \in BOOLEAN : \/ StartPicker(some) \/ ShowSelectList(some) \/ PassedEscape(some)
                           \/ ShortcutsMode(some) \/ \E m \in ModesOf("hint") : DrawHints(some, m)
  \/ RenderHistoryModel \/ RenderDownloadsModel \/ CompletionRenders \/ SelectTabListIndex
  \/ PaintSelectList \/ FilterCommandPalette \/ FindResult \/ PromptModel \/ UpdateVisualSelection
  \/ OwnFocus \/ (\E f \in {"none", "field"} : PageFocus(f)) \/ Flash \/ FlashEnds \/ WindowBlur \/ HintEnd
  \/ SubmitPrompt \/ SubmitCommandLine \/ MatchLanded \/ ChooserSubmits \/ ChooseSelectOption
  \/ CloseBrowserContextMenu \/ ClickVisual \/ CancelHelp \/ ActivateSelectedTab \/ OpenSelectedHistory
  \/ OpenSelectedDownload \/ PaletteEnter \/ CopyVisual \/ HandleInspectKey
  \/ PickAndClick \/ EnterVisual \/ EnterInspect \/ HelpFilter \/ Escape

OverlaysSpec == OverlaysInit /\ [][OverlaysNext]_overlayVars

-----------------------------------------------------------------------------
\* Types: the overlays, the modes and the counts stay in their sets.
OverlaysTypeOK ==
  /\ opened \subseteq Overlays
  /\ indicator \in UNION {ModesOf(o) : o \in Overlays} \union {"normal", "insert"}
  /\ caret \in {"none", "field", "own"} /\ caretBack \in {"none", "field"}
  /\ focusDue \in BOOLEAN /\ filter \in {"off", "typing", "typed", "kept"}
  /\ timers \in Nat /\ lists \in Nat /\ rounds \in Nat

\* Two overlays are never up together, whatever order keys, clicks, answers and messages come in.
\* The tab list is the exception: its late answer draws it over whatever is open by then.
OneOverlay == Cardinality(opened \ {"tabs"}) <= 1

\* While no message is on show and every close has said its mode, the indicator is true: a mode of
\* an overlay has that overlay on screen (or a tab list that was asked for), and with none on screen
\* it tells whether keys are text.
IndicatorIsTrue ==
  ~unsaid /\ timers = 0 =>
    /\ \/ indicator \in {"normal", "insert"}
       \/ \E o \in opened : indicator \in ModesOf(o)
       \/ indicator = "tabs" /\ lists > 0
    /\ opened = {} => indicator \in {Natural(caret, pageInsert)} \union (IF lists > 0 THEN {"tabs"} ELSE {})

\* What is typed into the omnibox, the command line or a field of the page is text to main.cjs, not
\* commands, while no message is on show and no tab list hides them.
TypedIsText == /\ vim /\ ~unsaid /\ timers = 0 /\ opened \in {{}, {"omnibox"}, {"command-line"}}
               /\ caret \in {"own", "field"} /\ lists = 0
               => indicator \in TEXT_MODES

\* The same for every input of TWeb's own, as src/electron/input-source.cjs has it.
OwnInputsAreText == vim /\ caret = "own" => indicator \in TEXT_MODES

\* A mode that makes keys text has something to type into.
TextHasAPlace == vim /\ timers = 0 /\ indicator \in TEXT_MODES
                 => opened # {} \/ pageInsert \/ caret # "none"

\* An Escape that finds overlays open leaves none, or takes one step back in the help's filter.
EscapeGoesBack == [][Escape /\ (opened \ {"command-line"}) # {} =>
                       opened' = {} \/ (opened' = opened /\ filter' # filter)]_overlayVars
=============================================================================
