--------------------------- MODULE TerminalInput ---------------------------
\* What the engine makes of a pane's terminal bytes (src/electron/main.cjs
\* consumeRawInput, scheduleRawInputFlush, dispatchText, the INPUT control line;
\* paste-state.cjs).  The bytes of one key or paste may arrive in any number of lines; an
\* ESC that no more bytes follow is the Escape key after 35 ms.
EXTENDS FiniteSets, Naturals, Sequences, SequencesExt

CONSTANTS KeysTyped,  \* what the person does: sequences of the events below
          PasteLimit  \* bytes a paste body may have

ASSUME TerminalAssumption ==
    /\ \A s \in KeysTyped : s \in Seq({"char", "control", "escape", "arrow", "altBracket", "paste", "longPaste"})
    /\ PasteLimit \in Nat

\* The bytes each event is written as.  "20" stands for ESC[20's digits, which the opening
\* and closing brackets of a paste share; "alt" is the whole of ESC[91;3u.
BytesOf == [char |-> <<"x">>, control |-> <<"ctl">>, escape |-> <<"esc">>, altBracket |-> <<"alt">>,
            arrow |-> <<"esc", "[", "A">>,
            paste |-> <<"esc", "[", "20", "0~", "x", "esc", "[", "20", "1~">>,
            longPaste |-> <<"esc", "[", "20", "0~", "x", "x", "x", "x", "x", "esc", "[", "20", "1~">>]
PasteStart == <<"esc", "[", "20", "0~">>
PasteEnd == <<"esc", "[", "20", "1~">>

VARIABLES typed,    \* what the person typed
          unread,     \* bytes of it not yet read: [b |-> byte, ev |-> the event it belongs to]
          raw,      \* input.raw
          paste,    \* PasteState: whether a body is being collected, and the body
          flush,    \* whether input.flushTimer is set
          parsing,  \* inside consumeRawInput
          heard,    \* dispatched: [ev |-> event, as |-> what it was taken for]
          misread     \* for the properties: known ways in which bytes are misread
termVars == <<typed, unread, raw, paste, flush, parsing, heard, misread>>

Bytes(s) == [i \in DOMAIN s |-> s[i].b]
StartsWith(s) == Len(raw) >= Len(s) /\ Bytes(SubSeq(raw, 1, Len(s))) = s
Dropping(n) == SubSeq(raw, n + 1, Len(raw))
EscapeAt == {i \in DOMAIN raw : raw[i].b \in {"esc", "alt"}}
FirstEscape == CHOOSE i \in EscapeAt : \A j \in EscapeAt : i <= j
NoPaste == [active |-> FALSE, body |-> <<>>]
Hears(ev, as) == heard' = Append(heard, [ev |-> ev, as |-> as])

TermInit ==
    /\ typed \in KeysTyped
    /\ unread = FlattenSeq([e \in DOMAIN typed |->
                             [i \in DOMAIN BytesOf[typed[e]] |-> [b |-> BytesOf[typed[e]][i], ev |-> e]]])
    /\ raw = <<>> /\ paste = NoPaste /\ flush = FALSE /\ parsing = FALSE /\ heard = <<>> /\ misread = {}

------------------------------------------------------------------------------
\* What starts a parse.

\* An INPUT line: any number of bytes, as the terminal's read cut them.
InputLine ==
    /\ ~parsing /\ unread # <<>>
    /\ \E n \in 1..Len(unread) : raw' = raw \o SubSeq(unread, 1, n) /\ unread' = SubSeq(unread, n + 1, Len(unread))
    /\ flush' = FALSE /\ parsing' = TRUE /\ UNCHANGED <<typed, paste, heard, misread>>

\* 35 ms without another: the ESC is the Escape key, and the rest is read again.
FlushEscape ==
    /\ flush /\ ~parsing /\ flush' = FALSE
    /\ IF StartsWith(<<"esc">>)
       THEN /\ Hears(raw[1].ev, "escape") /\ raw' = Tail(raw) /\ parsing' = TRUE
            /\ misread' = misread \cup (IF typed[raw[1].ev] # "escape" THEN {"cut"} ELSE {})
       ELSE UNCHANGED <<heard, raw, parsing, misread>>
    /\ UNCHANGED <<typed, unread, paste>>

------------------------------------------------------------------------------
\* The rules of consumeRawInput, in their order; one step of its loop each.

NothingLeft == parsing /\ raw = <<>> /\ parsing' = FALSE /\ UNCHANGED <<typed, unread, raw, paste, flush,
                                                                        heard, misread>>

\* PasteState.push: the closing bracket may straddle lines; a body over the limit is dropped.
EndAt(body) == {i \in DOMAIN body : i + Len(PasteEnd) - 1 <= Len(body)
                                    /\ Bytes(SubSeq(body, i, i + Len(PasteEnd) - 1)) = PasteEnd}

PasteTakes ==
    /\ parsing /\ paste.active /\ raw # <<>>
    /\ LET body == paste.body \o raw
       IN IF EndAt(body) # {}
          THEN LET end == CHOOSE i \in EndAt(body) : \A j \in EndAt(body) : i <= j
               IN /\ raw' = SubSeq(body, end + Len(PasteEnd), Len(body)) /\ paste' = NoPaste
                  /\ IF end > 1 THEN Hears(body[1].ev, "paste") ELSE UNCHANGED heard
                  /\ UNCHANGED <<parsing, misread>>
          ELSE /\ raw' = <<>> /\ parsing' = FALSE /\ UNCHANGED heard
               /\ IF Len(body) > PasteLimit THEN paste' = NoPaste /\ misread' = misread \cup {"dropped"}
                  ELSE paste' = [active |-> TRUE, body |-> body] /\ UNCHANGED misread
    /\ UNCHANGED <<typed, unread, flush>>

\* dispatchText of what stands before the next ESC: control bytes are keys only until the
\* first byte of text, which takes the rest through the decoder.
TextOf(s) ==
    LET chars == {i \in DOMAIN s : s[i].b # "ctl"}
        read == IF chars = {} THEN s
                ELSE LET first == CHOOSE i \in chars : \A j \in chars : i <= j
                     IN SubSeq(s, 1, first - 1) \o SelectSeq(SubSeq(s, first, Len(s)), LAMBDA x : x.b # "ctl")
    IN [i \in DOMAIN read |-> [ev |-> read[i].ev, as |-> IF read[i].b = "ctl" THEN "control" ELSE "char"]]
TakeText ==
    /\ parsing /\ ~paste.active /\ raw # <<>> /\ (EscapeAt # {} => FirstEscape > 1)
    /\ LET n == IF EscapeAt = {} THEN Len(raw) ELSE FirstEscape - 1
           text == TextOf(SubSeq(raw, 1, n))
       IN /\ heard' = heard \o text /\ raw' = Dropping(n)
          /\ misread' = misread \cup (IF Len(text) < n THEN {"control"} ELSE {})
    /\ UNCHANGED <<typed, unread, paste, flush, parsing>>

AtEscape == parsing /\ ~paste.active /\ EscapeAt # {} /\ FirstEscape = 1

PasteBegins ==
    /\ AtEscape /\ StartsWith(PasteStart)
    /\ flush' = FALSE /\ paste' = [active |-> TRUE, body |-> <<>>] /\ raw' = Dropping(Len(PasteStart))
    /\ UNCHANGED <<typed, unread, parsing, heard, misread>>

\* Alt-[ with anything behind it is taken for the ESC[ of a sequence a terminal encoded.
AltBracket ==
    /\ AtEscape /\ raw[1].b = "alt"
    /\ IF Len(raw) > 1
       THEN /\ raw' = <<[b |-> "esc", ev |-> raw[1].ev], [b |-> "[", ev |-> raw[1].ev]>> \o Tail(raw)
            /\ misread' = misread \cup {"folded"} /\ UNCHANGED heard
       ELSE Hears(raw[1].ev, "altBracket") /\ raw' = <<>> /\ UNCHANGED misread
    /\ UNCHANGED <<typed, unread, paste, flush, parsing>>

Arrow ==
    /\ AtEscape /\ StartsWith(<<"esc", "[", "A">>) /\ Hears(raw[1].ev, "arrow") /\ raw' = Dropping(3)
    /\ UNCHANGED <<typed, unread, paste, flush, parsing, misread>>

\* ESC[201~ outside a paste is no key at all.
StrayEnd ==
    /\ AtEscape /\ StartsWith(PasteEnd) /\ raw' = Dropping(Len(PasteEnd))
    /\ UNCHANGED <<typed, unread, paste, flush, parsing, heard, misread>>

\* What may still become a sequence waits for the next line.
Incomplete == Bytes(raw) \in {<<"esc">>, <<"esc", "[">>, <<"esc", "[", "20">>}
WaitForMore ==
    /\ AtEscape /\ Incomplete /\ flush' = TRUE /\ parsing' = FALSE
    /\ UNCHANGED <<typed, unread, raw, paste, heard, misread>>

\* An ESC nothing above knows is the Escape key; what follows it is read on its own.
LoneEscape ==
    /\ AtEscape /\ raw[1].b = "esc" /\ ~Incomplete
    /\ ~\E s \in {PasteStart, PasteEnd, <<"esc", "[", "A">>} : StartsWith(s)
    /\ Hears(raw[1].ev, "escape") /\ raw' = Tail(raw)
    /\ UNCHANGED <<typed, unread, paste, flush, parsing, misread>>

Parse == NothingLeft \/ PasteTakes \/ TakeText \/ PasteBegins \/ AltBracket \/ Arrow
         \/ StrayEnd \/ WaitForMore \/ LoneEscape
TermNext == InputLine \/ FlushEscape \/ Parse

\* The timer fires, and a parse is one run of JavaScript.
TermFairness == WF_termVars(FlushEscape) /\ WF_termVars(Parse)
TermSpec == TermInit /\ [][TermNext]_termVars /\ TermFairness
------------------------------------------------------------------------------

TermTypeOK ==
    /\ flush \in BOOLEAN /\ parsing \in BOOLEAN
    /\ misread \subseteq {"cut", "dropped", "folded", "control"}
    /\ \A i \in DOMAIN heard : heard[i].ev \in DOMAIN typed

\* Whatever the lines cut, the pane hears what was typed, in order, each once: keys as the
\* keys they are and a paste as one paste ("arbitrary bytes ... split across however many
\* read() chunks the PTY hands over").  Except for the known misread: a sequence cut for
\* longer than the window, Alt-[ with a key right behind it, a control byte behind text in
\* one line, and a paste over the limit.
Meant == [e \in DOMAIN typed |-> [ev |-> e, as |-> IF typed[e] = "longPaste" THEN "paste" ELSE typed[e]]]
KeysAreReadRight == misread = {} => IsPrefix(heard, Meant)

\* An Escape that has been read is delivered in the end without another key being pressed, unless an
\* open paste has it.
EscapeWaits == ~paste.active /\ \E i \in DOMAIN raw : typed[raw[i].ev] = "escape"
EscapeArrives == []<>~EscapeWaits

\* No byte of a paste is ever taken for a key ("A paste body is never parsed as escape
\* sequences"), lines cut where they may, unless its opening bracket was cut for longer
\* than the window.
PasteIsNeverTyped ==
    "cut" \notin misread =>
        \A i \in DOMAIN heard : typed[heard[i].ev] \in {"paste", "longPaste"} => heard[i].as = "paste"
=============================================================================
