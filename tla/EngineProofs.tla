---------------------------- MODULE EngineProofs ----------------------------
(* Proofs about the parts of an engine process.                             *)
EXTENDS MCEngine, ExchangeProofs, PictureProofs, SequenceTheorems, FiniteSetTheorems, TLAPS

(* A step of the engine is a step of the queue, or leaves it alone.         *)
LEMMA QueueInEngine ==
  ASSUME [MCEngineNext]_<<pagesVars, inputVars, outputVars, part>>
  PROVE  [ChromeInputNext]_chromeInputVars
BY DEF MCEngineNext, inputVars

(* So its invariant holds for as long as the engine runs. *)
LEMMA QueueIsKept ==
  QueueInv /\ [MCEngineNext]_<<pagesVars, inputVars, outputVars, part>> => QueueInv'
BY QueueInEngine, QueueStep

(* Whatever is called and however long the page takes to answer a probe: a click and the typing behind it
   reach the page in the order they were called in, a key that waits for its text types it once, and a
   press lands where the pane showed it (the input queue of cdp/web-contents.cjs). *)
THEOREM ClicksThenTyping ==
  (ChromeInputSpec => []QueueIsTrue) /\ (MCEngineSpec => []QueueIsTrue)
<1>1. QueueInv => QueueIsTrue
  BY QueueSays DEF QueueIsTrue
<1>2. ChromeInputSpec => []QueueIsTrue
  BY <1>1, QueueStarts, QueueStep, PTL DEF ChromeInputSpec
<1>3. MCEngineSpec => []QueueIsTrue
  <2>1. MCEngineInit => QueueInv
    BY QueueStarts DEF MCEngineInit, QueueBegins
  <2> QED BY <1>1, <2>1, QueueIsKept, PTL DEF MCEngineSpec
<1> QED BY <1>2, <1>3

-----------------------------------------------------------------------------
TopKinds == {"prompt", "file-chooser", "context-menu"}
TopAsks == [kind : TopKinds, of : Nat]
Dismissals == {"context-menu-command", "context-menu-dismiss"}
SayKinds == {"permission-answer", "file-chooser-resolve"} \cup Dismissals
Whats == Answers \cup {"files", "missing", "cancel", ""}
Sayings == [kind : SayKinds, what : Whats, of : Nat]
Requests == [askDoc : Nat, site : Sites, got : {"none", "allow", "deny", "twice"}]
Choosers == [askDoc : Nat, got : Whats \cup {"none"}]

AskTypes ==
  /\ askDoc \in Nat \ {0} /\ askReady \in BOOLEAN
  /\ asks \in Seq(Requests)
  /\ queue \in Seq(Nat) /\ box \in Nat
  /\ toTop \in Seq(TopAsks) /\ toMain \in Seq(Sayings)
  /\ choosers \in Seq(Choosers)
  /\ pending \in 0 .. Len(choosers) /\ reads \subseteq 1 .. Len(choosers) /\ panel \in Nat
  /\ menus \in Seq(Nat) /\ menuState \in 0 .. Len(menus) /\ menuShown \in Nat

(* Of the questions of a kind on their way to the page, none is left and n *)
(* is drawn, or the last asks for n. *)
NoneOf(q, kind, k) == \A j \in k .. Len(q) : q[j].kind # kind
EndsUpAt(q, kind, n, drawn) ==
  \/ drawn = n /\ NoneOf(q, kind, 1)
  \/ \E k \in 1 .. Len(q) : q[k] = Asking(kind, n) /\ NoneOf(q, kind, k + 1)

Comes(q, kinds) == \E k \in 1 .. Len(q) : q[k].kind \in kinds

(* What waits was asked by the document that is there, once, and has no *)
(* answer; what does not wait has one. *)
AnswersHeld ==
  /\ \A k \in 1 .. Len(queue) :
       queue[k] \in 1 .. Len(asks) /\ asks[queue[k]].got = "none" /\ asks[queue[k]].askDoc = askDoc
  /\ \A k, l \in 1 .. Len(queue) : queue[k] = queue[l] => k = l
  /\ \A i \in 1 .. Len(asks) :
       asks[i].got # "twice" /\ (asks[i].got = "none" => \E k \in 1 .. Len(queue) : queue[k] = i)

(* A frame that has not registered has nothing drawn and nothing coming. *)
Blank == queue = <<>> /\ toTop = <<>> /\ box = 0 /\ panel = 0 /\ menuShown = 0
First == IF queue = <<>> THEN 0 ELSE Head(queue)
BoxHeld == (askReady => EndsUpAt(toTop, "prompt", First, box)) /\ (~askReady => Blank)

(* A chooser of this document is on its way to be drawn, drawn, or about to *)
(* be answered. *)
PanelsNamed == \A k \in 1 .. Len(toTop) : toTop[k].kind # "prompt" => toTop[k].of # 0
ChooserComes == panel # 0 \/ Comes(toTop, {"file-chooser"}) \/ Comes(toMain, {"file-chooser-resolve"})
ChooserHeld ==
  /\ \A i \in 1 .. Len(choosers) : choosers[i].askDoc <= askDoc
  /\ PanelsNamed
  /\ pending # 0 /\ choosers[pending].askDoc = askDoc /\ pending \notin reads => askReady /\ ChooserComes

(* So is the menu main keeps. *)
MenuComes == Comes(toMain, Dismissals) \/ EndsUpAt(toTop, "context-menu", menuState, menuShown)
MenuHeld ==
  /\ \A i \in 1 .. Len(menus) : menus[i] <= askDoc
  /\ menuState # 0 /\ menus[menuState] = askDoc => askReady /\ MenuComes

AsksInv == AskTypes /\ AnswersHeld /\ BoxHeld /\ ChooserHeld /\ MenuHeld

-----------------------------------------------------------------------------
(* A sequence with one more element, *)
LEMMA AskAppended ==
  ASSUME NEW S, NEW q \in Seq(S), NEW m \in S
  PROVE  /\ Append(q, m) \in Seq(S) /\ Len(Append(q, m)) = Len(q) + 1 /\ Len(q) \in Nat
         /\ \A i \in 1 .. Len(q) : Append(q, m)[i] = q[i]
         /\ Append(q, m)[Len(q) + 1] = m
OBVIOUS

(* and one without its first. *)
LEMMA AskTaken ==
  ASSUME NEW S, NEW q \in Seq(S), q # <<>>
  PROVE  /\ Tail(q) \in Seq(S) /\ Len(Tail(q)) = Len(q) - 1 /\ Len(q) \in Nat \ {0}
         /\ Head(q) = q[1] /\ Head(q) \in S
         /\ \A i \in 1 .. Len(Tail(q)) : Tail(q)[i] = q[i + 1]
OBVIOUS

(* The last question of a kind counts, *)
LEMMA EndsAtNew ==
  ASSUME NEW S, NEW q \in Seq(S), NEW m \in S, NEW kind, NEW n, NEW d
  PROVE  /\ m = Asking(kind, n) => EndsUpAt(Append(q, m), kind, n, d)
         /\ m.kind # kind /\ EndsUpAt(q, kind, n, d) => EndsUpAt(Append(q, m), kind, n, d)
<1> DEFINE k == Len(q)
           r == Append(q, m)
<1>1. /\ Len(r) = k + 1 /\ k \in Nat /\ r[k + 1] = m
      /\ \A i \in 1 .. k : r[i] = q[i]
  BY AskAppended
<1> HIDE DEF r
<1>2. ASSUME m = Asking(kind, n) PROVE EndsUpAt(r, kind, n, d)
  <2>1. NoneOf(r, kind, k + 1 + 1) /\ k + 1 \in 1 .. Len(r)
    BY <1>1 DEF NoneOf
  <2> QED BY <1>1, <1>2, <2>1 DEF EndsUpAt
<1>3. ASSUME m.kind # kind, NEW j \in 1 .. k + 1, NoneOf(q, kind, j) PROVE NoneOf(r, kind, j)
  <2>1. ASSUME NEW i \in j .. k + 1 PROVE r[i].kind # kind
    <3>1. CASE i = k + 1
      BY <1>1, <1>3, <3>1
    <3>2. CASE i \in j .. k
      BY <1>1, <1>3, <3>2 DEF NoneOf
    <3> QED BY <1>1, <1>3, <3>1, <3>2
  <2> QED BY <1>1, <2>1 DEF NoneOf
<1>4. ASSUME m.kind # kind, EndsUpAt(q, kind, n, d) PROVE EndsUpAt(r, kind, n, d)
  <2>1. CASE d = n /\ NoneOf(q, kind, 1)
    BY <1>1, <1>3, <1>4, <2>1 DEF EndsUpAt
  <2>2. CASE \E j \in 1 .. k : q[j] = Asking(kind, n) /\ NoneOf(q, kind, j + 1)
    <3>1. PICK j \in 1 .. k : q[j] = Asking(kind, n) /\ NoneOf(q, kind, j + 1)
      BY <2>2
    <3>2. j + 1 \in 1 .. k + 1 /\ j \in 1 .. Len(r) /\ r[j] = q[j]
      BY <1>1, <3>1
    <3>3. NoneOf(r, kind, j + 1)
      BY <1>3, <1>4, <3>1, <3>2
    <3> QED BY <3>1, <3>2, <3>3 DEF EndsUpAt
  <2> QED BY <1>4, <2>1, <2>2 DEF EndsUpAt
<1> QED BY <1>2, <1>4 DEF r

(* also once the first has been drawn. *)
LEMMA EndsAtRest ==
  ASSUME NEW S, NEW q \in Seq(S), q # <<>>, NEW kind, NEW n, NEW d, EndsUpAt(q, kind, n, d)
  PROVE  /\ Head(q).kind = kind => EndsUpAt(Tail(q), kind, n, Head(q).of)
         /\ Head(q).kind # kind => EndsUpAt(Tail(q), kind, n, d)
         /\ Head(q).kind # kind /\ d # n => EndsUpAt(Tail(q), kind, n, 0)
<1> DEFINE k == Len(q)
           r == Tail(q)
<1>1. /\ Len(r) = k - 1 /\ k \in Nat \ {0} /\ Head(q) = q[1]
      /\ \A i \in 1 .. k - 1 : r[i] = q[i + 1]
  BY AskTaken
<1> HIDE DEF r
<1>2. ASSUME NEW j \in 1 .. k, NoneOf(q, kind, j + 1) PROVE NoneOf(r, kind, j)
  <2>1. ASSUME NEW i \in j .. k - 1 PROVE r[i].kind # kind
    <3>1. i \in 1 .. k - 1 /\ i + 1 \in j + 1 .. k
      BY <1>1
    <3> QED BY <1>1, <1>2, <3>1 DEF NoneOf
  <2> QED BY <1>1, <2>1 DEF NoneOf
<1>3. CASE d = n /\ NoneOf(q, kind, 1)
  <2>1. Head(q).kind # kind
    <3>1. 1 \in 1 .. Len(q)
      BY <1>1
    <3> QED BY <1>1, <1>3, <3>1 DEF NoneOf
  <2>2. NoneOf(q, kind, 1 + 1) /\ 1 \in 1 .. k
    BY <1>1, <1>3 DEF NoneOf
  <2>3. NoneOf(r, kind, 1)
    BY <1>2, <2>2
  <2> QED BY <1>3, <2>1, <2>3 DEF EndsUpAt, r
<1>4. CASE \E j \in 1 .. k : q[j] = Asking(kind, n) /\ NoneOf(q, kind, j + 1)
  <2>1. PICK j \in 1 .. k : q[j] = Asking(kind, n) /\ NoneOf(q, kind, j + 1)
    BY <1>4
  <2>2. NoneOf(r, kind, j)
    BY <1>2, <2>1
  <2>3. CASE j = 1
    <3>1. Head(q).kind = kind /\ Head(q).of = n
      BY <1>1, <2>1, <2>3 DEF Asking
    <3> QED BY <2>2, <2>3, <3>1 DEF EndsUpAt, r
  <2>4. CASE j # 1
    <3>1. j - 1 \in 1 .. Len(r) /\ r[j - 1] = q[j] /\ j - 1 + 1 = j
      BY <1>1, <2>1, <2>4
    <3>2. \A e : EndsUpAt(r, kind, n, e)
      BY <2>1, <2>2, <3>1 DEF EndsUpAt
    <3> QED BY <3>2 DEF r
  <2> QED BY <2>3, <2>4
<1> QED BY <1>3, <1>4 DEF EndsUpAt

(* What comes still comes when more does, *)
LEMMA ComesStill ==
  ASSUME NEW S, NEW q \in Seq(S), NEW r \in Seq(S), NEW kinds
  PROVE  /\ Comes(q, kinds) => Comes(q \o r, kinds)
         /\ Comes(r, kinds) => Comes(q \o r, kinds)
<1>1. /\ Len(q \o r) = Len(q) + Len(r) /\ Len(q) \in Nat /\ Len(r) \in Nat
      /\ \A i \in 1 .. Len(q) : (q \o r)[i] = q[i]
      /\ \A i \in 1 .. Len(r) : (q \o r)[Len(q) + i] = r[i]
  OBVIOUS
<1>2. \A i \in 1 .. Len(q) : i \in 1 .. Len(q \o r)
  BY <1>1
<1>3. \A i \in 1 .. Len(r) : Len(q) + i \in 1 .. Len(q \o r)
  BY <1>1
<1> QED BY <1>1, <1>2, <1>3 DEF Comes

(* also when one more comes, *)
LEMMA ComesNext ==
  ASSUME NEW S, NEW q \in Seq(S), NEW m \in S, NEW kinds
  PROVE  /\ Comes(q, kinds) => Comes(Append(q, m), kinds)
         /\ m.kind \in kinds => Comes(Append(q, m), kinds)
<1>1. /\ Len(Append(q, m)) = Len(q) + 1 /\ Len(q) \in Nat /\ Append(q, m)[Len(q) + 1] = m
      /\ \A i \in 1 .. Len(q) : Append(q, m)[i] = q[i]
  BY AskAppended
<1>2. Len(q) + 1 \in 1 .. Len(q) + 1 /\ \A i \in 1 .. Len(q) : i \in 1 .. Len(q) + 1
  BY <1>1
<1> QED BY <1>1, <1>2 DEF Comes

(* and when something else was taken. *)
LEMMA ComesLater ==
  ASSUME NEW S, NEW q \in Seq(S), q # <<>>, NEW kinds, Comes(q, kinds), Head(q).kind \notin kinds
  PROVE  Comes(Tail(q), kinds)
<1>1. PICK i \in 1 .. Len(q) : q[i].kind \in kinds
  BY DEF Comes
<1>2. i # 1 /\ Len(q) \in Nat
  BY <1>1, AskTaken
<1>3. i - 1 \in 1 .. Len(Tail(q)) /\ Tail(q)[i - 1] = q[i]
  BY <1>1, <1>2, AskTaken
<1> QED BY <1>1, <1>3 DEF Comes

(* With nothing on its way, what is drawn stays. *)
LEMMA NoneComes ==
  ASSUME NEW d, NEW kind, NEW kinds
  PROVE  EndsUpAt(<<>>, kind, d, d) /\ ~Comes(<<>>, kinds)
BY DEF EndsUpAt, NoneOf, Comes

(* The queue of the prompts without one of them. *)
LEMMA QueueWithout ==
  ASSUME NEW q \in Seq(Nat), NEW x \in 1 .. Len(q)
  PROVE  /\ RemoveAt(q, x) \in Seq(Nat) /\ Len(RemoveAt(q, x)) = Len(q) - 1
         /\ \A k \in 1 .. Len(q) - 1 : RemoveAt(q, x)[k] = q[IF k < x THEN k ELSE k + 1]
<1> DEFINE a == SubSeq(q, 1, x - 1)
           b == SubSeq(q, x + 1, Len(q))
<1>0. Len(q) \in Nat /\ x \in Nat /\ x <= Len(q) /\ 1 <= x
  OBVIOUS
<1>1. a \in Seq(Nat) /\ Len(a) = x - 1 /\ \A k \in 1 .. x - 1 : a[k] = q[k]
  BY <1>0
<1>2. b \in Seq(Nat) /\ Len(b) = Len(q) - x /\ \A k \in 1 .. Len(q) - x : b[k] = q[x + k]
  BY <1>0
<1> HIDE DEF a, b
<1>3. /\ a \o b \in Seq(Nat) /\ Len(a \o b) = Len(q) - 1
      /\ \A k \in 1 .. Len(q) - 1 : (a \o b)[k] = IF k < x THEN a[k] ELSE b[k - (x - 1)]
  <2>1. a \o b \in Seq(Nat) /\ Len(a \o b) = Len(a) + Len(b)
        /\ \A k \in 1 .. Len(a) + Len(b) : (a \o b)[k] = IF k <= Len(a) THEN a[k] ELSE b[k - Len(a)]
    BY <1>1, <1>2, ConcatProperties
  <2>2. Len(a) + Len(b) = Len(q) - 1
    BY <1>0, <1>1, <1>2
  <2>3. ASSUME NEW k \in 1 .. Len(q) - 1 PROVE k <= Len(a) <=> k < x
    BY <1>0, <1>1
  <2> QED BY <1>1, <2>1, <2>2, <2>3
<1>4. ASSUME NEW k \in 1 .. Len(q) - 1 PROVE (a \o b)[k] = q[IF k < x THEN k ELSE k + 1]
  <2>1. CASE k < x
    BY <1>0, <1>1, <1>3, <2>1
  <2>2. CASE ~(k < x)
    <3>1. k - (x - 1) \in 1 .. Len(q) - x /\ x + (k - (x - 1)) = k + 1
      BY <1>0, <2>2
    <3> QED BY <1>2, <1>3, <2>2, <3>1
  <2> QED BY <2>1, <2>2
<1>5. RemoveAt(q, x) = a \o b
  BY DEF RemoveAt, a, b
<1> QED BY <1>3, <1>4, <1>5

(* A function on 1 .. n is a sequence. *)
LEMMA AskSeq ==
  ASSUME NEW S, NEW n \in Nat, NEW f \in [1 .. n -> S]
  PROVE  f \in Seq(S) /\ Len(f) = n
OBVIOUS

(* Answering requests answers no other, and makes none. *)
LEMMA CallsTyped ==
  ASSUME AskTypes, NEW requests, NEW allowed, NEW called, called = Calls(requests, allowed)
  PROVE  /\ called \in Seq(Requests)
         /\ Len(called) = Len(asks)
         /\ \A i \in 1 .. Len(asks) :
              /\ called[i].askDoc = asks[i].askDoc
              /\ i \notin requests => called[i] = asks[i]
              /\ i \in requests /\ asks[i].got = "none" => called[i].got \in {"allow", "deny"}
<1>1. /\ asks \in Seq(Requests) /\ DOMAIN asks = 1 .. Len(asks) /\ Len(asks) \in Nat
      /\ \A i \in 1 .. Len(asks) : asks[i] \in Requests
  <2>1. asks \in Seq(Requests)
    BY DEF AskTypes
  <2> QED BY <2>1
<1>2. DOMAIN called = 1 .. Len(asks)
  BY <1>1 DEF Calls
<1>3. ASSUME NEW i \in 1 .. Len(asks)
      PROVE  /\ called[i] \in Requests /\ called[i].askDoc = asks[i].askDoc
             /\ i \notin requests => called[i] = asks[i]
             /\ i \in requests /\ asks[i].got = "none" => called[i].got \in {"allow", "deny"}
  <2>1. called[i] = IF i \notin requests THEN asks[i]
                    ELSE [asks[i] EXCEPT !.got = IF @ = "none" THEN IF allowed THEN "allow" ELSE "deny"
                                                 ELSE "twice"]
    BY <1>1 DEF Calls
  <2>2. asks[i] \in Requests
    BY <1>1
  <2>3. CASE i \notin requests
    BY <2>1, <2>2, <2>3
  <2>4. CASE i \in requests
    <3>1. PICK got \in {"allow", "deny", "twice"} :
            /\ called[i] = [asks[i] EXCEPT !.got = got]
            /\ asks[i].got = "none" => got \in {"allow", "deny"}
      BY <2>1, <2>4
    <3> QED BY <2>2, <2>4, <3>1 DEF Requests
  <2> QED BY <2>3, <2>4
<1>4. called = [i \in 1 .. Len(asks) |-> called[i]]
  BY <1>1 DEF Calls
<1>5. called \in [1 .. Len(asks) -> Requests]
  BY <1>3, <1>4
<1>6. called \in Seq(Requests) /\ Len(called) = Len(asks)
  <2> QED BY <1>1, <1>2, <1>5, AskSeq
<1> QED BY <1>3, <1>6

(* Answering the request id: it and no other leaves the queue. *)
LEMMA PromptAnswered ==
  ASSUME AskTypes, AnswersHeld, NEW id, NEW answer, AnswerPermissionPrompt(id, answer),
         askDoc' = askDoc
  PROVE  /\ AnswersHeld'
         /\ asks' \in Seq(Requests)
         /\ queue' \in Seq(Nat)
         /\ UNCHANGED <<queue, toTop>> \/ (queue # <<>> /\ Sends(Asking("prompt", First')))
<1>1. CASE \A k \in DOMAIN queue : queue[k] # id
  BY <1>1 DEF AnswerPermissionPrompt, AnswersHeld, AskTypes
<1>2. CASE \E k \in DOMAIN queue : queue[k] = id
  <2> DEFINE index == CHOOSE k \in DOMAIN queue : queue[k] = id
             allowed == answer \in {"once", "always"}
  <2>1. queue \in Seq(Nat) /\ DOMAIN queue = 1 .. Len(queue) /\ Len(queue) \in Nat
    BY DEF AskTypes
  <2>2. PICK x \in 1 .. Len(queue) : x = index /\ queue[x] = id
    BY <1>2, <2>1
  <2>3. /\ queue' = RemoveAt(queue, index) /\ asks' = Calls({id}, allowed)
        /\ Sends(Asking("prompt", IF RemoveAt(queue, index) = <<>> THEN 0 ELSE Head(RemoveAt(queue, index))))
    BY <1>2 DEF AnswerPermissionPrompt
  <2> HIDE DEF index, allowed
  <2>4. queue' = RemoveAt(queue, x) /\ Sends(Asking("prompt", First'))
    BY <2>2, <2>3 DEF First
  <2>5. /\ queue' \in Seq(Nat) /\ Len(queue') = Len(queue) - 1
        /\ \A k \in 1 .. Len(queue) - 1 : queue'[k] = queue[IF k < x THEN k ELSE k + 1]
    BY <2>1, <2>4, QueueWithout
  <2>6. PICK called : called = asks'
    OBVIOUS
  <2>7. /\ asks' \in Seq(Requests)
        /\ Len(asks') = Len(asks)
        /\ \A i \in 1 .. Len(asks) :
              /\ asks'[i].askDoc = asks[i].askDoc
              /\ i # id => asks'[i] = asks[i]
              /\ i = id /\ asks[i].got = "none" => asks'[i].got \in {"allow", "deny"}
    <3>1. PICK ids, may : ids = {id} /\ may = allowed
      OBVIOUS
    <3>2. called = Calls(ids, may)
      BY <2>3, <2>6, <3>1
    <3>3. called \in Seq(Requests) /\ Len(called) = Len(asks)
      BY <3>2, CallsTyped
    <3>4. ASSUME NEW i \in 1 .. Len(asks)
          PROVE  /\ called[i].askDoc = asks[i].askDoc
                 /\ i \notin ids => called[i] = asks[i]
                 /\ i \in ids /\ asks[i].got = "none" => called[i].got \in {"allow", "deny"}
      BY <3>2, CallsTyped
    <3> QED BY <2>6, <3>1, <3>3, <3>4
  <2>8. /\ \A k \in 1 .. Len(queue) :
             queue[k] \in 1 .. Len(asks) /\ asks[queue[k]].got = "none" /\ asks[queue[k]].askDoc = askDoc
        /\ \A k, l \in 1 .. Len(queue) : queue[k] = queue[l] => k = l
        /\ \A i \in 1 .. Len(asks) :
             asks[i].got # "twice" /\ (asks[i].got = "none" => \E k \in 1 .. Len(queue) : queue[k] = i)
    BY DEF AnswersHeld
  <2>9. ASSUME NEW k \in 1 .. Len(queue')
        PROVE  \E j \in 1 .. Len(queue) : queue'[k] = queue[j] /\ j # x /\ j = IF k < x THEN k ELSE k + 1
    <3>1. k \in 1 .. Len(queue) - 1 /\ queue'[k] = queue[IF k < x THEN k ELSE k + 1]
      BY <2>5
    <3>2. PICK j : j = IF k < x THEN k ELSE k + 1
      OBVIOUS
    <3>3. j \in 1 .. Len(queue) /\ j # x
      BY <2>1, <3>1, <3>2
    <3> QED BY <3>1, <3>2, <3>3
  <2>10. ASSUME NEW k \in 1 .. Len(queue')
         PROVE  queue'[k] \in 1 .. Len(asks') /\ asks'[queue'[k]].got = "none"
                /\ asks'[queue'[k]].askDoc = askDoc'
    <3>1. PICK j \in 1 .. Len(queue) : queue'[k] = queue[j] /\ j # x
      BY <2>9
    <3>2. queue[j] # id
      BY <2>2, <2>8, <3>1
    <3> QED BY <2>7, <2>8, <3>1, <3>2
  <2>11. ASSUME NEW k \in 1 .. Len(queue'), NEW l \in 1 .. Len(queue'), queue'[k] = queue'[l] PROVE k = l
    <3>1. PICK j \in 1 .. Len(queue) : queue'[k] = queue[j] /\ j = IF k < x THEN k ELSE k + 1
      BY <2>9
    <3>2. PICK h \in 1 .. Len(queue) : queue'[l] = queue[h] /\ h = IF l < x THEN l ELSE l + 1
      BY <2>9
    <3>3. j = h
      <4>1. queue[j] = queue[h]
        BY <2>11, <3>1, <3>2
      <4>2. \A c, e \in 1 .. Len(queue) : queue[c] = queue[e] => c = e
        BY <2>8
      <4> QED BY <4>1, <4>2
    <3>4. k \in Int /\ l \in Int /\ x \in Int
      BY <2>1, <2>5
    <3>5. (IF k < x THEN k ELSE k + 1) = (IF l < x THEN l ELSE l + 1)
      BY <3>1, <3>2, <3>3
    <3> QED BY <3>4, <3>5
  <2>12. ASSUME NEW i \in 1 .. Len(asks')
         PROVE  asks'[i].got # "twice" /\ (asks'[i].got = "none" => \E k \in 1 .. Len(queue') : queue'[k] = i)
    <3>1. CASE i = id
      <4>1. asks[i].got = "none"
        BY <2>2, <2>8, <3>1
      <4> QED BY <2>7, <3>1, <4>1
    <3>2. CASE i # id
      <4>1. asks'[i] = asks[i] /\ i \in 1 .. Len(asks)
        BY <2>7, <3>2
      <4>2. ASSUME asks[i].got = "none" PROVE \E k \in 1 .. Len(queue') : queue'[k] = i
        <5>1. PICK j \in 1 .. Len(queue) : queue[j] = i
          BY <2>8, <4>1, <4>2
        <5>2. j # x
          BY <2>2, <3>2, <5>1
        <5>3. CASE j < x
          <6>1. j \in 1 .. Len(queue) - 1 /\ j \in 1 .. Len(queue')
            BY <2>1, <2>5, <5>3
          <6>2. queue'[j] = queue[j]
            BY <2>5, <5>3, <6>1
          <6> QED BY <5>1, <6>1, <6>2
        <5>4. CASE j > x
          <6>1. j - 1 \in 1 .. Len(queue) - 1 /\ ~(j - 1 < x) /\ j - 1 + 1 = j
            BY <2>1, <5>4
          <6> QED BY <2>5, <5>1, <6>1
        <5> QED BY <5>2, <5>3, <5>4
      <4> QED BY <2>8, <4>1, <4>2
    <3> QED BY <3>1, <3>2
  <2>13. AnswersHeld'
    BY <2>10, <2>11, <2>12 DEF AnswersHeld
  <2>14. queue # <<>>
    BY <2>2
  <2> QED BY <2>4, <2>5, <2>7, <2>13, <2>14
<1> QED BY <1>1, <1>2

(* What is sent to the page goes to a frame that has registered. *)
LEMMA MessageSent ==
  ASSUME AskTypes, NEW m \in TopAsks, Sends(m)
  PROVE  /\ askReady => toTop' = Append(toTop, m)
         /\ ~askReady => toTop' = toTop
         /\ toTop' \in Seq(TopAsks)
BY DEF Sends, AskTypes

(* Another message to the page leaves what was on its way. *)
LEMMA TopGrows ==
  ASSUME AskTypes, NEW m \in TopAsks, toTop' = Append(toTop, m), m.kind # "prompt" => m.of # 0
  PROVE  /\ PanelsNamed => PanelsNamed'
         /\ \A kinds : /\ Comes(toTop, kinds) => Comes(toTop', kinds)
                       /\ m.kind \in kinds => Comes(toTop', kinds)
         /\ \A kind, n, d : /\ m.kind # kind /\ EndsUpAt(toTop, kind, n, d) => EndsUpAt(toTop', kind, n, d)
                            /\ m = Asking(kind, n) => EndsUpAt(toTop', kind, n, d)
<1>1. toTop \in Seq(TopAsks)
  BY DEF AskTypes
<1>2. PanelsNamed => PanelsNamed'
  <2> SUFFICES ASSUME PanelsNamed, NEW k \in 1 .. Len(toTop') PROVE toTop'[k].kind # "prompt" => toTop'[k].of # 0
    BY DEF PanelsNamed
  <2>1. /\ Len(toTop') = Len(toTop) + 1 /\ Len(toTop) \in Nat /\ toTop'[Len(toTop) + 1] = m
        /\ \A i \in 1 .. Len(toTop) : toTop'[i] = toTop[i]
    BY <1>1, AskAppended
  <2>2. CASE k = Len(toTop) + 1
    BY <2>1, <2>2
  <2>3. CASE k \in 1 .. Len(toTop)
    BY <2>1, <2>3 DEF PanelsNamed
  <2> QED BY <2>1, <2>2, <2>3
<1>3. \A kinds : /\ Comes(toTop, kinds) => Comes(toTop', kinds)
                 /\ m.kind \in kinds => Comes(toTop', kinds)
  BY <1>1, ComesNext
<1>4. \A kind, n, d : /\ m.kind # kind /\ EndsUpAt(toTop, kind, n, d) => EndsUpAt(toTop', kind, n, d)
                      /\ m = Asking(kind, n) => EndsUpAt(toTop', kind, n, d)
  BY <1>1, EndsAtNew
<1> QED BY <1>2, <1>3, <1>4

(* So does the page script's taking one. *)
LEMMA TopShrinks ==
  ASSUME AskTypes, toTop # <<>>, toTop' = Tail(toTop)
  PROVE  /\ PanelsNamed => PanelsNamed' /\ (Head(toTop).kind # "prompt" => Head(toTop).of # 0)
         /\ Head(toTop) \in TopAsks /\ toTop' \in Seq(TopAsks)
         /\ \A kinds : Comes(toTop, kinds) /\ Head(toTop).kind \notin kinds => Comes(toTop', kinds)
<1>1. toTop \in Seq(TopAsks)
  BY DEF AskTypes
<1>2. /\ Tail(toTop) \in Seq(TopAsks) /\ Len(Tail(toTop)) = Len(toTop) - 1 /\ Len(toTop) \in Nat \ {0}
      /\ Head(toTop) = toTop[1] /\ Head(toTop) \in TopAsks
      /\ \A i \in 1 .. Len(Tail(toTop)) : Tail(toTop)[i] = toTop[i + 1]
  BY <1>1, AskTaken
<1>3. ASSUME PanelsNamed PROVE PanelsNamed' /\ (Head(toTop).kind # "prompt" => Head(toTop).of # 0)
  <2>1. ASSUME NEW k \in 1 .. Len(toTop') PROVE toTop'[k].kind # "prompt" => toTop'[k].of # 0
    <3>1. k + 1 \in 1 .. Len(toTop) /\ toTop'[k] = toTop[k + 1]
      BY <1>2
    <3> QED BY <1>3, <3>1 DEF PanelsNamed
  <2>2. 1 \in 1 .. Len(toTop)
    BY <1>2
  <2> QED BY <1>2, <1>3, <2>1, <2>2 DEF PanelsNamed
<1>4. \A kinds : Comes(toTop, kinds) /\ Head(toTop).kind \notin kinds => Comes(toTop', kinds)
  BY <1>1, ComesLater
<1> QED BY <1>2, <1>3, <1>4

(* What leaves each part of the invariant alone. *)
LEMMA AnswersStay ==
  ASSUME AnswersHeld, UNCHANGED <<asks, queue, askDoc>>
  PROVE  AnswersHeld'
BY DEF AnswersHeld

(* The question drawn, *)
LEMMA BoxStays ==
  ASSUME BoxHeld, askReady, askReady', First' = First,
         EndsUpAt(toTop, "prompt", First, box) => EndsUpAt(toTop', "prompt", First', box')
  PROVE  BoxHeld'
BY DEF BoxHeld

(* a page that has none, *)
LEMMA BlankStays ==
  ASSUME BoxHeld, ~askReady, UNCHANGED <<askReady, toTop, box, queue, panel, menuShown>>
  PROVE  BoxHeld'
BY DEF BoxHeld, Blank

(* either of them; *)
LEMMA BoxKept ==
  ASSUME BoxHeld, UNCHANGED <<askReady, toTop, box, queue, panel, menuShown>>
  PROVE  BoxHeld'
BY DEF BoxHeld, Blank, First

(* a chooser; *)
LEMMA ChooserStays ==
  ASSUME ChooserHeld, UNCHANGED <<askDoc, askReady, choosers, pending, reads>>, PanelsNamed',
         ChooserComes => ChooserComes'
  PROVE  ChooserHeld'
BY DEF ChooserHeld

(* a menu. *)
LEMMA MenuStays ==
  ASSUME MenuHeld, UNCHANGED <<askDoc, askReady, menus, menuState>>, MenuComes => MenuComes'
  PROVE  MenuHeld'
BY DEF MenuHeld

(* A question about a permission that is sent to the page, as a permission *)
(* is asked for or answered. *)
LEMMA PromptIsSent ==
  ASSUME AsksInv, askReady, NEW n \in Nat, Sends(Asking("prompt", n)), First' = n,
         UNCHANGED <<askDoc, askReady, box, chooserVars, menuVars>>,
         \A kinds : Comes(toMain, kinds) /\ "permission-answer" \notin kinds => Comes(toMain', kinds)
  PROVE  toTop' \in Seq(TopAsks) /\ BoxHeld' /\ ChooserHeld' /\ MenuHeld'
<1> DEFINE m == Asking("prompt", n)
<1>1. AskTypes /\ m \in TopAsks /\ m.kind = "prompt"
  BY DEF AsksInv, Asking, TopAsks, TopKinds
<1>2. toTop' = Append(toTop, m) /\ toTop' \in Seq(TopAsks)
  BY <1>1, MessageSent
<1>3. EndsUpAt(toTop', "prompt", n, box')
  BY <1>1, <1>2, TopGrows
<1>4. BoxHeld'
  BY <1>3 DEF BoxHeld
<1>5. ChooserHeld'
  <2>1. PanelsNamed => PanelsNamed'
    BY <1>1, <1>2, TopGrows
  <2>2. Comes(toTop, {"file-chooser"}) => Comes(toTop', {"file-chooser"})
    BY <1>1, <1>2, TopGrows
  <2>3. Comes(toMain, {"file-chooser-resolve"}) => Comes(toMain', {"file-chooser-resolve"})
    OBVIOUS
  <2> QED BY <2>1, <2>2, <2>3, ChooserStays DEF AsksInv, ChooserHeld, ChooserComes, chooserVars
<1>6. MenuHeld'
  <2>1. EndsUpAt(toTop, "context-menu", menuState, menuShown)
          => EndsUpAt(toTop', "context-menu", menuState, menuShown)
    BY <1>1, <1>2, TopGrows
  <2>2. Comes(toMain, Dismissals) => Comes(toMain', Dismissals)
    BY DEF Dismissals
  <2> QED BY <2>1, <2>2, MenuStays DEF AsksInv, MenuComes, menuVars
<1> QED BY <1>2, <1>4, <1>5, <1>6

-----------------------------------------------------------------------------
(* A site asks: answered at once, or last in the queue. *)
LEMMA RequestStep ==
  ASSUME AsksInv, NEW s \in Sites, PermissionRequest(s)
  PROVE  AsksInv'
<1> DEFINE id == Len(asks) + 1
           held == remembered[s] = "none" /\ askReady
           got == IF held THEN "none" ELSE IF remembered[s] = "allow" THEN "allow" ELSE "deny"
           new == [askDoc |-> askDoc, site |-> s, got |-> got]
<1>1. /\ asks' = Append(asks, new) /\ queue' = IF held THEN Append(queue, id) ELSE queue
      /\ IF held /\ queue = <<>> THEN Sends(Asking("prompt", id)) ELSE toTop' = toTop
      /\ UNCHANGED <<front, askDoc, askReady, toMain, remembered, box, chooserVars, menuVars>>
  BY DEF PermissionRequest
<1>2. new \in Requests /\ asks \in Seq(Requests) /\ id \in Nat /\ queue \in Seq(Nat)
  BY DEF AsksInv, AskTypes, Requests
<1>3. /\ asks' \in Seq(Requests) /\ Len(asks') = id /\ Len(asks) \in Nat /\ asks'[id] = new
      /\ \A i \in 1 .. Len(asks) : asks'[i] = asks[i]
  BY <1>1, <1>2, AskAppended
<1>4. new.askDoc = askDoc /\ new.got = got /\ (held => got = "none") /\ (~held => got \in {"allow", "deny"})
  OBVIOUS
<1> HIDE DEF new, got
<1>5. /\ Append(queue, id) \in Seq(Nat) /\ Len(Append(queue, id)) = Len(queue) + 1 /\ Len(queue) \in Nat
      /\ \A k \in 1 .. Len(queue) : Append(queue, id)[k] = queue[k]
      /\ Append(queue, id)[Len(queue) + 1] = id
  <2> HIDE DEF id
  <2> QED BY <1>2, AskAppended
<1>6. \A k \in 1 .. Len(queue) :
        /\ queue[k] \in 1 .. Len(asks) /\ queue[k] # id
        /\ asks'[queue[k]].got = "none" /\ asks'[queue[k]].askDoc = askDoc'
  BY <1>1, <1>3 DEF AsksInv, AnswersHeld
<1>7. \A k, l \in 1 .. Len(queue) : queue[k] = queue[l] => k = l
  BY DEF AsksInv, AnswersHeld
<1>8. \A i \in 1 .. Len(asks) :
        asks'[i].got # "twice" /\ (asks'[i].got = "none" => \E k \in 1 .. Len(queue) : queue[k] = i)
  BY <1>3 DEF AsksInv, AnswersHeld
<1>9. CASE held
  <2> HIDE DEF id, held
  <2>1. queue' = Append(queue, id)
    BY <1>1, <1>9
  <2>2. ASSUME NEW k \in 1 .. Len(queue')
        PROVE  queue'[k] \in 1 .. Len(asks') /\ asks'[queue'[k]].got = "none" /\ asks'[queue'[k]].askDoc = askDoc'
    <3>1. CASE k = Len(queue) + 1
      BY <1>1, <1>2, <1>3, <1>4, <1>5, <1>9, <2>1, <3>1 DEF id
    <3>2. CASE k \in 1 .. Len(queue)
      BY <1>3, <1>5, <1>6, <2>1, <3>2 DEF id
    <3> QED BY <1>5, <2>1, <3>1, <3>2
  <2>3. ASSUME NEW k \in 1 .. Len(queue'), NEW l \in 1 .. Len(queue'), queue'[k] = queue'[l] PROVE k = l
    <3>1. k \in 1 .. Len(queue) \/ k = Len(queue) + 1
      BY <1>5, <2>1
    <3>2. l \in 1 .. Len(queue) \/ l = Len(queue) + 1
      BY <1>5, <2>1
    <3> QED BY <1>5, <1>6, <1>7, <2>1, <2>3, <3>1, <3>2
  <2>4. ASSUME NEW i \in 1 .. Len(asks')
        PROVE  asks'[i].got # "twice" /\ (asks'[i].got = "none" => \E k \in 1 .. Len(queue') : queue'[k] = i)
    <3>1. CASE i = id
      <4>1. Len(queue) + 1 \in 1 .. Len(queue')
        BY <1>5, <2>1
      <4> QED BY <1>3, <1>4, <1>5, <1>9, <2>1, <3>1, <4>1
    <3>2. CASE i \in 1 .. Len(asks)
      <4>1. ASSUME NEW k \in 1 .. Len(queue) PROVE k \in 1 .. Len(queue') /\ queue'[k] = queue[k]
        BY <1>5, <2>1
      <4> QED BY <1>8, <3>2, <4>1
    <3> QED BY <1>3, <3>1, <3>2 DEF id
  <2>5. AnswersHeld'
    BY <2>2, <2>3, <2>4 DEF AnswersHeld
  <2>6. CASE queue = <<>>
    <3>1. First' = id /\ askReady
      BY <1>5, <1>9, <2>1, <2>6 DEF First, held
    <3>2. Sends(Asking("prompt", id))
      BY <1>1, <1>9, <2>6
    <3>3. \A kinds : Comes(toMain, kinds) => Comes(toMain', kinds)
      BY <1>1
    <3>4. toTop' \in Seq(TopAsks) /\ BoxHeld' /\ ChooserHeld' /\ MenuHeld'
      BY <1>1, <1>2, <3>1, <3>2, <3>3, PromptIsSent
    <3> QED BY <1>1, <1>3, <1>5, <2>1, <2>5, <3>4 DEF AsksInv, AskTypes, chooserVars, menuVars
  <2>7. CASE queue # <<>>
    <3>1. toTop' = toTop /\ askReady
      BY <1>1, <1>9, <2>7 DEF held
    <3>2. First' = First
      BY <1>2, <1>5, <2>1, <2>7 DEF First
    <3>3. BoxHeld'
      BY <1>1, <3>1, <3>2 DEF AsksInv, BoxHeld
    <3>4. ChooserHeld' /\ MenuHeld'
      BY <1>1, <3>1 DEF AsksInv, ChooserHeld, MenuHeld, PanelsNamed, ChooserComes, MenuComes, chooserVars, menuVars
    <3> QED BY <1>1, <1>3, <1>5, <2>1, <2>5, <3>1, <3>3, <3>4 DEF AsksInv, AskTypes, chooserVars, menuVars
  <2> QED BY <2>6, <2>7
<1>10. CASE ~held
  <2> HIDE DEF id, held
  <2>1. queue' = queue /\ toTop' = toTop
    BY <1>1, <1>10
  <2>2. ASSUME NEW i \in 1 .. Len(asks')
        PROVE  asks'[i].got # "twice" /\ (asks'[i].got = "none" => \E k \in 1 .. Len(queue') : queue'[k] = i)
    <3>1. CASE i = id
      BY <1>3, <1>4, <1>10, <3>1
    <3>2. CASE i \in 1 .. Len(asks)
      BY <1>8, <2>1, <3>2
    <3> QED BY <1>3, <3>1, <3>2 DEF id
  <2>3. AnswersHeld'
    <3>1. \A k \in 1 .. Len(queue') :
            queue'[k] \in 1 .. Len(asks') /\ asks'[queue'[k]].got = "none" /\ asks'[queue'[k]].askDoc = askDoc'
      <4>1. \A i \in 1 .. Len(asks) : i \in 1 .. Len(asks')
        BY <1>3 DEF id
      <4> QED BY <1>6, <2>1, <4>1
    <3>2. \A k, l \in 1 .. Len(queue') : queue'[k] = queue'[l] => k = l
      BY <1>7, <2>1
    <3> QED BY <2>2, <3>1, <3>2 DEF AnswersHeld
  <2>4. BoxHeld' /\ ChooserHeld' /\ MenuHeld'
    BY <1>1, <2>1, BoxKept
       DEF AsksInv, ChooserHeld, MenuHeld, PanelsNamed, ChooserComes, MenuComes, chooserVars, menuVars
  <2> QED BY <1>1, <1>3, <2>1, <2>3, <2>4 DEF AsksInv, AskTypes, chooserVars, menuVars
<1> QED BY <1>9, <1>10

(* A request is answered, by a key or by a click that has arrived. *)
LEMMA AnswerStep ==
  ASSUME AsksInv, NEW id, NEW answer, AnswerPermissionPrompt(id, answer),
         UNCHANGED <<askDoc, askReady, box, chooserVars, menuVars>>, toMain' \in Seq(Sayings),
         \A kinds : Comes(toMain, kinds) /\ "permission-answer" \notin kinds => Comes(toMain', kinds)
  PROVE  AsksInv'
<1>1. /\ AnswersHeld' /\ asks' \in Seq(Requests) /\ queue' \in Seq(Nat)
      /\ UNCHANGED <<queue, toTop>> \/ (queue # <<>> /\ Sends(Asking("prompt", First')))
  BY PromptAnswered DEF AsksInv
<1>2. CASE UNCHANGED <<queue, toTop>>
  <2>1. BoxHeld'
    BY <1>2, BoxKept DEF AsksInv, chooserVars, menuVars
  <2>2. ChooserHeld'
    BY <1>2, ChooserStays DEF AsksInv, ChooserHeld, PanelsNamed, ChooserComes, chooserVars
  <2>3. MenuHeld'
    BY <1>2, MenuStays DEF AsksInv, MenuComes, Dismissals, menuVars
  <2> QED BY <1>1, <1>2, <2>1, <2>2, <2>3 DEF AsksInv, AskTypes, chooserVars, menuVars
<1>3. CASE queue # <<>> /\ Sends(Asking("prompt", First'))
  <2>1. askReady
    BY <1>3 DEF AsksInv, BoxHeld, Blank
  <2>2. PICK n : n = First'
    OBVIOUS
  <2>3. n \in Nat
    <3>1. CASE queue' = <<>>
      BY <2>2, <3>1 DEF First
    <3>2. CASE queue' # <<>>
      <4>1. Head(queue') \in Nat
        BY <1>1, <3>2
      <4> QED BY <2>2, <3>2, <4>1 DEF First
    <3> QED BY <3>1, <3>2
  <2>4. toTop' \in Seq(TopAsks) /\ BoxHeld' /\ ChooserHeld' /\ MenuHeld'
    BY <1>3, <2>1, <2>2, <2>3, PromptIsSent
  <2> QED BY <1>1, <2>4 DEF AsksInv, AskTypes, chooserVars, menuVars
<1> QED BY <1>1, <1>2, <1>3

-----------------------------------------------------------------------------
(* A chooser opens, is ready to be drawn, or is given up. *)
LEMMA OpenStep ==
  ASSUME AsksInv, OpenFileChooser
  PROVE  AsksInv'
<1> DEFINE new == [askDoc |-> askDoc, got |-> "none"]
<1>1. /\ choosers' = Append(choosers, new) /\ pending' = Len(choosers') /\ reads' = reads \union {pending'}
      /\ UNCHANGED <<front, askDoc, askReady, toTop, toMain, permissionVars, wired, panel, misgiven, menuVars>>
  BY DEF OpenFileChooser
<1>2. new \in Choosers /\ choosers \in Seq(Choosers) /\ new.askDoc = askDoc
  BY DEF AsksInv, AskTypes, Choosers
<1> HIDE DEF new
<1>3. /\ choosers' \in Seq(Choosers) /\ Len(choosers') = Len(choosers) + 1 /\ Len(choosers) \in Nat
      /\ \A i \in 1 .. Len(choosers) : choosers'[i] = choosers[i]
      /\ choosers'[Len(choosers) + 1] = new
  BY <1>1, <1>2, AskAppended
<1>4. AskTypes'
  <2>1. pending' \in 0 .. Len(choosers') /\ pending' \in 1 .. Len(choosers')
    BY <1>1, <1>3
  <2>2. reads \subseteq 1 .. Len(choosers) /\ 1 .. Len(choosers) \subseteq 1 .. Len(choosers')
    BY <1>3 DEF AsksInv, AskTypes
  <2>3. reads' \subseteq 1 .. Len(choosers')
    BY <1>1, <2>1, <2>2
  <2> QED BY <1>1, <1>3, <2>1, <2>3 DEF AsksInv, AskTypes, permissionVars, menuVars
<1>5. AnswersHeld' /\ BoxHeld' /\ MenuHeld'
  BY <1>1, AnswersStay, BoxKept, MenuStays DEF AsksInv, MenuComes, permissionVars, menuVars
<1>6. ChooserHeld'
  <2>1. ASSUME NEW i \in 1 .. Len(choosers') PROVE choosers'[i].askDoc <= askDoc'
    <3>1. CASE i = Len(choosers) + 1
      BY <1>1, <1>2, <1>3, <3>1 DEF AsksInv, AskTypes
    <3>2. CASE i \in 1 .. Len(choosers)
      BY <1>1, <1>3, <3>2 DEF AsksInv, ChooserHeld
    <3> QED BY <1>3, <3>1, <3>2
  <2>2. pending' \in reads'
    BY <1>1
  <2> QED BY <1>1, <2>1, <2>2 DEF AsksInv, ChooserHeld, PanelsNamed
<1> QED BY <1>4, <1>5, <1>6 DEF AsksInv

(* Its accept attribute was read: the panel is asked for, *)
LEMMA ReadStep ==
  ASSUME AsksInv, NEW id \in reads, AcceptRead(id)
  PROVE  AsksInv'
<1> DEFINE m == Asking("file-chooser", id)
<1>1. /\ choosers[id].askDoc = askDoc => askReady
      /\ reads' = reads \ {id} /\ Sends(m)
      /\ UNCHANGED <<front, askDoc, askReady, toMain, permissionVars, wired, choosers, pending, panel,
                     misgiven, menuVars>>
  BY DEF AcceptRead
<1>2. AskTypes /\ m \in TopAsks /\ m.kind = "file-chooser" /\ m.of # 0
  BY DEF AsksInv, AskTypes, Asking, TopAsks, TopKinds
<1> HIDE DEF m
<1>3. /\ askReady => toTop' = Append(toTop, m)
      /\ ~askReady => toTop' = toTop
      /\ toTop' \in Seq(TopAsks)
  BY <1>1, <1>2, MessageSent
<1>4. AskTypes'
  BY <1>1, <1>3 DEF AsksInv, AskTypes, permissionVars, menuVars
<1>5. AnswersHeld'
  BY <1>1, AnswersStay DEF AsksInv, permissionVars
<1>6. CASE askReady
  <2>1. toTop' = Append(toTop, m)
    BY <1>3, <1>6
  <2>2. PanelsNamed => PanelsNamed'
    BY <1>2, <2>1, TopGrows
  <2>3. Comes(toTop', {"file-chooser"})
    BY <1>2, <2>1, TopGrows
  <2>4. /\ EndsUpAt(toTop, "prompt", First, box) => EndsUpAt(toTop', "prompt", First, box)
        /\ EndsUpAt(toTop, "context-menu", menuState, menuShown)
             => EndsUpAt(toTop', "context-menu", menuState, menuShown)
    BY <1>2, <2>1, TopGrows
  <2>5. First' = First
    BY <1>1 DEF First, permissionVars
  <2>6. BoxHeld'
    BY <1>1, <1>6, <2>4, <2>5 DEF AsksInv, BoxHeld, permissionVars
  <2>7. ChooserHeld'
    BY <1>1, <1>6, <2>2, <2>3 DEF AsksInv, ChooserHeld, ChooserComes
  <2>8. MenuHeld'
    BY <1>1, <2>4, MenuStays DEF AsksInv, MenuComes, menuVars
  <2> QED BY <1>4, <1>5, <2>6, <2>7, <2>8 DEF AsksInv
<1>7. CASE ~askReady
  <2>1. toTop' = toTop
    BY <1>3, <1>7
  <2>2. BoxHeld'
    BY <1>1, <2>1, BoxKept DEF AsksInv, permissionVars, menuVars
  <2>3. ChooserHeld'
    BY <1>1, <1>7, <2>1 DEF AsksInv, ChooserHeld, PanelsNamed
  <2>4. MenuHeld'
    BY <1>1, <2>1, MenuStays DEF AsksInv, MenuComes, menuVars
  <2> QED BY <1>4, <1>5, <2>2, <2>3, <2>4 DEF AsksInv
<1> QED BY <1>6, <1>7

(* or the debugger is gone, and the chooser with it. *)
LEMMA DetachStep ==
  ASSUME AsksInv, DebuggerDetaches
  PROVE  AsksInv'
<1>1. /\ pending' = 0
      /\ UNCHANGED <<front, askDoc, askReady, toTop, toMain, permissionVars, choosers, reads, panel,
                     misgiven, menuVars>>
  BY DEF DebuggerDetaches
<1>2. AskTypes'
  BY <1>1 DEF AsksInv, AskTypes, permissionVars, menuVars
<1>3. AnswersHeld' /\ BoxHeld' /\ MenuHeld'
  BY <1>1, AnswersStay, BoxKept, MenuStays DEF AsksInv, MenuComes, permissionVars, menuVars
<1>4. ChooserHeld'
  BY <1>1 DEF AsksInv, ChooserHeld, PanelsNamed
<1> QED BY <1>2, <1>3, <1>4 DEF AsksInv

(* A menu opens, for the document or for none. *)
LEMMA OpensMenuStep ==
  ASSUME AsksInv, OpensMenu
  PROVE  AsksInv'
<1> DEFINE new == IF askReady THEN askDoc ELSE 0
           m == Asking("context-menu", menuState')
<1>1. /\ menus' = Append(menus, new) /\ menuState' = Len(menus') /\ Sends(m)
      /\ UNCHANGED <<front, askDoc, askReady, toMain, permissionVars, chooserVars, menuShown, misran>>
  BY DEF OpensMenu
<1>2. new \in Nat /\ menus \in Seq(Nat) /\ askDoc \in Nat \ {0}
  BY DEF AsksInv, AskTypes
<1>3. new <= askDoc /\ (~askReady => new # askDoc)
  BY <1>2
<1> HIDE DEF new
<1>4. /\ menus' \in Seq(Nat) /\ Len(menus') = Len(menus) + 1 /\ Len(menus) \in Nat
      /\ \A i \in 1 .. Len(menus) : menus'[i] = menus[i]
      /\ menus'[Len(menus) + 1] = new
  BY <1>1, <1>2, AskAppended
<1>5. PICK n : n = menuState'
  OBVIOUS
<1>6. n \in Nat \ {0} /\ m = Asking("context-menu", n)
  BY <1>1, <1>4, <1>5
<1>7. AskTypes /\ m \in TopAsks /\ m.kind = "context-menu" /\ m.of # 0
  BY <1>6 DEF AsksInv, Asking, TopAsks, TopKinds
<1> HIDE DEF m
<1>8. PICK msg : msg = m
  OBVIOUS
<1>9. /\ askReady => toTop' = Append(toTop, msg)
      /\ ~askReady => toTop' = toTop
      /\ toTop' \in Seq(TopAsks)
  BY <1>1, <1>7, <1>8, MessageSent
<1>10. AskTypes'
  BY <1>1, <1>4, <1>9 DEF AsksInv, AskTypes, permissionVars, chooserVars
<1>11. AnswersHeld'
  BY <1>1, AnswersStay DEF AsksInv, permissionVars
<1>12. ASSUME NEW i \in 1 .. Len(menus') PROVE menus'[i] <= askDoc'
  <2>1. CASE i = Len(menus) + 1
    BY <1>1, <1>3, <1>4, <2>1
  <2>2. CASE i \in 1 .. Len(menus)
    BY <1>1, <1>4, <2>2 DEF AsksInv, MenuHeld
  <2> QED BY <1>4, <2>1, <2>2
<1>13. CASE askReady
  <2>1. toTop' = Append(toTop, msg)
    BY <1>9, <1>13
  <2>2. PanelsNamed => PanelsNamed'
    BY <1>7, <1>8, <2>1, TopGrows
  <2>3. Comes(toTop, {"file-chooser"}) => Comes(toTop', {"file-chooser"})
    BY <1>7, <1>8, <2>1, TopGrows
  <2>4. EndsUpAt(toTop, "prompt", First, box) => EndsUpAt(toTop', "prompt", First, box)
    BY <1>7, <1>8, <2>1, TopGrows
  <2>5. EndsUpAt(toTop', "context-menu", n, menuShown)
    BY <1>6, <1>7, <1>8, <2>1, TopGrows
  <2>6. First' = First
    BY <1>1 DEF First, permissionVars
  <2>7. BoxHeld'
    BY <1>1, <1>13, <2>4, <2>6 DEF AsksInv, BoxHeld, permissionVars
  <2>8. ChooserHeld'
    BY <1>1, <2>2, <2>3, ChooserStays DEF AsksInv, ChooserHeld, ChooserComes, chooserVars
  <2>9. MenuHeld'
    BY <1>1, <1>5, <1>12, <1>13, <2>5 DEF MenuHeld, MenuComes
  <2> QED BY <1>10, <1>11, <2>7, <2>8, <2>9 DEF AsksInv
<1>14. CASE ~askReady
  <2>1. toTop' = toTop
    BY <1>9, <1>14
  <2>2. BoxHeld'
    BY <1>1, <2>1, BoxKept DEF AsksInv, permissionVars, chooserVars
  <2>3. ChooserHeld'
    BY <1>1, <2>1, ChooserStays DEF AsksInv, ChooserHeld, PanelsNamed, ChooserComes, chooserVars
  <2>4. menus'[menuState'] # askDoc'
    BY <1>1, <1>3, <1>4, <1>14
  <2>5. MenuHeld'
    BY <1>12, <2>4 DEF MenuHeld
  <2> QED BY <1>10, <1>11, <2>2, <2>3, <2>5 DEF AsksInv
<1> QED BY <1>13, <1>14

-----------------------------------------------------------------------------
(* The page script draws what it is told to, or gives up what is drawn. *)
LEMMA SaidTyped ==
  ASSUME AskTypes
  PROVE  /\ CancelsChooser \in Seq(Sayings) /\ DismissesMenu \in Seq(Sayings)
         /\ panel # 0 => Comes(CancelsChooser, {"file-chooser-resolve"})
         /\ menuShown # 0 => Comes(DismissesMenu, Dismissals)
<1>1. /\ Saying("file-chooser-resolve", "cancel", panel) \in Sayings
      /\ Saying("context-menu-dismiss", "", menuShown) \in Sayings
  BY DEF AskTypes, Saying, Sayings, SayKinds, Whats, Dismissals
<1>2. \A m : Len(<<m>>) = 1 /\ <<m>>[1] = m
  OBVIOUS
<1>3. \A m \in Sayings : <<m>> \in Seq(Sayings)
  OBVIOUS
<1>4. <<>> \in Seq(Sayings)
  OBVIOUS
<1>5. \A m, kinds : m.kind \in kinds => Comes(<<m>>, kinds)
  <2>1. 1 \in 1 .. 1
    OBVIOUS
  <2> QED BY <1>2, <2>1 DEF Comes
<1>6. /\ Saying("file-chooser-resolve", "cancel", panel).kind \in {"file-chooser-resolve"}
      /\ Saying("context-menu-dismiss", "", menuShown).kind \in Dismissals
  BY DEF Saying, Dismissals
<1> QED BY <1>1, <1>3, <1>4, <1>5, <1>6 DEF CancelsChooser, DismissesMenu

(* It draws a question, a panel or a menu; each of the last two gives up the other. *)
LEMMA TopStep ==
  ASSUME AsksInv, TopTakes
  PROVE  AsksInv'
<1> DEFINE ask == Head(toTop)
<1>1. /\ toTop # <<>> /\ toTop' = Tail(toTop)
      /\ UNCHANGED <<front, askDoc, askReady, asks, queue, remembered, wired, choosers, pending, reads,
                     misgiven, menuState, menus, misran, askBudget>>
  BY DEF TopTakes
<1>2. /\ PanelsNamed' /\ (ask.kind # "prompt" => ask.of # 0) /\ ask \in TopAsks /\ toTop' \in Seq(TopAsks)
  BY <1>1, TopShrinks DEF AsksInv, ChooserHeld
<1>3. \A kinds : Comes(toTop, kinds) /\ ask.kind \notin kinds => Comes(toTop', kinds)
  BY <1>1, TopShrinks DEF AsksInv
<1>4. \A kind, n, d : EndsUpAt(toTop, kind, n, d) =>
        /\ ask.kind = kind => EndsUpAt(toTop', kind, n, ask.of)
        /\ ask.kind # kind => EndsUpAt(toTop', kind, n, d)
        /\ ask.kind # kind /\ d # n => EndsUpAt(toTop', kind, n, 0)
  <2>1. toTop \in Seq(TopAsks)
    BY DEF AsksInv, AskTypes
  <2> QED BY <1>1, <2>1, EndsAtRest
<1>5. askReady /\ First' = First /\ toMain \in Seq(Sayings) /\ ask.of \in Nat
  BY <1>1, <1>2 DEF AsksInv, AskTypes, BoxHeld, Blank, First, TopAsks
<1>6. EndsUpAt(toTop, "prompt", First, box)
  BY <1>5 DEF AsksInv, BoxHeld
<1>7. AnswersHeld'
  BY <1>1, AnswersStay DEF AsksInv
<1> HIDE DEF ask
<1>8. CASE ask.kind = "prompt" /\ DrawsPrompt(ask.of)
  <2>1. box' = ask.of /\ UNCHANGED <<panel, menuShown, toMain>>
    BY <1>8 DEF DrawsPrompt
  <2>2. AskTypes'
    BY <1>1, <1>2, <1>5, <2>1 DEF AsksInv, AskTypes
  <2>3. BoxHeld'
    <3>1. EndsUpAt(toTop', "prompt", First, ask.of)
      BY <1>4, <1>6, <1>8
    <3> QED BY <1>1, <1>5, <2>1, <3>1 DEF BoxHeld
  <2>4. ChooserHeld'
    <3>1. Comes(toTop, {"file-chooser"}) => Comes(toTop', {"file-chooser"})
      BY <1>3, <1>8
    <3> QED BY <1>1, <1>2, <2>1, <3>1, ChooserStays DEF AsksInv, ChooserComes
  <2>5. MenuHeld'
    <3>1. EndsUpAt(toTop, "context-menu", menuState, menuShown)
            => EndsUpAt(toTop', "context-menu", menuState, menuShown)
      BY <1>4, <1>8
    <3> QED BY <1>1, <2>1, <3>1, MenuStays DEF AsksInv, MenuComes
  <2> QED BY <1>7, <2>2, <2>3, <2>4, <2>5 DEF AsksInv
<1>9. CASE ask.kind = "file-chooser" /\ ShowsPanel(ask.of)
  <2>1. panel' = ask.of /\ menuShown' = 0 /\ box' = box /\ toMain' = toMain \o DismissesMenu
    BY <1>9 DEF ShowsPanel
  <2>2. /\ DismissesMenu \in Seq(Sayings) /\ (menuShown # 0 => Comes(DismissesMenu, Dismissals))
    BY SaidTyped DEF AsksInv
  <2>3. toMain' \in Seq(Sayings)
    BY <1>5, <2>1, <2>2, ConcatProperties
  <2>4. AskTypes'
    BY <1>1, <1>2, <1>5, <2>1, <2>3 DEF AsksInv, AskTypes
  <2>5. BoxHeld'
    <3>1. EndsUpAt(toTop', "prompt", First, box)
      BY <1>4, <1>6, <1>9
    <3> QED BY <1>1, <1>5, <2>1, <3>1 DEF BoxHeld
  <2>6. ChooserHeld'
    BY <1>1, <1>2, <1>9, <2>1, ChooserStays DEF AsksInv, ChooserComes
  <2>7. MenuHeld'
    <3>1. Comes(toMain, Dismissals) \/ menuShown # 0 => Comes(toMain', Dismissals)
      BY <1>5, <2>1, <2>2, ComesStill
    <3>2. EndsUpAt(toTop, "context-menu", menuState, menuShown)
            => EndsUpAt(toTop', "context-menu", menuState, menuShown)
      BY <1>4, <1>9
    <3> QED BY <1>1, <2>1, <3>1, <3>2, MenuStays DEF AsksInv, MenuComes
  <2> QED BY <1>7, <2>4, <2>5, <2>6, <2>7 DEF AsksInv
<1>10. CASE ask.kind = "context-menu" /\ ShowsMenu(ask.of)
  <2>1. menuShown' = ask.of /\ panel' = 0 /\ box' = box /\ toMain' = toMain \o CancelsChooser
    BY <1>10 DEF ShowsMenu
  <2>2. /\ CancelsChooser \in Seq(Sayings) /\ (panel # 0 => Comes(CancelsChooser, {"file-chooser-resolve"}))
    BY SaidTyped DEF AsksInv
  <2>3. toMain' \in Seq(Sayings)
    BY <1>5, <2>1, <2>2, ConcatProperties
  <2>4. AskTypes'
    BY <1>1, <1>2, <1>5, <2>1, <2>3 DEF AsksInv, AskTypes
  <2>5. BoxHeld'
    <3>1. EndsUpAt(toTop', "prompt", First, box)
      BY <1>4, <1>6, <1>10
    <3> QED BY <1>1, <1>5, <2>1, <3>1 DEF BoxHeld
  <2>6. ChooserHeld'
    <3>1. /\ Comes(toMain, {"file-chooser-resolve"}) \/ panel # 0 => Comes(toMain', {"file-chooser-resolve"})
      BY <1>5, <2>1, <2>2, ComesStill
    <3>2. Comes(toTop, {"file-chooser"}) => Comes(toTop', {"file-chooser"})
      BY <1>3, <1>10
    <3> QED BY <1>1, <1>2, <3>1, <3>2, ChooserStays DEF AsksInv, ChooserComes
  <2>7. MenuHeld'
    <3>1. Comes(toMain, Dismissals) => Comes(toMain', Dismissals)
      BY <1>5, <2>1, <2>2, ComesStill
    <3>2. EndsUpAt(toTop, "context-menu", menuState, menuShown)
            => EndsUpAt(toTop', "context-menu", menuState, ask.of)
      BY <1>4, <1>10
    <3> QED BY <1>1, <2>1, <3>1, <3>2, MenuStays DEF AsksInv, MenuComes
  <2> QED BY <1>7, <2>4, <2>5, <2>6, <2>7 DEF AsksInv
<1> QED BY <1>8, <1>9, <1>10 DEF TopTakes, ask

(* Escape, or another overlay that opens: what is drawn is given up. *)
LEMMA CancelStep ==
  ASSUME AsksInv, CancelsAsks
  PROVE  AsksInv'
<1>1. /\ toMain' = toMain \o CancelledAsks /\ panel' = 0 /\ menuShown' = 0
      /\ UNCHANGED <<front, askDoc, askReady, toTop, permissionVars, wired, choosers, pending, reads, misgiven,
                     menuState, menus, misran, askBudget>>
  BY DEF CancelsAsks
<1>2. /\ CancelsChooser \in Seq(Sayings) /\ DismissesMenu \in Seq(Sayings) /\ toMain \in Seq(Sayings)
      /\ panel # 0 => Comes(CancelsChooser, {"file-chooser-resolve"})
      /\ menuShown # 0 => Comes(DismissesMenu, Dismissals)
  BY SaidTyped DEF AsksInv, AskTypes
<1>3. /\ CancelledAsks \in Seq(Sayings)
      /\ panel # 0 => Comes(CancelledAsks, {"file-chooser-resolve"})
      /\ menuShown # 0 => Comes(CancelledAsks, Dismissals)
  BY <1>2, ComesStill, ConcatProperties DEF CancelledAsks
<1>4. /\ toMain' \in Seq(Sayings)
      /\ panel # 0 \/ Comes(toMain, {"file-chooser-resolve"}) => Comes(toMain', {"file-chooser-resolve"})
      /\ menuShown # 0 \/ Comes(toMain, Dismissals) => Comes(toMain', Dismissals)
  BY <1>1, <1>2, <1>3, ComesStill, ConcatProperties
<1>5. AskTypes'
  BY <1>1, <1>4 DEF AsksInv, AskTypes, permissionVars
<1>6. AnswersHeld'
  BY <1>1, AnswersStay DEF AsksInv, permissionVars
<1>7. BoxHeld'
  BY <1>1 DEF AsksInv, BoxHeld, Blank, First, permissionVars
<1>8. ChooserHeld'
  BY <1>1, <1>4, ChooserStays DEF AsksInv, ChooserHeld, PanelsNamed, ChooserComes
<1>9. MenuHeld'
  BY <1>1, <1>4, MenuStays DEF AsksInv, MenuComes
<1> QED BY <1>5, <1>6, <1>7, <1>8, <1>9 DEF AsksInv

(* What the user does to the panel or to the menu. *)
LEMMA SubmitStep ==
  ASSUME AsksInv, NEW how \in {"files", "missing"}, SubmitFileChooser(how)
  PROVE  AsksInv'
<1> DEFINE m == Saying("file-chooser-resolve", how, panel)
<1>1. /\ panel' = 0 /\ toMain' = Append(toMain, m)
      /\ UNCHANGED <<front, askDoc, askReady, toTop, permissionVars, wired, choosers, pending, reads, misgiven,
                     menuState, menus, misran, askBudget, menuShown>>
  BY DEF SubmitFileChooser, AskSays
<1>2. m \in Sayings /\ m.kind = "file-chooser-resolve" /\ toMain \in Seq(Sayings)
  BY DEF AsksInv, AskTypes, Saying, Sayings, SayKinds, Whats
<1> HIDE DEF m
<1>3. /\ toMain' \in Seq(Sayings) /\ Comes(toMain', {"file-chooser-resolve"})
      /\ Comes(toMain, Dismissals) => Comes(toMain', Dismissals)
  BY <1>1, <1>2, AskAppended, ComesNext
<1>4. AskTypes'
  BY <1>1, <1>3 DEF AsksInv, AskTypes, permissionVars
<1>5. AnswersHeld'
  BY <1>1, AnswersStay DEF AsksInv, permissionVars
<1>6. BoxHeld'
  BY <1>1 DEF AsksInv, BoxHeld, Blank, First, permissionVars
<1>7. ChooserHeld'
  BY <1>1, <1>3, ChooserStays DEF AsksInv, ChooserHeld, PanelsNamed, ChooserComes
<1>8. MenuHeld'
  BY <1>1, <1>3, MenuStays DEF AsksInv, MenuComes
<1> QED BY <1>4, <1>5, <1>6, <1>7, <1>8 DEF AsksInv

(* A command of the menu, or a click beside it. *)
LEMMA ClosesStep ==
  ASSUME AsksInv, NEW what \in {"context-menu-command", "context-menu-dismiss"}, ClosesMenu(what)
  PROVE  AsksInv'
<1> DEFINE m == Saying(what, "", menuShown)
<1>1. /\ menuShown' = 0 /\ toMain' = Append(toMain, m)
      /\ UNCHANGED <<front, askDoc, askReady, toTop, permissionVars, wired, choosers, pending, reads, misgiven,
                     menuState, menus, misran, askBudget, panel>>
  BY DEF ClosesMenu, AskSays
<1>2. m \in Sayings /\ m.kind \in Dismissals /\ toMain \in Seq(Sayings)
  BY DEF AsksInv, AskTypes, Saying, Sayings, SayKinds, Whats, Dismissals
<1> HIDE DEF m
<1>3. /\ toMain' \in Seq(Sayings) /\ Comes(toMain', Dismissals)
      /\ Comes(toMain, {"file-chooser-resolve"}) => Comes(toMain', {"file-chooser-resolve"})
  BY <1>1, <1>2, AskAppended, ComesNext
<1>4. AskTypes'
  BY <1>1, <1>3 DEF AsksInv, AskTypes, permissionVars
<1>5. AnswersHeld'
  BY <1>1, AnswersStay DEF AsksInv, permissionVars
<1>6. BoxHeld'
  BY <1>1 DEF AsksInv, BoxHeld, Blank, First, permissionVars
<1>7. ChooserHeld'
  BY <1>1, <1>3, ChooserStays DEF AsksInv, ChooserHeld, PanelsNamed, ChooserComes
<1>8. MenuHeld'
  BY <1>1, <1>3, MenuStays DEF AsksInv, MenuComes
<1> QED BY <1>4, <1>5, <1>6, <1>7, <1>8 DEF AsksInv

(* A click on a button of the question. *)
LEMMA ClickStep ==
  ASSUME AsksInv, NEW answer \in Answers, ClicksAnswer(answer)
  PROVE  AsksInv'
<1> DEFINE m == Saying("permission-answer", answer, box)
<1>1. /\ toMain' = Append(toMain, m)
      /\ UNCHANGED <<front, askDoc, askReady, toTop, permissionVars, chooserVars, menuVars>>
  BY DEF ClicksAnswer
<1>2. m \in Sayings /\ toMain \in Seq(Sayings)
  BY DEF AsksInv, AskTypes, Saying, Sayings, SayKinds, Whats
<1> HIDE DEF m
<1>3. /\ toMain' \in Seq(Sayings)
      /\ Comes(toMain, Dismissals) => Comes(toMain', Dismissals)
      /\ Comes(toMain, {"file-chooser-resolve"}) => Comes(toMain', {"file-chooser-resolve"})
  BY <1>1, <1>2, AskAppended, ComesNext
<1>4. AskTypes'
  BY <1>1, <1>3 DEF AsksInv, AskTypes, permissionVars, chooserVars, menuVars
<1>5. AnswersHeld'
  BY <1>1, AnswersStay DEF AsksInv, permissionVars
<1>6. BoxHeld'
  BY <1>1, BoxKept DEF AsksInv, permissionVars, chooserVars, menuVars
<1>7. ChooserHeld'
  BY <1>1, <1>3, ChooserStays DEF AsksInv, ChooserHeld, PanelsNamed, ChooserComes, chooserVars
<1>8. MenuHeld'
  BY <1>1, <1>3, MenuStays DEF AsksInv, MenuComes, menuVars
<1> QED BY <1>4, <1>5, <1>6, <1>7, <1>8 DEF AsksInv

-----------------------------------------------------------------------------
(* main.cjs is told. *)
LEMMA ResolvesStep ==
  ASSUME AsksInv, NEW how \in Whats, NEW of, ResolveFileChooser(how, of),
         UNCHANGED <<askDoc, askReady, asks, queue, box, reads, panel, menuState, menuShown, menus>>,
         toMain' \in Seq(Sayings), Comes(toMain, Dismissals) => Comes(toMain', Dismissals)
  PROVE  AsksInv'
<1>1. AnswersHeld' /\ pending \in 0 .. Len(choosers) /\ Len(choosers) \in Nat
  BY AnswersStay DEF AsksInv, AskTypes
<1>2. CASE pending = 0
  <2>1. UNCHANGED <<choosers, pending, toTop>>
    BY <1>2 DEF ResolveFileChooser
  <2>2. AskTypes'
    BY <2>1 DEF AsksInv, AskTypes
  <2>3. BoxHeld'
    BY <2>1, BoxKept DEF AsksInv
  <2>4. ChooserHeld'
    BY <1>2, <2>1 DEF AsksInv, ChooserHeld, PanelsNamed
  <2>5. MenuHeld'
    BY <2>1, MenuStays DEF AsksInv, MenuComes
  <2> QED BY <1>1, <2>2, <2>3, <2>4, <2>5 DEF AsksInv
<1>3. CASE pending # 0 /\ how = "missing"
  <2> DEFINE m == Asking("file-chooser", pending)
  <2>1. Sends(m) /\ UNCHANGED <<choosers, pending>>
    BY <1>3 DEF ResolveFileChooser
  <2>2. AskTypes /\ m \in TopAsks /\ m.kind = "file-chooser" /\ m.of # 0
    BY <1>1, <1>3 DEF AsksInv, Asking, TopAsks, TopKinds
  <2> HIDE DEF m
  <2>3. /\ askReady => toTop' = Append(toTop, m)
        /\ ~askReady => toTop' = toTop
        /\ toTop' \in Seq(TopAsks)
    BY <2>1, <2>2, MessageSent
  <2>4. AskTypes'
    BY <2>1, <2>3 DEF AsksInv, AskTypes
  <2>5. CASE askReady
    <3>1. toTop' = Append(toTop, m)
      BY <2>3, <2>5
    <3>2. PanelsNamed => PanelsNamed'
      BY <2>2, <3>1, TopGrows
    <3>3. Comes(toTop', {"file-chooser"})
      BY <2>2, <3>1, TopGrows
    <3>4. /\ EndsUpAt(toTop, "prompt", First, box) => EndsUpAt(toTop', "prompt", First, box)
          /\ EndsUpAt(toTop, "context-menu", menuState, menuShown)
               => EndsUpAt(toTop', "context-menu", menuState, menuShown)
      BY <2>2, <3>1, TopGrows
    <3>5. BoxHeld'
      BY <2>5, <3>4 DEF AsksInv, BoxHeld, First
    <3>6. ChooserHeld'
      BY <2>1, <2>5, <3>2, <3>3 DEF AsksInv, ChooserHeld, ChooserComes
    <3>7. MenuHeld'
      BY <3>4, MenuStays DEF AsksInv, MenuComes
    <3> QED BY <1>1, <2>4, <3>5, <3>6, <3>7 DEF AsksInv
  <2>6. CASE ~askReady
    <3>1. toTop' = toTop
      BY <2>3, <2>6
    <3>2. BoxHeld'
      BY <3>1, BoxKept DEF AsksInv
    <3>3. ChooserHeld'
      BY <2>1, <2>6, <3>1 DEF AsksInv, ChooserHeld, PanelsNamed
    <3>4. MenuHeld'
      BY <3>1, MenuStays DEF AsksInv, MenuComes
    <3> QED BY <1>1, <2>4, <3>2, <3>3, <3>4 DEF AsksInv
  <2> QED BY <2>5, <2>6
<1>4. CASE pending # 0 /\ how # "missing"
  <2>1. pending' = 0 /\ choosers' = [choosers EXCEPT ![pending].got = how] /\ toTop' = toTop
    BY <1>4 DEF ResolveFileChooser
  <2>2. pending \in 1 .. Len(choosers) /\ choosers \in Seq(Choosers)
    BY <1>1, <1>4 DEF AsksInv, AskTypes
  <2>3. /\ choosers' \in Seq(Choosers) /\ Len(choosers') = Len(choosers)
        /\ \A i \in 1 .. Len(choosers) : choosers'[i].askDoc = choosers[i].askDoc
    <3>1. PICK r : r = [choosers[pending] EXCEPT !.got = how]
      OBVIOUS
    <3>2. choosers[pending] \in Choosers
      BY <2>2
    <3>3. r \in Choosers /\ r.askDoc = choosers[pending].askDoc
      BY <3>1, <3>2 DEF Choosers
    <3>4. choosers' = [choosers EXCEPT ![pending] = r]
      BY <2>1, <3>1
    <3> QED BY <2>2, <3>3, <3>4
  <2>4. AskTypes'
    BY <1>1, <2>1, <2>3 DEF AsksInv, AskTypes
  <2>5. BoxHeld'
    BY <2>1, BoxKept DEF AsksInv
  <2>6. ChooserHeld'
    BY <2>1, <2>3 DEF AsksInv, ChooserHeld, PanelsNamed
  <2>7. MenuHeld'
    BY <2>1, MenuStays DEF AsksInv, MenuComes
  <2> QED BY <1>1, <2>4, <2>5, <2>6, <2>7 DEF AsksInv
<1> QED BY <1>2, <1>3, <1>4

(* Each message of the page script. *)
LEMMA MainStep ==
  ASSUME AsksInv, MainTakes
  PROVE  AsksInv'
<1> DEFINE said == Head(toMain)
<1>1. /\ toMain # <<>> /\ toMain' = Tail(toMain)
      /\ UNCHANGED <<front, askDoc, askReady, box, wired, reads, panel, menuShown, menus, askBudget>>
  BY DEF MainTakes
<1>2. toMain \in Seq(Sayings)
  BY DEF AsksInv, AskTypes
<1>3. said \in Sayings /\ toMain' \in Seq(Sayings)
  BY <1>1, <1>2, AskTaken
<1>4. \A kinds : Comes(toMain, kinds) /\ said.kind \notin kinds => Comes(toMain', kinds)
  BY <1>1, <1>2, ComesLater
<1> HIDE DEF said
<1>5. CASE /\ said.kind = "permission-answer" /\ AnswerPermissionPrompt(said.of, said.what)
           /\ UNCHANGED <<choosers, pending, misgiven, menuState, misran>>
  <2>1. PICK id, answer : id = said.of /\ answer = said.what
    OBVIOUS
  <2>2. AnswerPermissionPrompt(id, answer)
    BY <1>5, <2>1
  <2>3. UNCHANGED <<askDoc, askReady, box, chooserVars, menuVars>>
    BY <1>1, <1>5 DEF chooserVars, menuVars
  <2>4. \A kinds : Comes(toMain, kinds) /\ "permission-answer" \notin kinds => Comes(toMain', kinds)
    BY <1>4, <1>5
  <2> QED BY <1>3, <2>2, <2>3, <2>4, AnswerStep
<1>6. CASE /\ said.kind = "file-chooser-resolve" /\ ResolveFileChooser(said.what, said.of)
           /\ UNCHANGED <<asks, queue, remembered, menuState, misran>>
  <2>1. PICK how, of : how = said.what /\ of = said.of
    OBVIOUS
  <2>2. how \in Whats /\ ResolveFileChooser(how, of)
    BY <1>3, <1>6, <2>1 DEF Sayings
  <2>3. Comes(toMain, Dismissals) => Comes(toMain', Dismissals)
    BY <1>4, <1>6 DEF Dismissals
  <2> QED BY <1>1, <1>3, <1>6, <2>2, <2>3, ResolvesStep
<1>7. CASE /\ said.kind \in Dismissals /\ menuState' = 0
           /\ UNCHANGED <<asks, queue, remembered, choosers, pending, misgiven, toTop>>
  <2>1. AskTypes'
    BY <1>1, <1>3, <1>7 DEF AsksInv, AskTypes
  <2>2. AnswersHeld' /\ BoxHeld'
    BY <1>1, <1>7, AnswersStay, BoxKept DEF AsksInv
  <2>3. ChooserHeld'
    <3>1. Comes(toMain, {"file-chooser-resolve"}) => Comes(toMain', {"file-chooser-resolve"})
      BY <1>4, <1>7 DEF Dismissals
    <3> QED BY <1>1, <1>7, <3>1, ChooserStays DEF AsksInv, ChooserHeld, PanelsNamed, ChooserComes
  <2>4. MenuHeld'
    BY <1>1, <1>7 DEF AsksInv, MenuHeld
  <2> QED BY <2>1, <2>2, <2>3, <2>4 DEF AsksInv
<1>8. \/ /\ said.kind = "permission-answer" /\ AnswerPermissionPrompt(said.of, said.what)
         /\ UNCHANGED <<choosers, pending, misgiven, menuState, misran>>
      \/ /\ said.kind = "file-chooser-resolve" /\ ResolveFileChooser(said.what, said.of)
         /\ UNCHANGED <<asks, queue, remembered, menuState, misran>>
      \/ /\ said.kind \in Dismissals /\ menuState' = 0
         /\ UNCHANGED <<asks, queue, remembered, choosers, pending, misgiven, toTop>>
  BY DEF MainTakes, RunsMenuCommand, Dismissals, said
<1> QED BY <1>5, <1>6, <1>7, <1>8

-----------------------------------------------------------------------------
(* The frame registers; another document comes, which answers nothing. *)
LEMMA ReadyStep ==
  ASSUME AsksInv, AskPreloadReady
  PROVE  AsksInv'
<1>1. /\ ~askReady /\ askReady' = TRUE
      /\ UNCHANGED <<front, askDoc, toTop, toMain, permissionVars, chooserVars, menuVars, askBudget>>
  BY DEF AskPreloadReady
<1>2. queue = <<>> /\ toTop = <<>> /\ box = 0
  BY <1>1 DEF AsksInv, BoxHeld, Blank
<1>3. AskTypes'
  BY <1>1 DEF AsksInv, AskTypes, permissionVars, chooserVars, menuVars
<1>4. AnswersHeld'
  BY <1>1, AnswersStay DEF AsksInv, permissionVars
<1>5. BoxHeld'
  <2>1. EndsUpAt(<<>>, "prompt", 0, 0)
    BY NoneComes
  <2>2. First' = 0 /\ box' = 0 /\ toTop' = <<>>
    BY <1>1, <1>2 DEF First, permissionVars
  <2> QED BY <1>1, <2>1, <2>2 DEF BoxHeld
<1>6. ChooserHeld'
  BY <1>1 DEF AsksInv, ChooserHeld, PanelsNamed, chooserVars
<1>7. MenuHeld'
  BY <1>1 DEF AsksInv, MenuHeld, menuVars
<1> QED BY <1>3, <1>4, <1>5, <1>6, <1>7 DEF AsksInv

(* Another document: what it did not ask has no answer to wait for. *)
LEMMA NavigateStep ==
  ASSUME AsksInv, DidNavigate
  PROVE  AsksInv'
<1>1. /\ toTop' = <<>> /\ askReady' = FALSE /\ box' = 0 /\ panel' = 0 /\ menuShown' = 0
      /\ askDoc' = askDoc + 1 /\ queue' = <<>> /\ asks' = Calls({queue[i] : i \in DOMAIN queue}, FALSE)
      /\ UNCHANGED <<front, toMain, wired, choosers, pending, reads, misgiven, menuState, menus, misran>>
  BY DEF DidNavigate, PageGoes, RefusePermissionPrompts
<1>2. AskTypes /\ askDoc \in Nat \ {0}
  BY DEF AsksInv, AskTypes
<1>3. PICK called, ids : called = asks' /\ ids = {queue[i] : i \in DOMAIN queue}
  OBVIOUS
<1>4. PICK may : may = FALSE
  OBVIOUS
<1>5. called = Calls(ids, may)
  BY <1>1, <1>3, <1>4
<1>6. called \in Seq(Requests) /\ Len(called) = Len(asks)
  BY <1>2, <1>5, CallsTyped
<1>7. ASSUME NEW i \in 1 .. Len(asks)
      PROVE  /\ i \notin ids => called[i] = asks[i]
             /\ i \in ids /\ asks[i].got = "none" => called[i].got \in {"allow", "deny"}
  BY <1>2, <1>5, CallsTyped
<1>8. \A k \in 1 .. Len(queue) : queue[k] \in ids /\ asks[queue[k]].got = "none"
  <2>1. DOMAIN queue = 1 .. Len(queue)
    BY <1>2 DEF AskTypes
  <2> QED BY <1>3, <2>1 DEF AsksInv, AnswersHeld
<1>9. ASSUME NEW i \in 1 .. Len(asks) PROVE called[i].got \notin {"twice", "none"}
  <2>1. asks[i].got # "twice" /\ (asks[i].got = "none" => \E k \in 1 .. Len(queue) : queue[k] = i)
    BY DEF AsksInv, AnswersHeld
  <2>2. CASE i \in ids
    <3>1. asks[i].got = "none"
      <4>1. PICK k \in DOMAIN queue : i = queue[k]
        BY <1>3, <2>2
      <4>2. k \in 1 .. Len(queue)
        BY <1>2, <4>1 DEF AskTypes
      <4> QED BY <1>8, <4>1, <4>2
    <3> QED BY <1>7, <2>2, <3>1
  <2>3. CASE i \notin ids
    BY <1>7, <1>8, <2>1, <2>3
  <2> QED BY <2>2, <2>3
<1>10. AnswersHeld'
  <2>1. queue' = <<>> /\ Len(asks') = Len(asks) /\ asks' = called
    BY <1>1, <1>3, <1>6
  <2>2. \A i \in 1 .. Len(asks') : asks'[i].got # "twice" /\ asks'[i].got # "none"
    BY <1>9, <2>1
  <2> QED BY <2>1, <2>2 DEF AnswersHeld
<1>11. AskTypes'
  <2>1. toTop' \in Seq(TopAsks) /\ queue' \in Seq(Nat) /\ askDoc' \in Nat \ {0} /\ asks' \in Seq(Requests)
    <3>1. <<>> \in Seq(TopAsks) /\ <<>> \in Seq(Nat)
      OBVIOUS
    <3>2. toTop' = <<>> /\ queue' = <<>> /\ asks' = called /\ askDoc' = askDoc + 1
      BY <1>1, <1>3
    <3>3. askDoc + 1 \in Nat \ {0}
      BY <1>2
    <3> QED BY <1>6, <3>1, <3>2, <3>3
  <2>2. UNCHANGED <<toMain, choosers, pending, reads, menuState, menus>>
    BY <1>1
  <2>3. askReady' \in BOOLEAN /\ box' \in Nat /\ panel' \in Nat /\ menuShown' \in Nat
    BY <1>1
  <2> QED BY <1>2, <2>1, <2>2, <2>3 DEF AskTypes
<1>12. BoxHeld'
  BY <1>1 DEF BoxHeld, Blank
<1>13. ChooserHeld'
  <2>1. \A i \in 1 .. Len(choosers) : choosers[i].askDoc \in Nat /\ choosers[i].askDoc <= askDoc
    <3>1. \A i \in 1 .. Len(choosers) : choosers[i] \in Choosers
      BY <1>2 DEF AskTypes
    <3> QED BY <3>1 DEF AsksInv, ChooserHeld, Choosers
  <2>2. \A i \in 1 .. Len(choosers) : choosers[i].askDoc < askDoc'
    BY <1>1, <1>2, <2>1
  <2>3. pending' # 0 => choosers'[pending'].askDoc # askDoc'
    <3>1. pending # 0 => pending \in 1 .. Len(choosers)
      BY <1>2 DEF AskTypes
    <3> QED BY <1>1, <1>2, <2>1, <3>1
  <2>4. \A i \in 1 .. Len(choosers) : choosers[i].askDoc <= askDoc'
    BY <1>1, <1>2, <2>1
  <2> QED BY <1>1, <2>3, <2>4 DEF ChooserHeld, PanelsNamed
<1>14. MenuHeld'
  <2>1. \A i \in 1 .. Len(menus) : menus[i] \in Nat /\ menus[i] <= askDoc
    BY <1>2 DEF AsksInv, AskTypes, MenuHeld
  <2>2. menuState' # 0 => menus'[menuState'] # askDoc'
    <3>1. menuState # 0 => menuState \in 1 .. Len(menus)
      BY <1>2 DEF AskTypes
    <3> QED BY <1>1, <1>2, <2>1, <3>1
  <2>3. \A i \in 1 .. Len(menus) : menus[i] <= askDoc'
    BY <1>1, <1>2, <2>1
  <2> QED BY <1>1, <2>2, <2>3 DEF MenuHeld
<1> QED BY <1>10, <1>11, <1>12, <1>13, <1>14 DEF AsksInv

-----------------------------------------------------------------------------
(* What does not touch the questions keeps them. *)
LEMMA AskSitsStill ==
  ASSUME AsksInv, UNCHANGED <<askDoc, askReady, toTop, toMain, asks, queue, box, choosers, pending, reads,
                             panel, menuState, menuShown, menus>>
  PROVE  AsksInv'
<1>1. AskTypes'
  BY DEF AsksInv, AskTypes
<1>2. AnswersHeld' /\ BoxHeld'
  BY AnswersStay, BoxKept DEF AsksInv
<1>3. ChooserHeld'
  BY ChooserStays DEF AsksInv, ChooserHeld, PanelsNamed, ChooserComes
<1>4. MenuHeld'
  BY MenuStays DEF AsksInv, MenuComes
<1> QED BY <1>1, <1>2, <1>3, <1>4 DEF AsksInv

(* Each step keeps the invariant, *)
LEMMA AskingStep ==
  ASSUME AsksInv, AsksNext
  PROVE  AsksInv'
<1>1. ASSUME NEW s \in Sites, PermissionRequest(s) PROVE AsksInv'
  BY <1>1, RequestStep
<1>2. ASSUME NEW s \in Sites, NEW v, SitePermissionCommand(s, v) PROVE AsksInv'
  BY <1>2, AskSitsStill DEF SitePermissionCommand, chooserVars, menuVars
<1>3. ASSUME NEW answer \in Answers, RoutePermissionKey(answer) PROVE AsksInv'
  <2>1. PICK id : id = Head(queue)
    OBVIOUS
  <2>2. AnswerPermissionPrompt(id, answer)
    BY <1>3, <2>1 DEF RoutePermissionKey
  <2>3. UNCHANGED <<askDoc, askReady, toMain, box, chooserVars, menuVars>> /\ toMain \in Seq(Sayings)
    BY <1>3 DEF RoutePermissionKey, AsksInv, AskTypes
  <2> QED BY <2>2, <2>3, AnswerStep
<1>4. ASSUME SwitchTab PROVE AsksInv'
  BY <1>4, AskSitsStill DEF SwitchTab, permissionVars, chooserVars, menuVars
<1> QED BY <1>1, <1>2, <1>3, <1>4, ClickStep, OpenStep, DetachStep, OpensMenuStep, ReadStep, TopStep, MainStep,
           CancelStep, SubmitStep, ClosesStep, ReadyStep, NavigateStep DEF AsksNext

(* which holds when nothing was asked, *)
LEMMA AsksStart ==
  ASSUME AsksInit
  PROVE  AsksInv
<1>1. /\ askDoc = 1 /\ askReady = FALSE /\ toTop = <<>> /\ toMain = <<>> /\ asks = <<>> /\ queue = <<>>
      /\ box = 0 /\ choosers = <<>> /\ pending = 0 /\ reads = {} /\ panel = 0
      /\ menuState = 0 /\ menuShown = 0 /\ menus = <<>>
  BY DEF AsksInit
<1>2. /\ toTop \in Seq(TopAsks) /\ toMain \in Seq(Sayings) /\ asks \in Seq(Requests)
      /\ queue \in Seq(Nat) /\ choosers \in Seq(Choosers) /\ menus \in Seq(Nat)
  <2>1. ASSUME NEW S PROVE <<>> \in Seq(S)
    OBVIOUS
  <2> QED BY <1>1, <2>1
<1>3. AskTypes
  <2>1. /\ pending \in 0 .. Len(choosers) /\ menuState \in 0 .. Len(menus) /\ reads \subseteq 1 .. Len(choosers)
    BY <1>1
  <2>2. askDoc \in Nat \ {0} /\ box \in Nat /\ panel \in Nat /\ menuShown \in Nat
    BY <1>1
  <2>3. askReady \in BOOLEAN
    BY <1>1, Zenon
  <2> QED BY <1>2, <2>1, <2>2, <2>3 DEF AskTypes
<1>4. AnswersHeld /\ BoxHeld /\ ChooserHeld /\ MenuHeld
  BY <1>1 DEF AnswersHeld, BoxHeld, Blank, ChooserHeld, PanelsNamed, MenuHeld
<1> QED BY <1>3, <1>4 DEF AsksInv

(* and says what the runs check. *)
LEMMA AsksSay ==
  ASSUME AsksInv
  PROVE  AnsweredOnce /\ NewDocumentNeverAnswers /\ BoxIsHead /\ NothingIsForgotten
<1>1. /\ DOMAIN queue = 1 .. Len(queue) /\ DOMAIN asks = 1 .. Len(asks)
  BY DEF AsksInv, AskTypes
<1>2. AnsweredOnce /\ NewDocumentNeverAnswers
  BY <1>1 DEF AsksInv, AnswersHeld, AnsweredOnce, NewDocumentNeverAnswers
<1>3. ASSUME toTop = <<>>, NEW kind, NEW n, NEW d, EndsUpAt(toTop, kind, n, d) PROVE d = n
  BY <1>3 DEF EndsUpAt
<1>4. BoxIsHead
  BY <1>3 DEF AsksInv, BoxHeld, BoxIsHead, First
<1>5. NothingIsForgotten
  <2>1. ASSUME toTop = <<>>, NEW kinds PROVE ~Comes(toTop, kinds)
    BY <2>1 DEF Comes
  <2>2. ASSUME toMain = <<>>, NEW kinds PROVE ~Comes(toMain, kinds)
    BY <2>2 DEF Comes
  <2> QED BY <1>3, <2>1, <2>2
          DEF AsksInv, ChooserHeld, ChooserComes, MenuHeld, MenuComes, NothingIsForgotten
<1> QED BY <1>2, <1>4, <1>5

(* A step of the engine is a step of the questions, or leaves them alone. *)
LEMMA AsksInEngine ==
  ASSUME [MCEngineNext]_<<pagesVars, inputVars, outputVars, part>>
  PROVE  [AsksNext]_asksVars
BY DEF MCEngineNext, pagesVars


(* However the messages and the answers cross, and whatever document comes: a permission is answered once
   or waits in the queue, of the document that is there; once the messages have arrived the question
   drawn is the one a key answers, and a chooser or a menu of this document that main.cjs keeps is on
   the page (permissionPrompts, fileChooserByTab and contextMenuStateByTab). *)
THEOREM QuestionsAreAnswered ==
  /\ AsksSpec => [](AnsweredOnce /\ NewDocumentNeverAnswers /\ BoxIsHead /\ NothingIsForgotten)
  /\ MCEngineSpec => []AsksAreAnswered
<1>1. AsksInv /\ UNCHANGED asksVars => AsksInv'
  BY AskSitsStill DEF asksVars, permissionVars, chooserVars, menuVars
<1>2. AsksSpec => [](AnsweredOnce /\ NewDocumentNeverAnswers /\ BoxIsHead /\ NothingIsForgotten)
  BY <1>1, AsksStart, AskingStep, AsksSay, PTL DEF AsksSpec
<1>3. MCEngineSpec => []AsksAreAnswered
  <2>1. MCEngineInit => AsksInv
    BY AsksStart DEF MCEngineInit, AsksBegin
  <2>2. AsksInv /\ [MCEngineNext]_<<pagesVars, inputVars, outputVars, part>> => AsksInv'
    BY <1>1, AsksInEngine, AskingStep
  <2>3. AsksInv => AsksAreAnswered
    BY AsksSay DEF AsksAreAnswered
  <2> QED BY <2>1, <2>2, <2>3, PTL DEF MCEngineSpec
<1> QED BY <1>2, <1>3

-----------------------------------------------------------------------------
(* Besides the tab list, at most one overlay. *)
OneIsUp == \A a, b \in opened \ {"tabs"} : a = b

(* A line that is open and can be typed into has not been called normal. *)
LineIsText ==
  ~unsaid /\ timers = 0 /\ (opened = {"omnibox"} \/ (opened = {"command-line"} /\ caret # "none"))
    => indicator # "normal"

(* Both lines are opened by commands, and close when commands are switched off. *)
LineNeedsVim == "omnibox" \in opened \/ "command-line" \in opened => vim

(* What every step of the overlays keeps.                                                              *)
OverInv == timers \in Nat /\ lists \in Nat /\ OneIsUp /\ IndicatorIsTrue /\ LineIsText /\ LineNeedsVim

(* Says nothing of the mode: it waits for a message or for the next setMode. *)
LEMMA OverQuiet ==
  ASSUME OverInv, timers' \in Nat, lists' \in Nat, opened' \subseteq opened, vim' = vim \/ opened' = {},
         unsaid' = TRUE \/ timers' # 0
  PROVE  OverInv'
<1>1. OneIsUp' /\ LineNeedsVim'
  BY DEF OverInv, OneIsUp, LineNeedsVim
<1>2. IndicatorIsTrue' /\ LineIsText'
  BY DEF IndicatorIsTrue, LineIsText
<1> QED BY <1>1, <1>2 DEF OverInv

(* One overlay is drawn in the place of whatever was. *)
LEMMA OverOpened ==
  ASSUME NEW o, NEW m, m \in ModesOf(o), opened' = {o}, indicator' = m, timers' \in Nat, lists' \in Nat,
         o \in {"omnibox", "command-line"} => vim' /\ m # "normal"
  PROVE  OverInv'
<1>1. OneIsUp'
  BY DEF OneIsUp
<1>2. LineNeedsVim' /\ LineIsText'
  BY DEF LineNeedsVim, LineIsText
<1>3. IndicatorIsTrue'
  <2>1. o \in opened' /\ opened' # {}
    OBVIOUS
  <2> QED BY <2>1 DEF IndicatorIsTrue
<1> QED BY <1>1, <1>2, <1>3 DEF OverInv

(* One is drawn that leaves the mode. *)
LEMMA OverOpenedQuietly ==
  ASSUME NEW o, o \notin {"omnibox", "command-line"}, opened' = {o}, timers' \in Nat, lists' \in Nat, unsaid' = TRUE
  PROVE  OverInv'
BY DEF OverInv, OneIsUp, LineNeedsVim, LineIsText, IndicatorIsTrue

(* Everything closes. *)
LEMMA OverEmptied ==
  ASSUME opened' = {}, timers' \in Nat, lists' \in Nat,
         \/ unsaid' = TRUE \/ timers' # 0
         \/ indicator' = Natural(caret', pageInsert')
         \/ indicator' = "tabs" /\ lists' > 0
  PROVE  OverInv'
<1>1. Natural(caret', pageInsert') \in {"normal", "insert"}
  BY DEF Natural
<1>2. OneIsUp' /\ LineNeedsVim' /\ LineIsText'
  BY DEF OneIsUp, LineNeedsVim, LineIsText
<1>3. IndicatorIsTrue'
  BY <1>1 DEF IndicatorIsTrue
<1> QED BY <1>2, <1>3 DEF OverInv

(* One closes and says so: at most the tab list is left. *)
LEMMA OverClosed ==
  ASSUME OverInv, NEW o \in opened, o # "tabs", opened' = opened \ {o}, NormalMode, UNCHANGED <<timers, lists>>
  PROVE  OverInv'
<1>1. \A a \in opened' : a = "tabs"
  BY DEF OverInv, OneIsUp
<1>2. Natural(caret', pageInsert') \in {"normal", "insert"} /\ indicator' = Natural(caret', pageInsert')
  BY DEF Natural, NormalMode, SetMode
<1>3. OneIsUp' /\ LineNeedsVim' /\ LineIsText'
  BY <1>1 DEF OneIsUp, LineNeedsVim, LineIsText
<1>4. IndicatorIsTrue'
  BY <1>2 DEF IndicatorIsTrue
<1> QED BY <1>3, <1>4 DEF OverInv, OneIsUp

(* One is replaced by another of the same frame. *)
LEMMA OverReplaced ==
  ASSUME OverInv, NEW o \in opened, o # "tabs", NEW p \in {"visual", "inspect"},
         opened' = (opened \ {o}) \union {p}, SetMode(p), UNCHANGED <<timers, lists>>
  PROVE  OverInv'
<1>1. \A a \in opened' : a \in {"tabs", p}
  BY DEF OverInv, OneIsUp
<1>2. p \in opened' /\ p \in ModesOf(p) /\ indicator' = p
  BY DEF ModesOf, SetMode
<1>3. OneIsUp' /\ LineNeedsVim' /\ LineIsText'
  BY <1>1, <1>2 DEF OneIsUp, LineNeedsVim, LineIsText
<1>4. IndicatorIsTrue'
  BY <1>2 DEF IndicatorIsTrue
<1> QED BY <1>3, <1>4 DEF OverInv

(* One that is open says its mode again. *)
LEMMA OverAgain ==
  ASSUME OverInv, NEW o \in {"history", "downloads", "chooser", "tabs", "select", "command", "search", "omnibox",
                             "visual"},
         Again(o)
  PROVE  OverInv'
<1>1. o \in opened /\ indicator' = o /\ UNCHANGED <<opened, caret, timers, lists, vim>>
  BY DEF Again, SetMode, Rest
<1>2. o \in ModesOf(o) /\ o # "normal"
  BY DEF ModesOf
<1>3. IndicatorIsTrue'
  BY <1>1, <1>2 DEF IndicatorIsTrue
<1>4. OneIsUp' /\ LineNeedsVim' /\ LineIsText'
  BY <1>1, <1>2 DEF OverInv, OneIsUp, LineNeedsVim, LineIsText
<1> QED BY <1>1, <1>3, <1>4 DEF OverInv

(* The mode is left, and what it is judged by. *)
LEMMA OverKept ==
  ASSUME OverInv, UNCHANGED <<opened, indicator, caret, pageInsert, vim, timers, lists, unsaid>>
  PROVE  OverInv'
BY DEF OverInv, OneIsUp, LineNeedsVim, LineIsText, IndicatorIsTrue, Natural

(* The focus moves to f. *)
LEMMA OverFocus ==
  ASSUME OverInv, NEW f \in {"none", "field", "own"}, caret' = f, FocusSets(f),
         UNCHANGED <<opened, pageInsert, vim, timers, lists>>
  PROVE  OverInv'
<1>1. OneIsUp' /\ LineNeedsVim'
  BY DEF OverInv, OneIsUp, LineNeedsVim
<1>2. CASE indicator' = "insert" /\ unsaid' = FALSE /\ f # "none"
  <2>1. IndicatorIsTrue' /\ LineIsText'
    BY <1>2 DEF IndicatorIsTrue, LineIsText, Natural
  <2> QED BY <1>1, <2>1 DEF OverInv
<1>3. CASE ~hasTransientMode(opened) /\ indicator' = Natural(f, pageInsert) /\ unsaid' = FALSE
  <2>1. indicator' = Natural(caret', pageInsert') /\ indicator' \in {"normal", "insert"}
    BY <1>3 DEF Natural
  <2>2. IndicatorIsTrue'
    BY <2>1 DEF IndicatorIsTrue
  <2>3. opened' # {"omnibox"}
    BY <1>3 DEF hasTransientMode
  <2>4. LineIsText'
    BY <2>1, <2>3 DEF LineIsText, Natural
  <2> QED BY <1>1, <2>2, <2>4 DEF OverInv
<1>4. CASE hasTransientMode(opened) /\ (f = "none" \/ ~vim \/ opened \intersect {"search", "omnibox"} # {})
           /\ UNCHANGED <<indicator, unsaid>>
  <2>1. opened # {} /\ opened # {"command-line"}
    BY <1>4 DEF hasTransientMode
  <2>2. IndicatorIsTrue'
    BY <1>4, <2>1 DEF OverInv, IndicatorIsTrue
  <2>3. LineIsText'
    BY <1>4, <2>1 DEF OverInv, LineIsText
  <2> QED BY <1>1, <2>2, <2>3 DEF OverInv
<1> QED BY <1>2, <1>3, <1>4 DEF FocusSets, SetMode

(* A key opens an overlay that is drawn at once. *)
LEMMA OverShows ==
  ASSUME OverInv, NEW o \in {"help", "omnibox", "command-line", "search", "history", "downloads", "command", "visual"},
         Show(o)
  PROVE  OverInv'
<1>1. opened' = {o} /\ indicator' = o /\ UNCHANGED <<vim, timers, lists>> /\ vim
  BY DEF Show, Commands, Instead, SetMode, Rest
<1>2. o \in ModesOf(o) /\ o # "normal"
  BY DEF ModesOf
<1> QED BY <1>1, <1>2, OverOpened DEF OverInv

(* What opens, by a key, a message or a late answer, replaces everything or is the tab list. *)
LEMMA OverOpensStep ==
  ASSUME OverInv,
         \/ ShowHelp \/ ShowPrompt \/ StartCommandLine \/ SearchOpens \/ ShowHistory \/ ShowDownloads
         \/ StartCommandPalette \/ SelectPageText \/ ShowFileChooser \/ ShowTabList \/ RenderTabList
         \/ StartHints \/ ShowBrowserContextMenu \/ InspectContextPoint \/ EnterInsertMode
  PROVE  OverInv'
<1>a. timers \in Nat /\ lists \in Nat /\ timers + 1 \in Nat /\ lists + 1 \in Nat
  BY DEF OverInv
<1>1. CASE ShowFileChooser
  <2>1. opened' = {"chooser"} /\ indicator' = "chooser" /\ UNCHANGED <<vim, timers, lists>>
    BY <1>1 DEF ShowFileChooser, Instead, SetMode, Rest
  <2>2. "chooser" \in ModesOf("chooser")
    BY DEF ModesOf
  <2> QED BY <1>a, <2>1, <2>2, OverOpened
<1>2. CASE ShowTabList
  <2>1. opened' = {} /\ indicator' = "tabs" /\ lists' = lists + 1 /\ timers' = timers
    BY <1>2 DEF ShowTabList, Instead, SetMode
  <2>2. lists' > 0 /\ lists' \in Nat /\ timers' \in Nat
    BY <1>a, <2>1
  <2> QED BY <2>1, <2>2, OverEmptied
<1>3. CASE RenderTabList
  <2>1. /\ lists > 0 /\ lists' = lists - 1 /\ opened' = opened \union {"tabs"} /\ indicator' = "tabs"
        /\ UNCHANGED <<vim, timers>>
    BY <1>3 DEF RenderTabList, SetMode
  <2>2. lists' \in Nat /\ timers' \in Nat
    BY <1>a, <2>1
  <2>3. OneIsUp' /\ LineNeedsVim'
    BY <2>1 DEF OverInv, OneIsUp, LineNeedsVim
  <2>4. LineIsText'
    BY <2>1 DEF LineIsText
  <2>5. IndicatorIsTrue'
    <3>1. "tabs" \in opened' /\ "tabs" \in ModesOf("tabs") /\ opened' # {}
      BY <2>1 DEF ModesOf
    <3> QED BY <2>1, <3>1 DEF IndicatorIsTrue
  <2> QED BY <2>2, <2>3, <2>4, <2>5 DEF OverInv
<1>4. CASE StartHints
  BY <1>4, OverKept DEF StartHints
<1>5. CASE ShowBrowserContextMenu
  BY <1>a, <1>5, OverOpenedQuietly DEF ShowBrowserContextMenu, Rest
<1>6. CASE InspectContextPoint
  <2>1. opened' = {"inspect"} /\ indicator' = "inspect" /\ UNCHANGED <<vim, timers, lists>>
    BY <1>6 DEF InspectContextPoint, Instead, SetMode, Rest
  <2>2. "inspect" \in ModesOf("inspect")
    BY DEF ModesOf
  <2> QED BY <1>a, <2>1, <2>2, OverOpened
<1>7. CASE EnterInsertMode
  <2>1. opened' = {} /\ indicator' = "insert" /\ pageInsert' = TRUE /\ UNCHANGED <<timers, lists>>
    BY <1>7 DEF EnterInsertMode, Instead, SetMode
  <2>2. indicator' = Natural(caret', pageInsert')
    BY <2>1 DEF Natural
  <2> QED BY <1>a, <2>1, <2>2, OverEmptied
<1> QED BY <1>1, <1>2, <1>3, <1>4, <1>5, <1>6, <1>7, OverShows
        DEF ShowHelp, ShowPrompt, StartCommandLine, SearchOpens, ShowHistory, ShowDownloads, StartCommandPalette,
            SelectPageText

(* Rounds and lists that find something or nothing, the Escape that comes back, commands switched. *)
LEMMA OverChoiceStep ==
  ASSUME OverInv, NEW some \in BOOLEAN,
         \/ StartPicker(some) \/ ShowSelectList(some) \/ PassedEscape(some)
         \/ ShortcutsMode(some) \/ \E m \in ModesOf("hint") : DrawHints(some, m)
  PROVE  OverInv'
<1>a. timers \in Nat /\ lists \in Nat /\ timers + 1 \in Nat /\ timers + 1 # 0
  BY DEF OverInv
<1>1. CASE StartPicker(some)
  <2>1. lists' = lists /\ indicator' = "inspect"
    BY <1>1 DEF StartPicker, SetMode
  <2>2. CASE some = TRUE
    <3>1. opened' = {"pick"} /\ timers' = timers
      BY <1>1, <2>2 DEF StartPicker, Instead
    <3>2. "inspect" \in ModesOf("pick")
      BY DEF ModesOf
    <3> QED BY <1>a, <2>1, <3>1, <3>2, OverOpened
  <2>3. CASE some = FALSE
    <3>1. opened' = {} /\ timers' = timers + 1
      BY <1>1, <2>3 DEF StartPicker, Instead
    <3> QED BY <1>a, <2>1, <3>1, OverEmptied
  <2> QED BY <2>2, <2>3
<1>2. CASE ShowSelectList(some)
  <2>1. UNCHANGED <<vim, timers, lists, pageInsert>>
    BY <1>2 DEF ShowSelectList, Rest
  <2>2. CASE "select" \in opened
    <3>1. opened' = {} /\ indicator' = Natural(caret', pageInsert')
      BY <1>2, <2>2 DEF ShowSelectList, Instead, NormalMode, SetMode
    <3> QED BY <1>a, <2>1, <3>1, OverEmptied
  <2>3. CASE "select" \notin opened /\ some = TRUE
    <3>1. opened' = {"select"} /\ indicator' = "select"
      BY <1>2, <2>3 DEF ShowSelectList, SetMode
    <3>2. "select" \in ModesOf("select")
      BY DEF ModesOf
    <3> QED BY <1>a, <2>1, <3>1, <3>2, OverOpened
  <2>4. CASE "select" \notin opened /\ some = FALSE
    <3>1. opened' = {} /\ unsaid' = TRUE
      BY <1>2, <2>4 DEF ShowSelectList
    <3> QED BY <1>a, <2>1, <3>1, OverEmptied
  <2> QED BY <2>2, <2>3, <2>4
<1>3. CASE PassedEscape(some)
  <2>1. /\ opened' \subseteq opened /\ UNCHANGED <<vim, timers, lists, pageInsert>>
        /\ indicator' = Natural(caret', pageInsert') /\ unsaid' = (opened' # {})
    BY <1>3 DEF PassedEscape, NormalModeOver
  <2>2. CASE opened' = {}
    BY <1>a, <2>1, <2>2, OverEmptied
  <2>3. CASE opened' # {}
    <3>1. unsaid' = TRUE
      BY <2>1, <2>3
    <3> QED BY <1>a, <2>1, <3>1, OverQuiet
  <2> QED BY <2>2, <2>3
<1>4. CASE ShortcutsMode(some)
  <2>1. /\ UNCHANGED <<timers, lists>> /\ vim' = some
        /\ indicator' = Natural(caret', pageInsert') /\ unsaid' = (opened' # {})
        /\ some = TRUE => opened' = opened
        /\ some = FALSE => opened' = {}
    BY <1>4 DEF ShortcutsMode, NormalModeOver, Instead
  <2>2. CASE opened' = {}
    BY <1>a, <2>1, <2>2, OverEmptied
  <2>3. CASE opened' # {}
    <3>1. unsaid' = TRUE /\ some = TRUE /\ opened' = opened /\ vim'
      BY <2>1, <2>3
    <3>2. IndicatorIsTrue' /\ LineIsText' /\ LineNeedsVim' /\ OneIsUp'
      BY <3>1 DEF OverInv, OneIsUp, IndicatorIsTrue, LineIsText, LineNeedsVim
    <3> QED BY <1>a, <2>1, <3>2 DEF OverInv
  <2> QED BY <2>2, <2>3
<1>5. CASE \E m \in ModesOf("hint") : DrawHints(some, m)
  <2>1. PICK m \in ModesOf("hint") : DrawHints(some, m)
    BY <1>5
  <2>2. UNCHANGED <<vim, timers, lists>>
    BY <2>1 DEF DrawHints
  <2>3. CASE some = TRUE
    <3>1. opened' = {"hint"} /\ indicator' = m
      BY <2>1, <2>3 DEF DrawHints, Instead, SetMode
    <3> QED BY <1>a, <2>2, <3>1, OverOpened
  <2>4. CASE some = FALSE
    <3>1. opened' = {} /\ unsaid' = TRUE
      BY <2>1, <2>4 DEF DrawHints, Instead
    <3> QED BY <1>a, <2>2, <3>1, OverEmptied
  <2> QED BY <2>3, <2>4
<1> QED BY <1>1, <1>2, <1>3, <1>4, <1>5

(* A choice that sets the mode again. *)
LEMMA OverSubmits ==
  ASSUME OverInv, NEW o, o # "tabs", Submit(o)
  PROVE  OverInv'
<1>1. o \in opened /\ opened' = opened \ {o} /\ NormalMode /\ UNCHANGED <<timers, lists>>
  BY DEF Submit, Close, Rest
<1> QED BY <1>1, OverClosed

(* A choice that leaves the mode, or that flashes. *)
LEMMA OverSubmitsQuietly ==
  ASSUME OverInv, NEW o, SubmitQuietly(o) \/ SubmitWithFlash(o)
  PROVE  OverInv'
<1>a. timers \in Nat /\ lists \in Nat /\ timers + 1 \in Nat /\ timers + 1 # 0
  BY DEF OverInv
<1>1. /\ opened' \subseteq opened /\ vim' = vim /\ lists' = lists
      /\ (timers' = timers /\ unsaid' = TRUE) \/ timers' = timers + 1
  BY DEF SubmitQuietly, SubmitWithFlash, Close, Rest
<1> QED BY <1>a, <1>1, OverQuiet

(* The focus, messages and their timers, rounds that end, labels picked. *)
LEMMA OverRestStep ==
  ASSUME OverInv,
         \/ OwnFocus \/ (\E f \in {"none", "field"} : PageFocus(f)) \/ Flash \/ FlashEnds \/ WindowBlur \/ HintEnd
         \/ PickAndClick \/ EnterVisual \/ EnterInspect \/ HelpFilter
  PROVE  OverInv'
<1>a. timers \in Nat /\ lists \in Nat /\ timers + 1 \in Nat /\ timers + 1 # 0
  BY DEF OverInv
<1>1. CASE OwnFocus
  <2>1. caret' = "own" /\ FocusSets("own") /\ UNCHANGED <<opened, pageInsert, vim, timers, lists>>
    BY <1>1 DEF OwnFocus, Rest
  <2> QED BY <2>1, OverFocus
<1>2. ASSUME NEW f \in {"none", "field"}, PageFocus(f) PROVE OverInv'
  <2>1. caret' = f /\ FocusSets(f) /\ UNCHANGED <<opened, pageInsert, vim, timers, lists>>
    BY <1>2 DEF PageFocus, Rest
  <2> QED BY <2>1, OverFocus
<1>3. CASE Flash
  <2>1. timers' = timers + 1 /\ UNCHANGED <<opened, vim, lists>>
    BY <1>3 DEF Flash
  <2> QED BY <1>a, <2>1, OverQuiet
<1>4. CASE FlashEnds
  <2>1. /\ timers > 0 /\ timers' = timers - 1 /\ UNCHANGED <<opened, vim, lists, caret, pageInsert>>
        /\ indicator' = Natural(caret', pageInsert') /\ unsaid' = (opened # {})
    BY <1>4 DEF FlashEnds, NormalModeOver
  <2>2. timers' \in Nat
    BY <1>a, <2>1
  <2>3. CASE opened = {}
    BY <1>a, <2>1, <2>2, <2>3, OverEmptied
  <2>4. CASE opened # {}
    <3>1. unsaid' = TRUE /\ opened' \subseteq opened
      BY <2>1, <2>4
    <3> QED BY <1>a, <2>1, <2>2, <3>1, OverQuiet
  <2> QED BY <2>3, <2>4
<1>5. CASE WindowBlur
  <2>1. opened' \subseteq opened /\ unsaid' = TRUE /\ UNCHANGED <<vim, timers, lists>>
    BY <1>5 DEF WindowBlur, Rest
  <2> QED BY <1>a, <2>1, OverQuiet
<1>6. CASE HintEnd
  BY <1>6, OverClosed DEF HintEnd, Rest
<1>7. CASE PickAndClick
  <2>1. PICK o \in {"hint", "pick"} : PickInto(o, {}) /\ NormalMode
    BY <1>7 DEF PickAndClick
  <2>2. o \in opened /\ opened' = opened \ {o} /\ UNCHANGED <<timers, lists>> /\ o # "tabs"
    BY <2>1 DEF PickInto, Rest
  <2> QED BY <2>1, <2>2, OverClosed
<1>8. CASE EnterVisual
  <2>1. PICK o \in {"hint", "pick"} : PickInto(o, {"visual"}) /\ SetMode("visual")
    BY <1>8 DEF EnterVisual
  <2>2. o \in opened /\ opened' = (opened \ {o}) \union {"visual"} /\ UNCHANGED <<timers, lists>> /\ o # "tabs"
    BY <2>1 DEF PickInto, Rest
  <2> QED BY <2>1, <2>2, OverReplaced
<1>9. CASE EnterInspect
  <2>1. PICK o \in {"pick", "visual"} : PickInto(o, {"inspect"}) /\ SetMode("inspect")
    BY <1>9 DEF EnterInspect
  <2>2. o \in opened /\ opened' = (opened \ {o}) \union {"inspect"} /\ UNCHANGED <<timers, lists>> /\ o # "tabs"
    BY <2>1 DEF PickInto, Rest
  <2> QED BY <2>1, <2>2, OverReplaced
<1>10. CASE HelpFilter
  BY <1>10, OverKept DEF HelpFilter, Rest
<1> QED BY <1>1, <1>2, <1>3, <1>4, <1>5, <1>6, <1>7, <1>8, <1>9, <1>10

(* An Escape from any mode (handleNormalKey). *)
LEMMA OverEscapeStep ==
  ASSUME OverInv, Escape
  PROVE  OverInv'
<1>a. timers \in Nat /\ lists \in Nat /\ UNCHANGED <<vim, timers, lists>>
  BY DEF OverInv, Escape
<1>1. CASE pageInsert' = pageInsert /\ EscapeTransient
  <2>1. opened' = {} /\ indicator' = Natural(caret', pageInsert')
    BY <1>1 DEF EscapeTransient, Instead, NormalMode, SetMode
  <2> QED BY <1>a, <2>1, OverEmptied
<1>2. CASE /\ ~(hasTransientMode(opened) /\ (filter = "off" \/ "help" \notin opened))
           /\ pageInsert' = FALSE /\ UNCHANGED <<opened, caret, caretBack, focusDue, filter, passing>>
           /\ NormalMode
  <2>1. indicator' = Natural(caret', pageInsert') /\ indicator' \in {"normal", "insert"}
    BY <1>2 DEF NormalMode, SetMode, Natural
  <2>2. IndicatorIsTrue'
    BY <2>1 DEF IndicatorIsTrue
  <2>3. opened' # {"omnibox"}
    BY <1>2 DEF hasTransientMode
  <2>4. LineIsText'
    BY <2>1, <2>3 DEF LineIsText, Natural
  <2>5. OneIsUp' /\ LineNeedsVim'
    BY <1>a, <1>2 DEF OverInv, OneIsUp, LineNeedsVim
  <2> QED BY <1>a, <2>2, <2>4, <2>5 DEF OverInv
<1>3. CASE pageInsert' = pageInsert /\ EscapeFilter
  BY <1>a, <1>3, OverKept DEF EscapeFilter
<1>4. CASE pageInsert' = pageInsert /\ EscapePalette
  <2>1. opened' = {} /\ unsaid' = TRUE
    BY <1>4 DEF EscapePalette
  <2> QED BY <1>a, <2>1, OverEmptied
<1>5. CASE pageInsert' = pageInsert /\ DismissPageOverlay
  BY <1>a, <1>5, OverKept DEF DismissPageOverlay
<1> QED BY <1>1, <1>2, <1>3, <1>4, <1>5 DEF Escape

(* OverInv is inductive. *)
LEMMA OverlaysStep ==
  ASSUME OverInv, [OverlaysNext]_overlayVars
  PROVE  OverInv'
<1>1. CASE UNCHANGED overlayVars
  BY <1>1, OverKept DEF overlayVars
<1>2. CASE \/ RenderHistoryModel \/ RenderDownloadsModel \/ CompletionRenders \/ SelectTabListIndex
           \/ PaintSelectList \/ FilterCommandPalette \/ FindResult \/ PromptModel \/ UpdateVisualSelection
  BY <1>2, OverAgain
     DEF RenderHistoryModel, RenderDownloadsModel, CompletionRenders, SelectTabListIndex, PaintSelectList,
         FilterCommandPalette, FindResult, PromptModel, UpdateVisualSelection
<1>3. CASE \/ SubmitPrompt \/ SubmitCommandLine \/ MatchLanded \/ ChooserSubmits \/ ChooseSelectOption
           \/ CloseBrowserContextMenu \/ ClickVisual \/ CancelHelp
  BY <1>3, OverSubmits
     DEF SubmitPrompt, SubmitCommandLine, MatchLanded, ChooserSubmits, ChooseSelectOption,
         CloseBrowserContextMenu, ClickVisual, CancelHelp
<1>4. CASE \/ ActivateSelectedTab \/ OpenSelectedHistory \/ OpenSelectedDownload \/ PaletteEnter
           \/ CopyVisual \/ HandleInspectKey
  BY <1>4, OverSubmitsQuietly
     DEF ActivateSelectedTab, OpenSelectedHistory, OpenSelectedDownload, PaletteEnter, CopyVisual, HandleInspectKey
<1> QED BY <1>1, <1>2, <1>3, <1>4, OverOpensStep, OverChoiceStep, OverRestStep, OverEscapeStep DEF OverlaysNext

(* A new document has nothing open. *)
LEMMA OverStarts == OverlaysInit => OverInv
BY DEF OverlaysInit, OverInv, OneIsUp, IndicatorIsTrue, LineIsText, LineNeedsVim, Natural

(* What the invariant says of the overlays that are up and of the mode shown. *)
LEMMA OverSays ==
  ASSUME OverInv
  PROVE  OneOverlay /\ IndicatorIsTrue /\ TypedIsText
<1>1. OneOverlay
  <2>1. CASE opened \ {"tabs"} = {}
    BY <2>1, FS_EmptySet DEF OneOverlay
  <2>2. CASE opened \ {"tabs"} # {}
    <3>1. PICK o : opened \ {"tabs"} = {o}
      BY <2>2 DEF OverInv, OneIsUp
    <3>2. Cardinality({o}) = 1
      BY FS_Singleton
    <3> QED BY <3>1, <3>2 DEF OneOverlay
  <2> QED BY <2>1, <2>2
<1>2. IndicatorIsTrue
  BY DEF OverInv
<1>3. ASSUME vim, ~unsaid, timers = 0, opened \in {{}, {"omnibox"}, {"command-line"}}, caret \in {"own", "field"},
             lists = 0
      PROVE  indicator \in TEXT_MODES
  <2>1. CASE opened = {}
    BY <1>2, <1>3, <2>1 DEF IndicatorIsTrue, Natural, TEXT_MODES
  <2>2. CASE opened = {"omnibox"} \/ opened = {"command-line"}
    <3>1. indicator # "normal"
      BY <1>3, <2>2 DEF OverInv, LineIsText
    <3>2. indicator = "insert" \/ \E o \in opened : indicator \in ModesOf(o)
      BY <1>2, <1>3, <3>1 DEF IndicatorIsTrue
    <3> QED BY <2>2, <3>2 DEF ModesOf, TEXT_MODES
  <2> QED BY <1>3, <2>1, <2>2
<1> QED BY <1>1, <1>2, <1>3 DEF TypedIsText

(* An overlay that has a step back or is passed over by Escape was not opened in insert mode.          *)
StepsBack == "command" \in opened \/ ("help" \in opened /\ filter # "off") => ~pageInsert

(* Only EnterInsertMode sets insertMode, and it closes everything. *)
LEMMA StepsBackIsKept ==
  ASSUME StepsBack, [OverlaysNext]_overlayVars
  PROVE  StepsBack'
<1>1. CASE opened' = {} \/ pageInsert' = FALSE
  BY <1>1 DEF StepsBack
<1>2. CASE /\ "command" \in opened' => "command" \in opened
           /\ "help" \in opened' /\ filter' # "off" => "help" \in opened /\ filter # "off"
           /\ pageInsert' = pageInsert
  BY <1>2 DEF StepsBack
<1>3. CASE ~pageInsert /\ pageInsert' = pageInsert
  BY <1>3 DEF StepsBack
<1>4. CASE UNCHANGED overlayVars
  BY <1>2, <1>4 DEF overlayVars
<1>5. CASE \/ ShowHelp \/ ShowPrompt \/ StartCommandLine \/ SearchOpens \/ ShowHistory \/ ShowDownloads
           \/ StartCommandPalette \/ SelectPageText \/ ShowTabList \/ EnterInsertMode \/ HelpFilter
  <2>1. opened' = {} \/ (~pageInsert /\ pageInsert' = pageInsert)
    BY <1>5 DEF ShowHelp, ShowPrompt, StartCommandLine, SearchOpens, ShowHistory, ShowDownloads,
                StartCommandPalette, SelectPageText, Show, ShowTabList, EnterInsertMode, HelpFilter, Commands,
                Instead, Rest
  <2> QED BY <1>1, <1>3, <2>1
<1>6. CASE \/ ShowFileChooser \/ RenderTabList \/ StartHints \/ ShowBrowserContextMenu \/ InspectContextPoint
  BY <1>2, <1>6
     DEF ShowFileChooser, RenderTabList, StartHints, ShowBrowserContextMenu, InspectContextPoint, Instead, Rest
<1>7. CASE OwnFocus \/ (\E f \in {"none", "field"} : PageFocus(f)) \/ Flash \/ FlashEnds
  BY <1>2, <1>7 DEF OwnFocus, PageFocus, Flash, FlashEnds, Rest
<1>8. CASE WindowBlur \/ HintEnd \/ CopyVisual \/ HandleInspectKey
  BY <1>2, <1>8 DEF WindowBlur, HintEnd, CopyVisual, HandleInspectKey, SubmitWithFlash, Rest
<1>9. CASE PickAndClick \/ EnterVisual \/ EnterInspect
  BY <1>2, <1>9 DEF PickAndClick, EnterVisual, EnterInspect, PickInto, Rest
<1>10. CASE \/ RenderHistoryModel \/ RenderDownloadsModel \/ CompletionRenders \/ SelectTabListIndex
           \/ PaintSelectList \/ FilterCommandPalette \/ FindResult \/ PromptModel \/ UpdateVisualSelection
  BY <1>2, <1>10
     DEF RenderHistoryModel, RenderDownloadsModel, CompletionRenders, SelectTabListIndex, PaintSelectList,
         FilterCommandPalette, FindResult, PromptModel, UpdateVisualSelection, Again, Rest
<1>11. CASE \/ SubmitPrompt \/ SubmitCommandLine \/ MatchLanded \/ ChooserSubmits \/ ChooseSelectOption
           \/ CloseBrowserContextMenu \/ ClickVisual \/ CancelHelp
           \/ ActivateSelectedTab \/ OpenSelectedHistory \/ OpenSelectedDownload \/ PaletteEnter
  BY <1>2, <1>11
     DEF SubmitPrompt, SubmitCommandLine, MatchLanded, ChooserSubmits, ChooseSelectOption,
         CloseBrowserContextMenu, ClickVisual, CancelHelp, ActivateSelectedTab, OpenSelectedHistory,
         OpenSelectedDownload, PaletteEnter, Submit, SubmitQuietly, Close, Rest
<1>12. ASSUME NEW some \in BOOLEAN,
             \/ StartPicker(some) \/ ShowSelectList(some) \/ PassedEscape(some)
             \/ ShortcutsMode(some) \/ \E m \in ModesOf("hint") : DrawHints(some, m)
      PROVE  StepsBack'
  <2>1. CASE StartPicker(some)
    BY <1>2, <2>1 DEF StartPicker, Instead
  <2>2. CASE ShowSelectList(some)
    BY <1>2, <2>2 DEF ShowSelectList, Instead, Rest
  <2>3. CASE PassedEscape(some)
    BY <1>2, <2>3 DEF PassedEscape
  <2>4. CASE ShortcutsMode(some)
    BY <1>1, <2>4 DEF ShortcutsMode
  <2>5. CASE \E m \in ModesOf("hint") : DrawHints(some, m)
    BY <1>2, <2>5 DEF DrawHints, Instead
  <2> QED BY <1>12, <2>1, <2>2, <2>3, <2>4, <2>5
<1>13. CASE Escape
  BY <1>1, <1>2, <1>13 DEF Escape, EscapeTransient, EscapeFilter, EscapePalette, DismissPageOverlay, Instead, StepsBack
<1> QED BY <1>4, <1>5, <1>6, <1>7, <1>8, <1>9, <1>10, <1>11, <1>12, <1>13 DEF OverlaysNext

(* One Escape, whatever the help's filter and the mode are. *)
LEMMA EscapeSteps ==
  ASSUME StepsBack, Escape, (opened \ {"command-line"}) # {}
  PROVE  opened' = {} \/ (opened' = opened /\ filter' # filter)
<1>1. CASE hasTransientMode(opened) /\ (filter = "off" \/ "help" \notin opened)
  BY <1>1 DEF Escape, EscapeTransient, Instead
<1>2. CASE ~(hasTransientMode(opened) /\ (filter = "off" \/ "help" \notin opened))
  <2>1. ("help" \in opened /\ filter # "off") \/ ("help" \notin opened /\ "command" \in opened)
    BY <1>2 DEF hasTransientMode
  <2>2. ~pageInsert
    BY <2>1 DEF StepsBack
  <2>3. CASE "help" \in opened /\ filter # "off"
    BY <1>2, <2>2, <2>3 DEF Escape, EscapeFilter
  <2>4. CASE "help" \notin opened /\ "command" \in opened
    BY <1>2, <2>2, <2>4 DEF Escape, EscapePalette
  <2> QED BY <2>1, <2>3, <2>4
<1> QED BY <1>1, <1>2

(* A step of the engine is a step of the overlays, or leaves them alone. *)
LEMMA OverlaysInEngine ==
  ASSUME [MCEngineNext]_<<pagesVars, inputVars, outputVars, part>>
  PROVE  [OverlaysNext]_overlayVars
BY DEF MCEngineNext, pagesVars

(* Whatever order keys, clicks, late answers and messages come in: besides the tab list at most one
   overlay of the page script is up, and once every close has said its mode and no message is on show,
   the mode main.cjs mirrors is that of what is on screen, and what is typed into a line is text. *)
THEOREM OverlaysKeepApart ==
  /\ OverlaysSpec => [](OneOverlay /\ IndicatorIsTrue /\ TypedIsText)
  /\ MCEngineSpec => []OverlaysAgree
<1>1. OverInv /\ [OverlaysNext]_overlayVars => OverInv'
  BY OverlaysStep
<1>2. OverInv => OneOverlay /\ IndicatorIsTrue /\ TypedIsText
  BY OverSays
<1>3. OverlaysSpec => [](OneOverlay /\ IndicatorIsTrue /\ TypedIsText)
  BY <1>1, <1>2, OverStarts, PTL DEF OverlaysSpec
<1>4. MCEngineSpec => []OverlaysAgree
  <2>1. MCEngineInit => OverInv
    BY OverStarts DEF MCEngineInit, OverlaysBegin
  <2>2. OverInv /\ [MCEngineNext]_<<pagesVars, inputVars, outputVars, part>> => OverInv'
    BY <1>1, OverlaysInEngine
  <2>3. OverInv => OverlaysAgree
    BY <1>2 DEF OverlaysAgree
  <2> QED BY <2>1, <2>2, <2>3, PTL DEF MCEngineSpec
<1> QED BY <1>3, <1>4

(* A step of the engine is a step of the frame store, or leaves it alone. *)
LEMMA StoreInEngine ==
  ASSUME [MCEngineNext]_<<pagesVars, inputVars, outputVars, part>>
  PROVE  [StoreNext]_storeVars
BY DEF MCEngineNext, outputVars

(* What a step may never do. An Escape that finds overlays open closes them all or takes one step back in
   the help's filter, whatever opened them and in whatever mode it arrives (handleNormalKey of the page
   script). And nobody takes the file, the objects or the marker of an engine that lives and serves its
   pane: not the sweep of one that starts, nor one that quits or is killed, nor the engine's own worker
   (abandonedFrameFiles, abandonedShmFrames, cleanupFrameFiles, writeFrameFile). *)
THEOREM StepsStaySafe ==
  /\ OverlaysSpec => EscapeGoesBack
  /\ StoreSpec => LivingIsSpared
  /\ MCEngineSpec => StepsAreSafe
<1>1. OverlaysInit => StepsBack
  BY DEF OverlaysInit, StepsBack
<1>2. StepsBack /\ [OverlaysNext]_overlayVars => StepsBack'
  BY StepsBackIsKept
<1>3. StepsBack /\ [OverlaysNext]_overlayVars
        => [Escape /\ (opened \ {"command-line"}) # {}
              => opened' = {} \/ (opened' = opened /\ filter' # filter)]_overlayVars
  BY EscapeSteps
<1>4. StoreInv /\ [StoreNext]_storeVars => StoreInv'
  BY StoreStep, StoreSitsStill
<1>5. StoreInv /\ [StoreNext]_storeVars => [Spares]_storeVars
  BY StoreStep
<1>6. OverlaysSpec => EscapeGoesBack
  BY <1>1, <1>2, <1>3, PTL DEF OverlaysSpec, EscapeGoesBack
<1>7. StoreSpec => LivingIsSpared
  BY <1>4, <1>5, StoreStarts, PTL DEF StoreSpec, LivingIsSpared, Spares
<1>8. MCEngineSpec => StepsAreSafe
  <2>1. MCEngineInit => StepsBack /\ StoreInv
    BY <1>1, StoreStarts DEF MCEngineInit, OverlaysBegin, StoreBegins
  <2>2. [MCEngineNext]_<<pagesVars, inputVars, outputVars, part>>
          => [OverlaysNext]_overlayVars /\ [StoreNext]_storeVars
    BY OverlaysInEngine, StoreInEngine
  <2>3. MCEngineSpec => EscapeGoesBack
    BY <1>2, <1>3, <2>1, <2>2, PTL DEF MCEngineSpec, EscapeGoesBack
  <2>4. MCEngineSpec => LivingIsSpared
    BY <1>4, <1>5, <2>1, <2>2, PTL DEF MCEngineSpec, LivingIsSpared, Spares
  <2> QED BY <2>3, <2>4 DEF StepsAreSafe
<1> QED BY <1>6, <1>7, <1>8

-----------------------------------------------------------------------------
(* A step of the engine is a step of the wheel, or leaves it alone. *)
LEMMA WheelInEngine ==
  ASSUME [MCEngineNext]_<<pagesVars, inputVars, outputVars, part>>
  PROVE  [WheelNext]_wheelVars
BY DEF MCEngineNext, inputVars

(* However two devices' scrolls and the terminal's notches cross, as long as a notch comes before the end
   of the window the pane holds it for: a scroll is given to the page once, by the helper that hears
   the device or by the notch, never by both and, where one device is used at a time, by one of them
   when nothing more is on its way; and a notch that is held has a flush to come (dispatchTerminalWheel
   and the deltas of native-input.cjs).  Were the window the shorter, a notch would be given before the
   helper is heard and the page would scroll twice. *)
THEOREM WheelScrollsOnce ==
  ASSUME Skew < HoldTicks
  PROVE  /\ WheelSpec => [](ScrolledOnce /\ HeldIsFlushed)
         /\ MCEngineSpec => [](ScrolledOnce /\ HeldIsFlushed)
<1>1. WheelBase
  BY WheelAssumption DEF WheelBase
<1>2. WheelInv /\ [WheelNext]_wheelVars => WheelInv'
  BY <1>1, WheelStep
<1>3. WheelSpec => [](ScrolledOnce /\ HeldIsFlushed)
  BY <1>2, WheelStarts, WheelSays, PTL DEF WheelSpec
<1>4. MCEngineSpec => [](ScrolledOnce /\ HeldIsFlushed)
  <2>1. MCEngineInit => WheelInv
    BY WheelStarts DEF MCEngineInit, WheelBegins
  <2>2. [MCEngineNext]_<<pagesVars, inputVars, outputVars, part>> => [WheelNext]_wheelVars
    BY WheelInEngine
  <2> QED BY <1>2, <2>1, <2>2, WheelSays, PTL DEF MCEngineSpec
<1> QED BY <1>3, <1>4

(* A step of the engine is a step of the modes and of the pointer, or leaves them alone. *)
LEMMA InputInEngine ==
  ASSUME [MCEngineNext]_<<pagesVars, inputVars, outputVars, part>>
  PROVE  [ModesNext]_modeVars /\ [PointerNext]_pointerVars
BY DEF MCEngineNext, inputVars

(* All that the runs check of what a pane reads its input by. However the reports of a pane's frames cross
   its tab switches and mode changes, once all have come its keys are real exactly when a field of the tab
   shown has the focus, and a frame armed for them owns them, unless a hidden tab was heard or a ping
   answered (HearReport, "insert-mode" and tweb-preload-ready of main.cjs). Where the terminal's grid
   starts is in the interval its reports have left, and a point given to the page as the pointer's own is
   off by half a cell at most, while nothing has misled them, for every width of a cell, every place and
   any number of moves (GridEstimate and NativeInput.report of native-input.cjs). And one turn of the wheel
   scrolls once, as long as a notch comes before the window it is held for has ended. *)
THEOREM InputStaysTrue ==
  ASSUME Skew < HoldTicks
  PROVE  /\ ModesSpec => [](MirrorIsRightAlone /\ ArmedIsOwner)
         /\ PointerSpec => [](EstimateIsRight /\ PointIsTrue)
         /\ MCEngineSpec => []InputIsTrue
<1>1. ModesInit => ModesInv
  BY ModesStart
<1>2. ModesInv /\ [ModesNext]_modeVars => ModesInv'
  BY ModesStep
<1>3. PointerInit => PointerInv
  BY PointerStart
<1>4. PointerInv /\ [PointerNext]_pointerVars => PointerInv'
  BY PointerStep
<1>5. ModesInv => MirrorIsRightAlone /\ ArmedIsOwner
  BY ModesMet
<1>6. PointerInv => EstimateIsRight /\ PointIsTrue
  BY PointerMet
<1>7. ModesSpec => [](MirrorIsRightAlone /\ ArmedIsOwner)
  BY <1>1, <1>2, <1>5, PTL DEF ModesSpec
<1>8. PointerSpec => [](EstimateIsRight /\ PointIsTrue)
  BY <1>3, <1>4, <1>6, PTL DEF PointerSpec
<1>9. MCEngineSpec => []InputIsTrue
  <2>1. MCEngineInit => ModesInv /\ PointerInv
    BY <1>1, <1>3 DEF MCEngineInit, ModesBegin, PointerBegins
  <2>2. [MCEngineNext]_<<pagesVars, inputVars, outputVars, part>> => [ModesNext]_modeVars /\ [PointerNext]_pointerVars
    BY InputInEngine
  <2>3. MCEngineSpec => [](ModesInv /\ PointerInv)
    BY <1>2, <1>4, <2>1, <2>2, PTL DEF MCEngineSpec
  <2>4. MCEngineSpec => [](ScrolledOnce /\ HeldIsFlushed)
    BY WheelScrollsOnce
  <2>5. ModesInv /\ PointerInv /\ ScrolledOnce /\ HeldIsFlushed => InputIsTrue
    BY <1>5, <1>6 DEF InputIsTrue
  <2> QED BY <2>3, <2>4, <2>5, PTL
<1> QED BY <1>7, <1>8, <1>9

-----------------------------------------------------------------------------
(* A step of the engine is a step of the pictures, or leaves them alone. *)
LEMMA CaptureInEngine ==
  ASSUME [MCEngineNext]_<<pagesVars, inputVars, outputVars, part>>
  PROVE  [CaptureNext]_captureVars
BY DEF MCEngineNext, outputVars

(* However pages change, panes are resized and hidden, shots time out and frames of the screencast cross
   them: when everything has come to rest the pane shows the page as it is, sharp and of the pane's
   size, unless a picture came late or was taken for a newer one (the slips); and Chrome is asked for
   one shot at a time, unless one that was given up on still runs (pumpCapture, settleCapture,
   invalidate and capturePage of cdp/web-contents.cjs). *)
THEOREM PagesEndUpSharp ==
  /\ CaptureSpec => [](StillIsSharpButSlips /\ OneShot)
  /\ MCEngineSpec => [](StillIsSharpButSlips /\ OneShot)
<1>1. CapInv /\ [CaptureNext]_captureVars => CapInv'
  BY CapStep, CaptureAssumption
<1>2. CaptureInit => CapInv
  BY CapStarts
<1>3. CapInv => StillIsSharpButSlips /\ OneShot
  BY CapSays
<1>4. CaptureSpec => [](StillIsSharpButSlips /\ OneShot)
  BY <1>1, <1>2, <1>3, PTL DEF CaptureSpec
<1>5. MCEngineSpec => [](StillIsSharpButSlips /\ OneShot)
  <2>1. MCEngineInit => CapInv
    BY <1>2 DEF MCEngineInit, ScreenBegins
  <2>2. [MCEngineNext]_<<pagesVars, inputVars, outputVars, part>> => [CaptureNext]_captureVars
    BY CaptureInEngine
  <2> QED BY <1>1, <1>3, <2>1, <2>2, PTL DEF MCEngineSpec
<1> QED BY <1>4, <1>5

(* A step of the engine is a step of the recorder, or leaves it alone. *)
LEMMA RecorderInEngine ==
  ASSUME [MCEngineNext]_<<pagesVars, inputVars, outputVars, part>>
  PROVE  [RecorderNext]_recorderVars
BY DEF MCEngineNext, outputVars

(* Whatever is recorded, in however many recordings one after another, and however late the pictures come:
   a picture is linked from the event it was asked for and from no other, and once the chain of a
   recording has ended and its timeline is written, every picture it has on disk is mentioned in it
   unless the log was full (Recording.record and captureKeyframe of recorder.cjs). *)
THEOREM TimelinesMentionPictures ==
  /\ RecorderSpec => [](PictureIsOfItsEvent /\ TimelineMentionsAll)
  /\ MCEngineSpec => [](PictureIsOfItsEvent /\ TimelineMentionsAll)
<1>1. RecInv /\ [RecorderNext]_recorderVars => RecInv'
  BY RecStep
<1>2. RecorderInit => RecInv
  BY RecStarts
<1>3. RecInv => PictureIsOfItsEvent /\ TimelineMentionsAll
  BY RecSays
<1>4. RecorderSpec => [](PictureIsOfItsEvent /\ TimelineMentionsAll)
  BY <1>1, <1>2, <1>3, PTL DEF RecorderSpec
<1>5. MCEngineSpec => [](PictureIsOfItsEvent /\ TimelineMentionsAll)
  <2>1. MCEngineInit => RecInv
    BY <1>2 DEF MCEngineInit, RecordingBegins
  <2>2. [MCEngineNext]_<<pagesVars, inputVars, outputVars, part>> => [RecorderNext]_recorderVars
    BY RecorderInEngine
  <2> QED BY <1>1, <1>3, <2>1, <2>2, PTL DEF MCEngineSpec
<1> QED BY <1>4, <1>5

(* All that the runs check of an engine's pictures.  With the above: a recording that was started and not
   stopped is the one the pane has, however many stops were asked for and however they overlap, unless it
   began while one of them had still to go on; such a stop deletes the pane's recording whichever it is by
   then (toggleRecording and stopRecording of main.cjs). *)
THEOREM PicturesStayTrue ==
  /\ RecorderSpec => []RunningIsStoppable
  /\ MCEngineSpec => []PicturesAreTrue
<1>1. RecInv /\ RunInv /\ [RecorderNext]_recorderVars => RecInv' /\ RunInv'
  BY RecStep, RunStep
<1>2. RunInv => RunningIsStoppable
  BY RunSays
<1>3. RecorderInit => RecInv /\ RunInv
  BY RecStarts, RunStarts
<1>4. RecorderSpec => []RunningIsStoppable
  BY <1>1, <1>2, <1>3, PTL DEF RecorderSpec
<1>5. MCEngineSpec => []RunningIsStoppable
  <2>1. MCEngineInit => RecInv /\ RunInv
    BY <1>3 DEF MCEngineInit, RecordingBegins
  <2>2. [MCEngineNext]_<<pagesVars, inputVars, outputVars, part>> => [RecorderNext]_recorderVars
    BY RecorderInEngine
  <2> QED BY <1>1, <1>2, <2>1, <2>2, PTL DEF MCEngineSpec
<1>6. StillIsSharpButSlips /\ OneShot /\ PictureIsOfItsEvent /\ TimelineMentionsAll /\ RunningIsStoppable
        => PicturesAreTrue
  BY DEF PicturesAreTrue
<1> QED BY <1>4, <1>5, <1>6, PagesEndUpSharp, TimelinesMentionPictures, PTL

(* A step of the engine is a step of the floats, or leaves them alone. *)
LEMMA FloatInEngine ==
  ASSUME [MCEngineNext]_<<pagesVars, inputVars, outputVars, part>>
  PROVE  [FloatNext]_floatVars
BY DEF MCEngineNext, pagesVars

(* However many panes one process serves, whatever is done to their floats, their full screen and their
   tabs, and in whatever order pages load, viewers open and the terminal shows the panes: a tab has a viewer
   exactly while it is what its floating pane shows; and of every pane that did not float while another
   pane's step wrote the variables of full screen, a page is zoomed exactly while its surface is shrunk, its
   clicks are scaled by the same factor, and its surface is the monitor's size while its viewer is in full
   screen and never while it is in a window (updatePaintingState, applyFullscreenSurface and
   effectiveZoomFactor of main.cjs). *)
THEOREM FloatsKeepFitting ==
  /\ FloatSpec => [](OneViewerPerFloat /\ ShrinkIsMadeUpFor /\ FullscreenIsFullSize)
  /\ MCEngineSpec => []FloatsFit
<1>1. FloatInv /\ [FloatNext]_floatVars => FloatInv'
  BY FloatsStep
<1>2. FloatInit => FloatInv
  BY FloatStarts
<1>3. FloatInv => OneViewerPerFloat /\ ShrinkIsMadeUpFor /\ FullscreenIsFullSize
  BY FloatsSay
<1>4. FloatSpec => [](OneViewerPerFloat /\ ShrinkIsMadeUpFor /\ FullscreenIsFullSize)
  BY <1>1, <1>2, <1>3, PTL DEF FloatSpec
<1>5. MCEngineSpec => []FloatsFit
  <2>1. MCEngineInit => FloatInv
    BY <1>2 DEF MCEngineInit
  <2>2. [MCEngineNext]_<<pagesVars, inputVars, outputVars, part>> => [FloatNext]_floatVars
    BY FloatInEngine
  <2>3. FloatInv => FloatsFit
    BY <1>3 DEF FloatsFit
  <2> QED BY <1>1, <2>1, <2>2, <2>3, PTL DEF MCEngineSpec
<1> QED BY <1>4, <1>5

(* A step of the engine is a step of the socket, or leaves it alone. *)
LEMMA SocketInEngine ==
  ASSUME [MCEngineNext]_<<pagesVars, inputVars, outputVars, part>>
  PROVE  [SocketNext]_socketVars
BY DEF MCEngineNext, outputVars

(* What the frames a pane has on their way, and the socket its agents come by, are safe from. An escape
   names what is there, and the terminal finds in an object the pixels the escape was written for, in the
   file those or later ones, through resizes, detaches, failed writes and kills, for every ring and every
   lag of the terminal: but for names of the ring that were handed out again before the terminal had read
   an escape that says them (nextShmFrameName, nextShmPatchName, writeFrameFile of main.cjs and
   gfx-worker.cjs). What an engine leaves in shared memory has a marker, unless it is killed between
   before-quit and its exit (markShmPane, cleanupShmFrames). And the newest engine of a pane is the one its
   agents reach, whenever its predecessors start, exit and die, unless it took the name between two system
   calls of another about it (startAgentServer, clearOwnedSocket). *)
THEOREM FilesStayFound ==
  /\ StoreSpec => [](NamedIsThere /\ PixelsAreItsOwn /\ LeftIsFindable)
  /\ SocketSpec => []NewestIsReached
  /\ MCEngineSpec => []FilesOutlive
<1>1. FilesInv /\ [StoreNext]_storeVars => FilesInv'
  BY FilesStep
<1>2. StoreInit => FilesInv
  BY FilesStart
<1>3. FilesInv => NamedIsThere /\ PixelsAreItsOwn /\ LeftIsFindable
  BY FilesSay
<1>4. /\ SocketInit => SocketInv
      /\ SocketInv /\ [SocketNext]_socketVars => SocketInv'
      /\ SocketInv => NewestIsReached
  BY SocketStarts, SocketStep, SocketSays
<1>5. StoreSpec => [](NamedIsThere /\ PixelsAreItsOwn /\ LeftIsFindable)
  BY <1>1, <1>2, <1>3, PTL DEF StoreSpec
<1>6. SocketSpec => []NewestIsReached
  BY <1>4, PTL DEF SocketSpec
<1>7. MCEngineSpec => []FilesOutlive
  <2>1. MCEngineInit => FilesInv /\ SocketInv
    BY <1>2, <1>4 DEF MCEngineInit, StoreBegins
  <2>2. [MCEngineNext]_<<pagesVars, inputVars, outputVars, part>> => [StoreNext]_storeVars /\ [SocketNext]_socketVars
    BY StoreInEngine, SocketInEngine
  <2>3. FilesInv /\ SocketInv => FilesOutlive
    BY <1>3, <1>4 DEF FilesOutlive
  <2> QED BY <1>1, <1>4, <2>1, <2>2, <2>3, PTL DEF MCEngineSpec
<1> QED BY <1>5, <1>6, <1>7
=============================================================================
