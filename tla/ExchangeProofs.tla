--------------------------- MODULE ExchangeProofs ---------------------------
(* Lemmas about what passes between an engine and those outside it: the events that wait for the page, *)
(* the wheel, the mode keys are read in and the place of the pointer; the files and objects its frames *)
(* wait in for the terminal, and the socket its agents come by.                                        *)
EXTENDS InputModes, NativePointer, NativeWheel, ChromeInput, FrameStore, AgentSocket, SequenceTheorems,
        FiniteSetTheorems, TLAPS

(* Of two events on their way to the page: what comes behind a pointer event was not called before it, *)
(* and a text is typed once.                                                                            *)
Follows(x, y) == (y.kind \in Pointer => x.n < y.n) /\ (x.text # 0 => x.text # y.text)

InOrder(s) == \A i, j \in 1 .. Len(s) : i < j => Follows(s[i], s[j])
AllFollow(s, t) == \A i \in 1 .. Len(s), j \in 1 .. Len(t) : Follows(s[i], t[j])

QueueEvents == [n : Nat, kind : {"key", "keyUp", "text"} \cup Pointer, text : Nat]
Arrivals == [n : Nat, kind : {"key", "keyUp", "text"} \cup Pointer, text : Nat, right : BOOLEAN]

(* An event has the number of a call that was made, and a key's text that of a later one.              *)
Made(x, calls) ==
  /\ x.n \in 1 .. calls /\ x.text \in 0 .. calls
  /\ x.text # 0 /\ x.kind = "key" => x.n < x.text

(* A key that waits for its text.                                                                      *)
Waits(key, calls) ==
  \/ key = NoEvent
  \/ key \in QueueEvents /\ key.n \in 1 .. calls /\ key.kind = "key" /\ key.text = 0

QueueInv ==
  /\ callsMade \in Nat /\ Waits(pendingDown, callsMade)
  /\ inputQueue \in Seq(QueueEvents) /\ arrived \in Seq(Arrivals)
  /\ \A i \in 1 .. Len(inputQueue) : Made(inputQueue[i], callsMade)
  /\ \A i \in 1 .. Len(arrived) : Made(arrived[i], callsMade) /\ (arrived[i].kind = "press" => arrived[i].right)
  /\ InOrder(arrived) /\ InOrder(inputQueue) /\ AllFollow(arrived, inputQueue)
  /\ probeStep # "none" => inputQueue # <<>>

(* What is called last comes behind what waits, and behind what arrived. *)
LEMMA EventsAppended ==
  ASSUME NEW S, NEW T, NEW a \in Seq(S), NEW q \in Seq(T), NEW es \in Seq(T), InOrder(q), InOrder(es), AllFollow(q, es),
         AllFollow(a, q), AllFollow(a, es)
  PROVE  InOrder(q \o es) /\ AllFollow(a, q \o es)
<1> DEFINE m == Len(q)
           k == Len(es)
<1>1. /\ Len(q \o es) = m + k /\ m \in Nat /\ k \in Nat
      /\ \A i \in 1 .. m : (q \o es)[i] = q[i]
      /\ \A i \in 1 .. m + k : i > m => (q \o es)[i] = es[i - m]
  OBVIOUS
<1>a. /\ \A i, j \in 1 .. m : i < j => Follows(q[i], q[j])
      /\ \A i, j \in 1 .. k : i < j => Follows(es[i], es[j])
      /\ \A i \in 1 .. m, j \in 1 .. k : Follows(q[i], es[j])
      /\ \A i \in 1 .. Len(a), j \in 1 .. m : Follows(a[i], q[j])
      /\ \A i \in 1 .. Len(a), j \in 1 .. k : Follows(a[i], es[j])
  BY DEF InOrder, AllFollow
<1> HIDE DEF m, k
<1>2. ASSUME NEW i \in 1 .. m + k
      PROVE  i \in 1 .. m \/ (i > m /\ i - m \in 1 .. k)
  BY <1>1
<1>3. ASSUME NEW i \in 1 .. m + k, NEW j \in 1 .. m + k, i < j
      PROVE  Follows((q \o es)[i], (q \o es)[j])
  <2>1. CASE j \in 1 .. m
    <3>1. i \in 1 .. m
      BY <1>1, <1>3, <2>1
    <3> QED BY <1>1, <1>3, <1>a, <2>1, <3>1
  <2>2. CASE i \in 1 .. m /\ j > m
    BY <1>1, <1>2, <1>3, <1>a, <2>2
  <2>3. CASE i > m /\ j > m
    <3>1. i - m \in 1 .. k /\ j - m \in 1 .. k /\ i - m < j - m
      BY <1>1, <1>3, <2>3
    <3> QED BY <1>1, <1>3, <1>a, <2>3, <3>1
  <2> QED BY <1>1, <1>2, <1>3, <2>1, <2>2, <2>3
<1>4. ASSUME NEW i \in 1 .. Len(a), NEW j \in 1 .. m + k
      PROVE  Follows(a[i], (q \o es)[j])
  BY <1>1, <1>2, <1>4, <1>a
<1> QED BY <1>1, <1>3, <1>4 DEF InOrder, AllFollow

(* A call that puts events in the queue: they are of this call, or of its key. *)
LEMMA QueueGrows ==
  ASSUME QueueInv, NEW es \in Seq(QueueEvents), inputQueue' = inputQueue \o es,
         arrived' = arrived, probeStep' = probeStep, callsMade' \in {callsMade, callsMade + 1},
         Waits(pendingDown', callsMade'), InOrder(es),
         \A j \in 1 .. Len(es) : /\ Made(es[j], callsMade')
                                 /\ es[j].kind \in Pointer => es[j].n > callsMade
                                 /\ es[j].text # 0 => es[j].text > callsMade
  PROVE  QueueInv'
<1>1. callsMade \in Nat /\ callsMade' \in Nat /\ callsMade <= callsMade'
  BY DEF QueueInv
<1>2. inputQueue \in Seq(QueueEvents) /\ arrived \in Seq(Arrivals)
  BY DEF QueueInv
<1>3. \A x : Made(x, callsMade) => Made(x, callsMade')
  BY <1>1 DEF Made
<1>4. AllFollow(inputQueue, es) /\ AllFollow(arrived, es)
  <2>1. ASSUME NEW x, Made(x, callsMade), NEW j \in 1 .. Len(es)
        PROVE  Follows(x, es[j])
    <3>1. es[j].n \in Nat /\ es[j].text \in Nat
      <4>1. es[j] \in QueueEvents
        OBVIOUS
      <4> QED BY <4>1 DEF QueueEvents
    <3>a. x.n \in 1 .. callsMade /\ x.text \in 0 .. callsMade
      BY <2>1 DEF Made
    <3>b. es[j].kind \in Pointer => es[j].n > callsMade
      OBVIOUS
    <3>c. es[j].text # 0 => es[j].text > callsMade
      OBVIOUS
    <3>2. es[j].kind \in Pointer => x.n < es[j].n
      BY <1>1, <3>1, <3>a, <3>b
    <3>3. x.text # 0 => x.text # es[j].text
      BY <1>1, <3>1, <3>a, <3>c
    <3> QED BY <3>2, <3>3 DEF Follows
  <2> QED BY <2>1 DEF QueueInv, AllFollow
<1>5. InOrder(inputQueue \o es) /\ AllFollow(arrived, inputQueue \o es)
  BY <1>2, <1>4, EventsAppended DEF QueueInv
<1>6. inputQueue' \in Seq(QueueEvents) /\ (inputQueue # <<>> => inputQueue' # <<>>)
  BY <1>2
<1>7. ASSUME NEW i \in 1 .. Len(inputQueue') PROVE Made(inputQueue'[i], callsMade')
  <2>1. CASE i \in 1 .. Len(inputQueue)
    <3>1. inputQueue'[i] = inputQueue[i]
      BY <1>2, <2>1
    <3> QED BY <1>3, <2>1, <3>1 DEF QueueInv
  <2>2. CASE i \notin 1 .. Len(inputQueue)
    <3>1. i - Len(inputQueue) \in 1 .. Len(es) /\ inputQueue'[i] = es[i - Len(inputQueue)]
      BY <1>2, <1>7, <2>2
    <3> QED BY <3>1
  <2> QED BY <2>1, <2>2
<1> QED BY <1>1, <1>2, <1>3, <1>5, <1>6, <1>7 DEF QueueInv

(* The first of the queue arrives. *)
LEMMA HeadArrives ==
  ASSUME QueueInv, inputQueue # <<>>, NEW e \in Arrivals,
         e.n = Head(inputQueue).n, e.kind = Head(inputQueue).kind, e.text = Head(inputQueue).text,
         e.kind = "press" => e.right, arrived' = Append(arrived, e), inputQueue' = Tail(inputQueue),
         probeStep' = "none", callsMade' = callsMade, pendingDown' = pendingDown
  PROVE  QueueInv'
<1> DEFINE k == Len(arrived)
           m == Len(inputQueue)
<1>1. inputQueue \in Seq(QueueEvents) /\ arrived \in Seq(Arrivals) /\ m \in Nat \ {0} /\ k \in Nat
  BY DEF QueueInv
<1>2. /\ inputQueue' \in Seq(QueueEvents) /\ Len(inputQueue') = m - 1 /\ Head(inputQueue) = inputQueue[1]
      /\ \A i \in 1 .. m - 1 : inputQueue'[i] = inputQueue[i + 1]
  BY <1>1
<1>3. /\ arrived' \in Seq(Arrivals) /\ Len(arrived') = k + 1 /\ arrived'[k + 1] = e
      /\ \A i \in 1 .. k : arrived'[i] = arrived[i]
  BY <1>1
<1>4. /\ \A i, j \in 1 .. k : i < j => Follows(arrived[i], arrived[j])
      /\ \A i, j \in 1 .. m : i < j => Follows(inputQueue[i], inputQueue[j])
      /\ \A i \in 1 .. k, j \in 1 .. m : Follows(arrived[i], inputQueue[j])
  BY DEF QueueInv, InOrder, AllFollow
<1>5. /\ \A i \in 1 .. m : Made(inputQueue[i], callsMade)
      /\ \A i \in 1 .. k : Made(arrived[i], callsMade) /\ (arrived[i].kind = "press" => arrived[i].right)
  BY DEF QueueInv
<1>6. /\ Made(e, callsMade)
      /\ \A x : Follows(x, inputQueue[1]) => Follows(x, e)
      /\ \A x : Follows(inputQueue[1], x) => Follows(e, x)
  BY <1>1, <1>2, <1>5 DEF Made, Follows
<1> HIDE DEF k, m
<1>7. \A i \in 1 .. k + 1 : i \in 1 .. k \/ i = k + 1
  BY <1>1
<1>8. \A i \in 1 .. m - 1 : i + 1 \in 1 .. m /\ 1 < i + 1 /\ 1 \in 1 .. m
  BY <1>1
<1>9. InOrder(arrived')
  <2>1. ASSUME NEW i \in 1 .. k + 1, NEW j \in 1 .. k + 1, i < j PROVE Follows(arrived'[i], arrived'[j])
    <3>1. i \in 1 .. k
      BY <1>1, <2>1
    <3>2. arrived'[i] = arrived[i] /\ Follows(arrived[i], e)
      <4>1. 1 \in 1 .. m
        BY <1>1
      <4> QED BY <1>3, <1>4, <1>6, <3>1, <4>1
    <3>3. CASE j \in 1 .. k
      BY <1>3, <1>4, <2>1, <3>1, <3>2, <3>3
    <3>4. CASE j = k + 1
      BY <1>3, <3>2, <3>4
    <3> QED BY <1>7, <3>3, <3>4
  <2> QED BY <1>3, <2>1 DEF InOrder
<1>10. InOrder(inputQueue')
  <2>1. ASSUME NEW i \in 1 .. m - 1, NEW j \in 1 .. m - 1, i < j
        PROVE  Follows(inputQueue'[i], inputQueue'[j])
    <3>1. i + 1 < j + 1
      BY <2>1
    <3> QED BY <1>2, <1>4, <1>8, <3>1
  <2> QED BY <1>2, <2>1 DEF InOrder
<1>11. AllFollow(arrived', inputQueue')
  <2>1. ASSUME NEW i \in 1 .. k + 1, NEW j \in 1 .. m - 1 PROVE Follows(arrived'[i], inputQueue'[j])
    BY <1>2, <1>3, <1>4, <1>6, <1>7, <1>8
  <2> QED BY <1>2, <1>3, <2>1 DEF AllFollow
<1>12. \A i \in 1 .. k + 1 : /\ Made(arrived'[i], callsMade')
                             /\ arrived'[i].kind = "press" => arrived'[i].right
  BY <1>3, <1>5, <1>6, <1>7
<1>13. \A i \in 1 .. m - 1 : Made(inputQueue'[i], callsMade')
  BY <1>2, <1>5, <1>8
<1>14. callsMade' \in Nat /\ Waits(pendingDown', callsMade') /\ probeStep' = "none"
  BY DEF QueueInv
<1>15. \A i \in 1 .. Len(inputQueue') : Made(inputQueue'[i], callsMade')
  BY <1>2, <1>13
<1>16. \A i \in 1 .. Len(arrived') : /\ Made(arrived'[i], callsMade')
                                     /\ arrived'[i].kind = "press" => arrived'[i].right
  <2> SUFFICES ASSUME NEW i \in 1 .. Len(arrived')
               PROVE  Made(arrived'[i], callsMade') /\ (arrived'[i].kind = "press" => arrived'[i].right)
    OBVIOUS
  <2>1. i \in 1 .. k + 1
    BY <1>3
  <2> QED BY <1>12, <2>1
<1> QED BY <1>2, <1>3, <1>9, <1>10, <1>11, <1>14, <1>15, <1>16 DEF QueueInv

(* One event is in order, *)
LEMMA OneEvent ==
  ASSUME NEW e \in QueueEvents
  PROVE  <<e>> \in Seq(QueueEvents) /\ Len(<<e>>) = 1 /\ <<e>>[1] = e /\ InOrder(<<e>>)
BY DEF InOrder

(* and so is none, *)
LEMMA NoEvents == <<>> \in Seq(QueueEvents) /\ Len(<<>>) = 0 /\ InOrder(<<>>)
BY DEF InOrder

(* and two are if the second may follow the first: a key and the text that came with it. *)
LEMMA TwoEvents ==
  ASSUME NEW x \in QueueEvents, NEW y \in QueueEvents, Follows(x, y), NEW es, es = <<x>> \o <<y>>
  PROVE  es \in Seq(QueueEvents) /\ InOrder(es) /\ \A j \in 1 .. Len(es) : es[j] \in {x, y}
<1>1. /\ <<x>> \in Seq(QueueEvents) /\ Len(<<x>>) = 1 /\ <<x>>[1] = x
      /\ <<y>> \in Seq(QueueEvents) /\ Len(<<y>>) = 1 /\ <<y>>[1] = y
  BY OneEvent
<1> DEFINE a == <<x>>
           b == <<y>>
<1> HIDE DEF a, b
<1>2. /\ es \in Seq(QueueEvents) /\ Len(es) = 2 /\ es[1] = x /\ es[2] = y
  <2>1. a \in Seq(QueueEvents) /\ Len(a) = 1 /\ a[1] = x /\ b \in Seq(QueueEvents) /\ Len(b) = 1 /\ b[1] = y /\ es = a \o b
    BY <1>1 DEF a, b
  <2>2. Len(a \o b) = 2 /\ a \o b \in Seq(QueueEvents) /\ 1 \in 1 .. Len(a) + Len(b) /\ 2 \in 1 .. Len(a) + Len(b)
    BY <2>1
  <2>3. (a \o b)[1] = IF 1 <= Len(a) THEN a[1] ELSE b[1 - Len(a)]
    BY <2>1, <2>2, ConcatProperties
  <2>4. (a \o b)[2] = IF 2 <= Len(a) THEN a[2] ELSE b[2 - Len(a)]
    BY <2>1, <2>2, ConcatProperties
  <2>5. (a \o b)[1] = x
    BY <2>1, <2>3
  <2>6. (a \o b)[2] = y
    <3>1. 2 - Len(a) = 1 /\ ~(2 <= Len(a))
      BY <2>1
    <3> QED BY <2>1, <2>4, <3>1
  <2> HIDE DEF a, b
  <2>7. es = a \o b
    BY <2>1
  <2> QED BY <2>2, <2>5, <2>6, <2>7, Zenon
<1>3. \A j \in 1 .. 2 : j = 1 \/ j = 2
  OBVIOUS
<1>4. ASSUME NEW i \in 1 .. 2, NEW j \in 1 .. 2, i < j PROVE Follows(es[i], es[j])
  <2>1. i = 1 /\ j = 2
    BY <1>3, <1>4
  <2> QED BY <1>2, <2>1
<1>5. InOrder(es)
  BY <1>2, <1>4 DEF InOrder
<1>6. \A j \in 1 .. 2 : es[j] \in {x, y}
  BY <1>2, <1>3
<1> QED BY <1>2, <1>5, <1>6

(* A call that puts one event in the queue, *)
LEMMA OneGrows ==
  ASSUME QueueInv, NEW e \in QueueEvents, inputQueue' = inputQueue \o <<e>>,
         arrived' = arrived, probeStep' = probeStep, callsMade' \in {callsMade, callsMade + 1},
         Waits(pendingDown', callsMade'), Made(e, callsMade'), e.kind \in Pointer => e.n > callsMade,
         e.text # 0 => e.text > callsMade
  PROVE  QueueInv'
<1> DEFINE es == <<e>>
<1>1. es \in Seq(QueueEvents) /\ InOrder(es) /\ inputQueue' = inputQueue \o es
  BY OneEvent
<1>2. \A j \in 1 .. Len(es) : es[j] = e
  OBVIOUS
<1> HIDE DEF es
<1>3. \A j \in 1 .. Len(es) : /\ Made(es[j], callsMade')
                              /\ es[j].kind \in Pointer => es[j].n > callsMade
                              /\ es[j].text # 0 => es[j].text > callsMade
  BY <1>2
<1> QED BY <1>1, <1>3, QueueGrows

(* and one that puts none there: a key that waits for its text. *)
LEMMA NoneGrows ==
  ASSUME QueueInv, inputQueue' = inputQueue, arrived' = arrived, probeStep' = probeStep,
         callsMade' \in {callsMade, callsMade + 1}, Waits(pendingDown', callsMade')
  PROVE  QueueInv'
<1> DEFINE es == <<>>
<1>1. es \in Seq(QueueEvents) /\ InOrder(es) /\ inputQueue' = inputQueue \o es /\ Len(es) = 0
  BY NoEvents DEF QueueInv
<1> HIDE DEF es
<1>2. \A j \in 1 .. Len(es) : /\ Made(es[j], callsMade')
                              /\ es[j].kind \in Pointer => es[j].n > callsMade
                              /\ es[j].text # 0 => es[j].text > callsMade
  BY <1>1
<1>3. inputQueue' = inputQueue \o es
  BY <1>1
<1> QED BY <1>1, <1>2, <1>3, QueueGrows

(* Each step of the dispatcher keeps the invariant. *)
LEMMA QueueStep ==
  ASSUME QueueInv, [ChromeInputNext]_chromeInputVars
  PROVE  QueueInv'
<1> USE DEF QueueInv
<1>0. callsMade \in Nat /\ callsMade + 1 \in Nat /\ inputQueue \in Seq(QueueEvents) /\ arrived \in Seq(Arrivals)
  OBVIOUS
<1>n. Waits(NoEvent, callsMade) /\ Waits(NoEvent, callsMade + 1)
  BY DEF Waits
<1> DEFINE new == callsMade + 1
<1>k. pendingDown # NoEvent =>
        /\ InputEvent(pendingDown.n, "key", 0) \in QueueEvents
        /\ InputEvent(pendingDown.n, "key", new) \in QueueEvents
        /\ pendingDown.n \in 1 .. callsMade
  BY <1>0 DEF Waits, InputEvent, QueueEvents
<1>1. ASSUME NEW kind \in {"keyDown", "char", "keyUp"}, PushKey(kind) PROVE QueueInv'
  <2>0. callsMade' = new /\ arrived' = arrived /\ probeStep' = probeStep
    BY <1>1 DEF PushKey
  <2>1. CASE kind = "char"
    <3> DEFINE es == FoldsChar(pendingDown, new)
    <3>1. inputQueue' = inputQueue \o es /\ pendingDown' = NoEvent
      BY <1>1, <2>1 DEF PushKey, Queued
    <3>2. PICK e \in QueueEvents : /\ es = <<e>> /\ e.kind \in {"key", "text"} /\ e.text = new
                              /\ e.n \in 1 .. new /\ (e.kind = "key" => e.n < new)
      <4>1. CASE pendingDown = NoEvent
        <5> DEFINE e == InputEvent(new, "text", new)
        <5>1. es = <<e>>
          BY <4>1 DEF FoldsChar
        <5>2. /\ e \in QueueEvents /\ e.kind = "text" /\ e.text = new /\ e.n \in 1 .. new
          BY <1>0 DEF InputEvent, QueueEvents
        <5> HIDE DEF es, e
        <5> QED BY <5>1, <5>2
      <4>2. CASE pendingDown # NoEvent
        BY <1>0, <1>k, <4>2 DEF FoldsChar, InputEvent
      <4> QED BY <4>1, <4>2
    <3>3. Made(e, new) /\ e.kind \notin Pointer /\ e.text > callsMade
      BY <1>0, <3>2 DEF Made, Pointer
    <3>4. inputQueue' = inputQueue \o <<e>> /\ (e.text # 0 => e.text > callsMade)
      BY <3>1, <3>2, <3>3
    <3> HIDE DEF es
    <3> QED BY <1>0, <1>n, <2>0, <3>1, <3>2, <3>3, <3>4, OneGrows
  <2>2. CASE kind = "keyDown"
    <3>1. /\ inputQueue' = inputQueue \o Flushed(pendingDown)
          /\ pendingDown' = InputEvent(new, "key", 0)
      BY <1>1, <2>2 DEF PushKey, Queued
    <3>2. Waits(pendingDown', new)
      BY <1>0, <3>1 DEF Waits, InputEvent, QueueEvents
    <3>3. CASE pendingDown = NoEvent
      <4>1. inputQueue' = inputQueue
        BY <1>0, <3>1, <3>3 DEF Flushed
      <4> QED BY <2>0, <3>2, <4>1, NoneGrows
    <3>4. CASE pendingDown # NoEvent
      <4> DEFINE e == InputEvent(pendingDown.n, "key", 0)
      <4>1. Flushed(pendingDown) = <<e>>
        BY <3>4 DEF Flushed
      <4>2. e \in QueueEvents /\ Made(e, new) /\ e.kind \notin Pointer /\ e.text = 0
        BY <1>0, <1>k, <3>4 DEF Made, Pointer, InputEvent
      <4>3. inputQueue' = inputQueue \o <<e>>
        BY <3>1, <4>1
      <4> HIDE DEF e
      <4> QED BY <2>0, <3>2, <4>2, <4>3, OneGrows
    <3> QED BY <3>3, <3>4
  <2>3. CASE kind = "keyUp"
    <3> DEFINE up == InputEvent(new, "keyUp", 0)
    <3>1. inputQueue' = inputQueue \o (Flushed(pendingDown) \o <<up>>) /\ pendingDown' = NoEvent
      BY <1>1, <2>3 DEF PushKey, Queued
    <3>2. up \in QueueEvents /\ Made(up, new) /\ up.kind \notin Pointer /\ up.text = 0
      BY <1>0 DEF Made, Pointer, InputEvent, QueueEvents
    <3>3. CASE pendingDown = NoEvent
      <4> HIDE DEF up
      <4>1. Flushed(pendingDown) \o <<up>> = <<up>>
        BY <3>2, <3>3 DEF Flushed
      <4>2. inputQueue' = inputQueue \o <<up>>
        BY <3>1, <4>1
      <4> QED BY <1>n, <2>0, <3>1, <3>2, <4>2, OneGrows
    <3>4. CASE pendingDown # NoEvent
      <4> DEFINE e == InputEvent(pendingDown.n, "key", 0)
      <4>1. e \in QueueEvents /\ Made(e, new) /\ e.kind \notin Pointer /\ e.text = 0
        BY <1>0, <1>k, <3>4 DEF Made, Pointer, InputEvent
      <4>2. Flushed(pendingDown) = <<e>>
        BY <3>4 DEF Flushed
      <4> HIDE DEF up, e
      <4> DEFINE es == <<e>> \o <<up>>
      <4>3. Follows(e, up)
        BY <3>2, <4>1 DEF Follows
      <4>8. es \in Seq(QueueEvents) /\ InOrder(es) /\ inputQueue' = inputQueue \o es
        BY <3>1, <3>2, <4>1, <4>2, <4>3, TwoEvents
      <4>9. \A j \in 1 .. Len(es) : es[j] \in {e, up}
        BY <3>2, <4>1, <4>3, TwoEvents
      <4> HIDE DEF es
      <4>10. \A j \in 1 .. Len(es) : /\ Made(es[j], callsMade')
                                     /\ es[j].kind \in Pointer => es[j].n > callsMade
                                     /\ es[j].text # 0 => es[j].text > callsMade
        BY <2>0, <3>2, <4>1, <4>9
      <4> QED BY <1>n, <2>0, <3>1, <4>8, <4>10, QueueGrows
    <3> QED BY <3>3, <3>4
  <2> QED BY <1>1, <2>1, <2>2, <2>3
<1>2. CASE FlushKeys
  <2>1. /\ inputQueue' = inputQueue \o Flushed(pendingDown) /\ pendingDown' = NoEvent
        /\ UNCHANGED <<callsMade, arrived, probeStep>>
    BY <1>2 DEF FlushKeys, Queued
  <2>2. CASE pendingDown = NoEvent
    <3>1. inputQueue' = inputQueue
      BY <1>0, <2>1, <2>2 DEF Flushed
    <3> QED BY <1>n, <2>1, <3>1, NoneGrows
  <2>3. CASE pendingDown # NoEvent
    <3> DEFINE e == InputEvent(pendingDown.n, "key", 0)
    <3>1. Flushed(pendingDown) = <<e>>
      BY <2>3 DEF Flushed
    <3>2. e \in QueueEvents /\ Made(e, callsMade) /\ e.kind \notin Pointer /\ e.text = 0
      BY <1>0, <1>k, <2>3 DEF Made, Pointer, InputEvent
    <3>3. inputQueue' = inputQueue \o <<e>>
      BY <2>1, <3>1
    <3> HIDE DEF e
    <3> QED BY <1>n, <2>1, <3>2, <3>3, OneGrows
  <2> QED BY <2>2, <2>3
<1>3. ASSUME NEW kind \in Pointer, DragMoves(kind) PROVE QueueInv'
  <2> DEFINE e == InputEvent(new, kind, 0)
  <2>1. /\ inputQueue' = Append(inputQueue, e) /\ callsMade' = new
        /\ UNCHANGED <<pendingDown, arrived, probeStep>>
    BY <1>3 DEF DragMoves, SendMouse
  <2>2. e \in QueueEvents /\ Made(e, new) /\ e.n = new /\ e.text = 0
    BY <1>0 DEF Made, InputEvent, QueueEvents
  <2> HIDE DEF e
  <2>3. Append(inputQueue, e) = inputQueue \o <<e>>
    BY <1>0, <2>2
  <2>4. Waits(pendingDown, new)
    BY <1>0 DEF Waits
  <2>5. inputQueue' = inputQueue \o <<e>> /\ e.n > callsMade
    BY <1>0, <2>1, <2>2, <2>3
  <2> QED BY <1>0, <2>1, <2>2, <2>4, <2>5, OneGrows
<1>4. CASE SendHead
  <2> DEFINE h == Head(inputQueue)
             e == [n |-> h.n, kind |-> h.kind, text |-> h.text,
                   right |-> h.kind \notin Pointer \/ inputScale \in {skew, 0}]
  <2>1. /\ inputQueue # <<>> /\ arrived' = Append(arrived, e) /\ inputQueue' = Tail(inputQueue)
        /\ probeStep' = "none" /\ UNCHANGED <<callsMade, pendingDown>>
        /\ h.kind \notin Pointer \/ ScaleWillDo(h)
    BY <1>4 DEF SendHead, Arrives
  <2>2. h \in QueueEvents
    BY <2>1
  <2>3. e \in Arrivals /\ e.n = h.n /\ e.kind = h.kind /\ e.text = h.text
        /\ (e.kind = "press" => e.right)
    BY <2>1, <2>2 DEF QueueEvents, Arrivals, ScaleWillDo
  <2> HIDE DEF e
  <2> QED BY <2>1, <2>3, HeadArrives
<1>5. ASSUME NEW missed \in BOOLEAN, ProbeEnds(missed) PROVE QueueInv'
  <2> DEFINE h == Head(inputQueue)
             e == [n |-> h.n, kind |-> h.kind, text |-> h.text,
                   right |-> h.kind \notin Pointer
                             \/ inputScale' \in {skew, IF missed THEN inputScale' ELSE probeSaw}]
  <2>1. /\ inputQueue # <<>> /\ arrived' = Append(arrived, e) /\ inputQueue' = Tail(inputQueue)
        /\ probeStep' = "none" /\ UNCHANGED <<callsMade, pendingDown>>
        /\ ~missed => inputScale' = probeSaw
    BY <1>5 DEF ProbeEnds, Arrives
  <2>2. h \in QueueEvents
    BY <2>1
  <2>3. e \in Arrivals /\ e.n = h.n /\ e.kind = h.kind /\ e.text = h.text
        /\ (e.kind = "press" => e.right)
    BY <2>1, <2>2 DEF QueueEvents, Arrivals
  <2> HIDE DEF e
  <2> QED BY <2>1, <2>3, HeadArrives
<1>6. CASE ProbeArms \/ ProbeMoves \/ SkewChanges \/ ScaleAges \/ InvalidateInputScale
  BY <1>6 DEF ProbeArms, ProbeMoves, SkewChanges, ScaleAges, InvalidateInputScale
<1>7. CASE UNCHANGED chromeInputVars
  BY <1>7 DEF chromeInputVars
<1> QED BY <1>1, <1>2, <1>3, <1>4, <1>5, <1>6, <1>7 DEF ChromeInputNext

(* It begins with a dispatcher that nobody has called, *)
LEMMA QueueStarts == ChromeInputInit => QueueInv
BY NoEvents DEF ChromeInputInit, QueueInv, Waits, InOrder, AllFollow

(* and says what the runs check. *)
LEMMA QueueSays == QueueInv => ClickThenType /\ TypedOnce /\ PressLandsTrue
<1> SUFFICES ASSUME QueueInv PROVE ClickThenType /\ TypedOnce /\ PressLandsTrue
  OBVIOUS
<1>1. /\ DOMAIN arrived = 1 .. Len(arrived) /\ Len(arrived) \in Nat
      /\ \A i \in 1 .. Len(arrived) : arrived[i] \in Arrivals
  BY DEF QueueInv
<1>2. \A i, j \in 1 .. Len(arrived) : i < j => Follows(arrived[i], arrived[j])
  BY DEF QueueInv, InOrder
<1>3. \A i \in 1 .. Len(arrived) :
        Made(arrived[i], callsMade) /\ (arrived[i].kind = "press" => arrived[i].right)
  BY DEF QueueInv
<1>4. \A i, j \in 1 .. Len(arrived) : i # j => i < j \/ j < i
  BY <1>1
<1>5. ClickThenType
  BY <1>1, <1>2 DEF ClickThenType, Follows
<1>6. TypedOnce
  BY <1>1, <1>2, <1>3, <1>4 DEF TypedOnce, Follows, Made
<1>7. PressLandsTrue
  BY <1>1, <1>3 DEF PressLandsTrue
<1> QED BY <1>5, <1>6, <1>7

-----------------------------------------------------------------------------
(* The wheel: every scroll is on its way from the device and from the terminal at once.                *)
Scroll == [dev : {"pad", "wheel", "deaf"}, precise : BOOLEAN, tab : WheelTabs, mixed : BOOLEAN]
OnItsWay == [n : Nat, age : Nat]
NumbersOf(s) == {s[i].n : i \in DOMAIN s}
EventsWaiting == NumbersOf(scrollEvents)
NotchesWaiting == NumbersOf(notches)
Waiting == EventsWaiting \cup NotchesWaiting \cup heldNotches
GivenNs == {g.n : g \in given}
Plain(n) == ~began[n].mixed
PlainPad(n) == Plain(n) /\ began[n].dev = "pad"
NamesOnce(s) == \A i, j \in DOMAIN s : s[i].n = s[j].n => i = j

WheelTyped ==
  /\ began \in Seq(Scroll) /\ wheelTab \in WheelTabs /\ placed \in WheelPlaces
  /\ scrollEvents \in Seq(OnItsWay) /\ notches \in Seq(OnItsWay)
  /\ preciseAgo \in 0..DropTicks + 1 /\ coarseAgo \in 0..DropTicks + 1
  /\ holdTimer \in -1..HoldTicks /\ silent \in Nat /\ flushes \in 0..2
  /\ Waiting \subseteq DOMAIN began /\ GivenNs \subseteq DOMAIN began /\ twice \subseteq DOMAIN began
  /\ \A g \in given : g.by \in {"native", "notch"}
NeverLate == \A s \in {scrollEvents, notches} : \A i \in DOMAIN s : s[i].age <= Skew
NamedOnce == NamesOnce(scrollEvents) /\ NamesOnce(notches) /\ heldNotches \cap NotchesWaiting = {}
HeardAsPlaced == \A n \in Waiting : Plain(n) =>
  /\ placed # "here" => began[n].dev = "deaf"
  /\ placed = "here" /\ n \in EventsWaiting => (began[n].precise <=> began[n].dev = "pad")
HoldIsTimed == heldNotches = {} <=> holdTimer = -1
PadHeardFirst == \A i \in DOMAIN notches :
  PlainPad(notches[i].n) /\ notches[i].n \notin EventsWaiting => preciseAgo <= notches[i].age
HeldPadsComing == \A n \in heldNotches : PlainPad(n) => n \in EventsWaiting
HoldIsYounger == (\E n \in heldNotches : PlainPad(n)) =>
  \E i \in DOMAIN scrollEvents : scrollEvents[i].n \in heldNotches /\ holdTimer <= scrollEvents[i].age
PlainAreAlone == \A n, k \in Waiting : Plain(n) => Plain(k) /\ began[k].dev = began[n].dev
PlainPads == \A n \in Waiting : PlainPad(n) => coarseAgo > DropTicks /\ silent = 0
PlainWheels == \A n \in Waiting :
  Plain(n) /\ began[n].dev # "pad" /\ placed # "unknown" => preciseAgo > DropTicks
PlainOnce == \A n \in DOMAIN began : Plain(n) =>
  /\ n \notin twice
  /\ began[n].dev = "pad" => (n \in EventsWaiting <=> n \notin GivenNs)
  /\ began[n].dev # "pad" => (n \in NotchesWaiting \cup heldNotches <=> n \notin GivenNs)
WheelInv == /\ WheelTyped /\ NeverLate /\ NamedOnce /\ HeardAsPlaced /\ HoldIsTimed /\ PadHeardFirst
 /\ HeldPadsComing /\ HoldIsYounger /\ PlainAreAlone /\ PlainPads /\ PlainWheels /\ PlainOnce

LEMMA EventComes ==
  ASSUME NEW s \in Seq(OnItsWay), NEW e \in OnItsWay
  PROVE  /\ Append(s, e) \in Seq(OnItsWay) /\ NumbersOf(Append(s, e)) = NumbersOf(s) \cup {e.n}
         /\ DOMAIN s = 1..Len(s) /\ DOMAIN Append(s, e) = 1..Len(s) + 1
         /\ \A i \in DOMAIN s : Append(s, e)[i] = s[i]
         /\ Append(s, e)[Len(s) + 1] = e
         /\ NamesOnce(s) /\ e.n \notin NumbersOf(s) => NamesOnce(Append(s, e))
<1>1. /\ Append(s, e) \in Seq(OnItsWay) /\ DOMAIN s = 1..Len(s) /\ DOMAIN Append(s, e) = 1..Len(s) + 1
      /\ \A i \in DOMAIN s : Append(s, e)[i] = s[i]
      /\ Append(s, e)[Len(s) + 1] = e
      /\ Len(s) \in Nat
  OBVIOUS
<1>2. NumbersOf(Append(s, e)) = NumbersOf(s) \cup {e.n}
  <2>1. ASSUME NEW i \in DOMAIN Append(s, e) PROVE Append(s, e)[i].n \in NumbersOf(s) \cup {e.n}
    BY <1>1 DEF NumbersOf
  <2>2. ASSUME NEW i \in DOMAIN s PROVE i \in DOMAIN Append(s, e) /\ Append(s, e)[i].n = s[i].n
    BY <1>1
  <2>3. Len(s) + 1 \in DOMAIN Append(s, e)
    BY <1>1
  <2> QED BY <2>1, <2>2, <2>3, <1>1 DEF NumbersOf
<1>3. ASSUME NamesOnce(s), e.n \notin NumbersOf(s) PROVE NamesOnce(Append(s, e))
  <2>1. \A i \in DOMAIN s : s[i].n # e.n
    BY <1>3 DEF NumbersOf
  <2> QED BY <2>1, <1>1, <1>3 DEF NamesOnce
<1> QED BY <1>1, <1>2, <1>3

LEMMA EventGoes ==
  ASSUME NEW s \in Seq(OnItsWay), s # <<>>
  PROVE  /\ Tail(s) \in Seq(OnItsWay) /\ Head(s) = s[1] /\ 1 \in DOMAIN s /\ Head(s).n \in NumbersOf(s)
         /\ \A i \in DOMAIN Tail(s) : i + 1 \in DOMAIN s /\ Tail(s)[i] = s[i + 1]
         /\ NumbersOf(s) = NumbersOf(Tail(s)) \cup {Head(s).n}
         /\ NamesOnce(s) => NamesOnce(Tail(s)) /\ Head(s).n \notin NumbersOf(Tail(s))
<1>1. /\ Tail(s) \in Seq(OnItsWay) /\ Head(s) = s[1] /\ 1 \in DOMAIN s /\ Len(s) \in Nat /\ DOMAIN s = 1..Len(s)
      /\ DOMAIN Tail(s) = 1..Len(s) - 1
      /\ \A i \in DOMAIN Tail(s) : i + 1 \in DOMAIN s /\ Tail(s)[i] = s[i + 1]
  OBVIOUS
<1>2. \A j \in DOMAIN s : j # 1 => j - 1 \in DOMAIN Tail(s) /\ Tail(s)[j - 1] = s[j]
  BY <1>1
<1>3. NumbersOf(s) = NumbersOf(Tail(s)) \cup {Head(s).n}
  <2>1. ASSUME NEW j \in DOMAIN s PROVE s[j].n \in NumbersOf(Tail(s)) \cup {Head(s).n}
    <3>1. CASE j = 1
      BY <3>1, <1>1
    <3>2. CASE j # 1
      BY <3>2, <1>2 DEF NumbersOf
    <3> QED BY <3>1, <3>2
  <2>2. ASSUME NEW i \in DOMAIN Tail(s) PROVE Tail(s)[i].n \in NumbersOf(s)
    BY <1>1 DEF NumbersOf
  <2> QED BY <2>1, <2>2, <1>1 DEF NumbersOf
<1>4. ASSUME NamesOnce(s) PROVE NamesOnce(Tail(s)) /\ Head(s).n \notin NumbersOf(Tail(s))
  <2>1. \A i \in DOMAIN Tail(s) : i + 1 # 1
    BY <1>1
  <2>2. \A i, j \in DOMAIN Tail(s) : i + 1 = j + 1 => i = j
    BY <1>1
  <2> QED BY <2>1, <2>2, <1>1, <1>4 DEF NamesOnce, NumbersOf
<1> QED BY <1>1, <1>3, <1>4

LEMMA EventsAge ==
  ASSUME NEW s \in Seq(OnItsWay)
  PROVE  /\ Later(s) \in Seq(OnItsWay) /\ DOMAIN Later(s) = DOMAIN s
         /\ \A i \in DOMAIN s : Later(s)[i].n = s[i].n /\ Later(s)[i].age = s[i].age + 1
         /\ NumbersOf(Later(s)) = NumbersOf(s) /\ NamesOnce(Later(s)) = NamesOnce(s)
<1>1. DOMAIN s = 1..Len(s) /\ Len(s) \in Nat /\ \A i \in DOMAIN s : s[i] \in OnItsWay
  OBVIOUS
<1>2. ASSUME NEW i \in DOMAIN s
      PROVE  Later(s)[i] \in OnItsWay /\ Later(s)[i].n = s[i].n /\ Later(s)[i].age = s[i].age + 1
  BY <1>1 DEF Later, OnItsWay
<1>3. DOMAIN Later(s) = DOMAIN s
  BY DEF Later
<1>4. Later(s) \in Seq(OnItsWay)
  <2>1. Later(s) = [i \in 1..Len(s) |-> Later(s)[i]]
    BY <1>1 DEF Later
  <2> QED BY <2>1, <1>1, <1>2
<1> QED BY <1>2, <1>3, <1>4 DEF NumbersOf, NamesOnce

LEMMA LesserOfTwo == ASSUME NEW a \in Int, NEW b \in Int PROVE Min({a, b}) = IF a <= b THEN a ELSE b
<1>1. PICK m \in {a, b} : \A y \in {a, b} : m <= y
  OBVIOUS
<1>2. Min({a, b}) \in {a, b} /\ \A y \in {a, b} : Min({a, b}) <= y
  BY <1>1 DEF Min
<1> QED BY <1>2

LEMMA GreaterOfTwo == ASSUME NEW a \in Int, NEW b \in Int PROVE Max({a, b}) = IF a >= b THEN a ELSE b
<1>1. PICK m \in {a, b} : \A y \in {a, b} : m >= y
  OBVIOUS
<1>2. Max({a, b}) \in {a, b} /\ \A y \in {a, b} : Max({a, b}) >= y
  BY <1>1 DEF Max
<1> QED BY <1>2

WheelBase == Skew < HoldTicks /\ Skew \in Nat
wheelIdle == <<placed, began, scrollEvents, notches, heldNotches, given, twice>>

LEMMA WheelStarts == WheelInit => WheelInv
<1> SUFFICES ASSUME WheelInit PROVE WheelInv
  OBVIOUS
<1> USE DEF WheelInit
<1>1. EventsWaiting = {} /\ NotchesWaiting = {} /\ GivenNs = {} /\ Waiting = {}
  BY DEF EventsWaiting, NotchesWaiting, GivenNs, Waiting, NumbersOf
<1>2. WheelTyped
  BY <1>1 DEF WheelTyped, DropTicks, HoldTicks
<1>3. NeverLate /\ NamedOnce
  BY <1>1 DEF NeverLate, NamedOnce, NamesOnce
<1>4. HeardAsPlaced /\ HoldIsTimed /\ PadHeardFirst /\ HeldPadsComing /\ HoldIsYounger
  BY <1>1 DEF HeardAsPlaced, HoldIsTimed, PadHeardFirst, HeldPadsComing, HoldIsYounger
<1>5. PlainAreAlone /\ PlainPads /\ PlainWheels /\ PlainOnce
  BY <1>1 DEF PlainAreAlone, PlainPads, PlainWheels, PlainOnce
<1> QED BY <1>2, <1>3, <1>4, <1>5 DEF WheelInv

LEMMA ScrollsStep ==
  ASSUME WheelInv, NEW dev \in {"pad", "wheel", "deaf"}, NEW what, Scrolls(dev, what), Skew \in Nat
  PROVE  WheelInv'
<1> USE DEF Plain, PlainPad
<1> DEFINE n == Len(began) + 1
           heard == IF placed = "here" THEN dev ELSE "deaf"
           others == {i \in Waiting : began[i].dev # heard \/ began[i].mixed}
           near == /\ placed # "unknown"
                   /\ IF heard = "pad" THEN coarseAgo <= DropTicks \/ silent > 0 ELSE preciseAgo <= DropTicks
           made == [dev |-> heard, precise |-> dev = "pad", tab |-> wheelTab, mixed |-> near \/ others # {}]
           note == [n |-> n, age |-> 0]
<1>1. /\ began' = [i \in 1..n |-> IF i = n THEN made ELSE [began[i] EXCEPT !.mixed = @ \/ i \in others]]
      /\ notches' = Append(notches, note)
      /\ scrollEvents' = IF dev = "deaf" THEN scrollEvents ELSE Append(scrollEvents, note)
      /\ UNCHANGED <<placed, preciseAgo, coarseAgo, heldNotches, holdTimer, flushes, silent, given, twice, wheelTab>>
  BY DEF Scrolls, ScrollsWaiting, Waiting, EventsWaiting, NotchesWaiting, NumbersOf
<1>2. WheelTyped /\ Len(began) \in Nat /\ DOMAIN began = 1..Len(began) /\ \A i \in DOMAIN began : began[i] \in Scroll
  BY DEF WheelInv, WheelTyped
<1>3. /\ note \in OnItsWay /\ note.n = n /\ note.age = 0 /\ n \notin DOMAIN began /\ n \in Nat
      /\ DOMAIN began \subseteq 1..n /\ 1..n = DOMAIN began \cup {n} /\ n \notin Waiting
  BY <1>2 DEF OnItsWay, WheelTyped
<1>4. /\ DOMAIN began' = 1..n /\ began'[n] = made
      /\ \A i \in DOMAIN began : began'[i] = [began[i] EXCEPT !.mixed = @ \/ i \in others]
  BY <1>1, <1>3
<1>5. \A i \in DOMAIN began : /\ began'[i] \in Scroll /\ began'[i].dev = began[i].dev
                              /\ began'[i].precise = began[i].precise
                              /\ began'[i].mixed = (began[i].mixed \/ i \in others)
  BY <1>4, <1>2 DEF Scroll
<1>6. /\ began'[n] \in Scroll /\ began'[n].dev = heard /\ began'[n].mixed = (near \/ others # {})
      /\ began'[n].precise = (dev = "pad")
  BY <1>4, <1>2 DEF Scroll, WheelTyped
<1>7. began' \in Seq(Scroll)
  <2>1. \A i \in 1..n : began'[i] \in Scroll
    BY <1>5, <1>6, <1>3
  <2>2. began' = [i \in 1..n |-> began'[i]]
    BY <1>1
  <2> QED BY <2>1, <2>2, <1>3
<1>h. /\ heard \in {"pad", "wheel", "deaf"} /\ (placed # "here" => heard = "deaf")
      /\ placed = "here" => heard = dev
  OBVIOUS
<1> HIDE DEF n, note, others, near, heard, made
<1>8. /\ notches' \in Seq(OnItsWay) /\ NotchesWaiting' = NotchesWaiting \cup {n}
      /\ NamesOnce(notches) /\ n \notin NotchesWaiting => NamesOnce(notches')
      /\ DOMAIN notches' = DOMAIN notches \cup {Len(notches) + 1}
      /\ \A i \in DOMAIN notches : notches'[i] = notches[i]
      /\ notches'[Len(notches) + 1] = note
  <2>1. notches \in Seq(OnItsWay) /\ Len(notches) \in Nat
    BY <1>2 DEF WheelTyped
  <2> QED BY <2>1, <1>1, <1>3, EventComes DEF NotchesWaiting
<1>9. /\ scrollEvents' \in Seq(OnItsWay)
      /\ EventsWaiting' = EventsWaiting \cup (IF dev = "deaf" THEN {} ELSE {n})
      /\ NamesOnce(scrollEvents) /\ n \notin EventsWaiting => NamesOnce(scrollEvents')
      /\ \A i \in DOMAIN scrollEvents : i \in DOMAIN scrollEvents' /\ scrollEvents'[i] = scrollEvents[i]
      /\ \A i \in DOMAIN scrollEvents' : i \notin DOMAIN scrollEvents => scrollEvents'[i] = note
  <2>1. scrollEvents \in Seq(OnItsWay) /\ Len(scrollEvents) \in Nat
    BY <1>2 DEF WheelTyped
  <2>2. CASE dev = "deaf"
    BY <2>1, <2>2, <1>1 DEF EventsWaiting
  <2>3. CASE dev # "deaf"
    BY <2>1, <2>3, <1>1, <1>3, EventComes DEF EventsWaiting
  <2> QED BY <2>2, <2>3
<1>10. /\ EventsWaiting \subseteq Waiting /\ NotchesWaiting \subseteq Waiting /\ heldNotches \subseteq Waiting
       /\ Waiting' = Waiting \cup {n} /\ GivenNs' = GivenNs /\ heldNotches' = heldNotches /\ twice' = twice
  BY <1>1, <1>8, <1>9 DEF Waiting, GivenNs
<1>11. /\ n \notin EventsWaiting /\ n \notin NotchesWaiting /\ n \notin heldNotches
       /\ Waiting \subseteq DOMAIN began /\ GivenNs \subseteq DOMAIN began /\ twice \subseteq DOMAIN began
  BY <1>3, <1>10, <1>2 DEF WheelTyped
<1>12. /\ \A i \in DOMAIN began : /\ began'[i].dev = began[i].dev /\ (began'[i].precise <=> began[i].precise)
                                 /\ (~began'[i].mixed <=> ~began[i].mixed /\ i \notin others)
       /\ began'[n].dev = heard /\ (began'[n].precise <=> dev = "pad") /\ (~began'[n].mixed <=> ~near /\ others = {})
  BY <1>5, <1>6
<1>13. WheelTyped'
  <2>1. Waiting' \subseteq DOMAIN began' /\ GivenNs' \subseteq DOMAIN began' /\ twice' \subseteq DOMAIN began'
    BY <1>3, <1>4, <1>10, <1>11
  <2> QED BY <2>1, <1>1, <1>2, <1>7, <1>8, <1>9 DEF WheelTyped
<1>14. NeverLate'
  BY <1>8, <1>9, <1>3 DEF WheelInv, NeverLate
<1>15. NamedOnce'
  BY <1>8, <1>9, <1>10, <1>11 DEF WheelInv, NamedOnce
<1>16. HeardAsPlaced'
  <2> SUFFICES ASSUME NEW k \in Waiting', ~began'[k].mixed
               PROVE  /\ placed # "here" => began'[k].dev = "deaf"
                      /\ placed = "here" /\ k \in EventsWaiting' => (began'[k].precise <=> began'[k].dev = "pad")
    BY <1>1 DEF HeardAsPlaced
  <2>1. CASE k = n
    BY <2>1, <1>12, <1>h
  <2>2. CASE k # n
    <3>1. k \in Waiting /\ (k \in EventsWaiting' => k \in EventsWaiting)
      BY <2>2, <1>9, <1>10
    <3> QED BY <3>1, <1>11, <1>12 DEF WheelInv, HeardAsPlaced
  <2> QED BY <2>1, <2>2
<1>17. HoldIsTimed' /\ HeldPadsComing'
  BY <1>1, <1>9, <1>10, <1>11, <1>12 DEF WheelInv, HoldIsTimed, HeldPadsComing
<1>18. PadHeardFirst'
  <2> SUFFICES ASSUME NEW i \in DOMAIN notches', ~began'[notches'[i].n].mixed, began'[notches'[i].n].dev = "pad",
                      notches'[i].n \notin EventsWaiting'
               PROVE  preciseAgo' <= notches'[i].age
    BY DEF PadHeardFirst
  <2>1. CASE i = Len(notches) + 1
    BY <2>1, <1>8, <1>9, <1>3, <1>12, <1>h
  <2>2. CASE i \in DOMAIN notches
    <3>1. notches'[i] = notches[i] /\ notches[i].n \in NotchesWaiting
      BY <2>2, <1>8 DEF NotchesWaiting, NumbersOf
    <3>2. PlainPad(notches[i].n) /\ notches[i].n \notin EventsWaiting
      BY <3>1, <1>9, <1>10, <1>11, <1>12
    <3> QED BY <2>2, <3>1, <3>2, <1>1 DEF WheelInv, PadHeardFirst
  <2> QED BY <2>1, <2>2, <1>8
<1>19. HoldIsYounger'
  <2> SUFFICES ASSUME NEW k \in heldNotches', PlainPad(k)'
               PROVE  \E i \in DOMAIN scrollEvents' :
                        scrollEvents'[i].n \in heldNotches' /\ holdTimer' <= scrollEvents'[i].age
    BY DEF HoldIsYounger
  <2>1. k \in heldNotches /\ PlainPad(k)
    BY <1>10, <1>11, <1>12
  <2>2. PICK i \in DOMAIN scrollEvents : scrollEvents[i].n \in heldNotches /\ holdTimer <= scrollEvents[i].age
    BY <2>1 DEF WheelInv, HoldIsYounger
  <2> QED BY <2>2, <1>9, <1>10, <1>1
<1>20. PlainAreAlone'
  <2>0. PlainAreAlone /\ PlainPads /\ PlainWheels /\ HeardAsPlaced
    BY DEF WheelInv
  <2> SUFFICES ASSUME NEW k \in Waiting', NEW j \in Waiting', ~began'[k].mixed
               PROVE  ~began'[j].mixed /\ began'[j].dev = began'[k].dev
    BY DEF PlainAreAlone
  <2>1. CASE k = n
    <3>1. others = {} /\ ~began'[n].mixed
      BY <2>1, <1>12
    <3>2. \A i \in Waiting : began[i].dev = heard /\ ~began[i].mixed
      BY <3>1 DEF others
    <3> QED BY <2>1, <3>1, <3>2, <1>10, <1>11, <1>12
  <2>2. CASE k # n
    <3>1. k \in Waiting /\ k \notin others /\ ~began[k].mixed /\ began'[k].dev = began[k].dev
      BY <2>2, <1>10, <1>11, <1>12
    <3>2. began[k].dev = heard
      BY <3>1 DEF others
    <3>3. \A i \in Waiting : ~began[i].mixed /\ began[i].dev = heard
      BY <2>0, <3>1, <3>2 DEF PlainAreAlone
    <3>4. others = {}
      BY <3>3 DEF others
    <3>5. ~near
      <4>1. preciseAgo \in Int /\ coarseAgo \in Int /\ silent \in Nat
        BY <1>2 DEF WheelTyped
      <4>2. CASE heard = "pad"
        <5>1. coarseAgo > DropTicks /\ silent = 0
          BY <4>2, <2>0, <3>1, <3>2 DEF PlainPads
        <5> QED BY <4>1, <4>2, <5>1 DEF near, DropTicks
      <4>3. CASE heard # "pad"
        <5>1. placed # "unknown" => preciseAgo > DropTicks
          BY <4>3, <2>0, <3>1, <3>2 DEF PlainWheels
        <5> QED BY <4>1, <4>3, <5>1 DEF near, DropTicks
      <4> QED BY <4>2, <4>3
    <3>6. CASE j = n
      BY <3>1, <3>2, <3>4, <3>5, <3>6, <1>12
    <3>7. CASE j # n
      BY <3>1, <3>2, <3>3, <3>4, <3>7, <1>10, <1>11, <1>12
    <3> QED BY <3>6, <3>7
  <2> QED BY <2>1, <2>2
<1>21. PlainPads' /\ PlainWheels'
  <2> SUFFICES ASSUME NEW k \in Waiting', ~began'[k].mixed
               PROVE  /\ began'[k].dev = "pad" => coarseAgo' > DropTicks /\ silent' = 0
                      /\ began'[k].dev # "pad" /\ placed # "unknown" => preciseAgo' > DropTicks
    BY <1>1 DEF PlainPads, PlainWheels
  <2>1. CASE k = n
    <3>1. ~near /\ preciseAgo \in Int /\ coarseAgo \in Int /\ silent \in Nat
      BY <2>1, <1>2, <1>12 DEF WheelTyped
    <3>2. CASE heard = "pad"
      <4>0. placed = "here"
        BY <1>h, <3>2
      <4>1. ~(coarseAgo <= DropTicks \/ silent > 0)
        BY <3>1, <3>2, <4>0 DEF near
      <4> QED BY <4>1, <3>1, <3>2, <2>1, <1>1, <1>12 DEF DropTicks
    <3>3. CASE heard # "pad"
      <4>1. placed # "unknown" => ~(preciseAgo <= DropTicks)
        BY <3>1, <3>3 DEF near
      <4> QED BY <4>1, <3>1, <3>3, <2>1, <1>1, <1>12 DEF DropTicks
    <3> QED BY <3>2, <3>3
  <2>2. CASE k # n
    <3>1. k \in Waiting
      BY <2>2, <1>10
    <3> QED BY <3>1, <1>1, <1>11, <1>12 DEF WheelInv, PlainPads, PlainWheels
  <2> QED BY <2>1, <2>2
<1>22. PlainOnce'
  <2> SUFFICES ASSUME NEW k \in DOMAIN began', ~began'[k].mixed
               PROVE  /\ k \notin twice'
                      /\ began'[k].dev = "pad" => (k \in EventsWaiting' <=> k \notin GivenNs')
                      /\ began'[k].dev # "pad" => (k \in NotchesWaiting' \cup heldNotches' <=> k \notin GivenNs')
    BY DEF PlainOnce
  <2>1. CASE k = n
    BY <2>1, <1>3, <1>8, <1>9, <1>10, <1>11, <1>12, <1>h
  <2>2. CASE k # n
    <3>1. k \in DOMAIN began
      BY <2>2, <1>3, <1>4
    <3>2. ~began[k].mixed /\ began'[k].dev = began[k].dev
      BY <3>1, <1>12
    <3>3. PlainOnce
      BY DEF WheelInv
    <3>4. /\ k \notin twice /\ (began[k].dev = "pad" => (k \in EventsWaiting <=> k \notin GivenNs))
          /\ began[k].dev # "pad" => (k \in NotchesWaiting \cup heldNotches <=> k \notin GivenNs)
      BY <3>1, <3>2, <3>3 DEF PlainOnce
    <3> QED BY <2>2, <3>2, <3>4, <1>8, <1>9, <1>10
  <2> QED BY <2>1, <2>2
<1> QED BY <1>13, <1>14, <1>15, <1>16, <1>17, <1>18, <1>19, <1>20, <1>21, <1>22 DEF WheelInv

LEMMA GivenGrow ==
  ASSUME NEW ns, NEW by \in {"native", "notch"}, Gives(ns, by), \A g \in given : g.by \in {"native", "notch"}
  PROVE  /\ GivenNs' = GivenNs \cup ns /\ twice' = twice \cup (ns \cap GivenNs)
         /\ \A g \in given' : g.by \in {"native", "notch"}
<1>1. /\ given' = given \cup {[n |-> k, by |-> by, tab |-> wheelTab] : k \in ns}
      /\ twice' = twice \cup {k \in ns : \E g \in given : g.n = k}
  BY DEF Gives
<1>2. GivenNs' = GivenNs \cup ns
  <2>1. \A k \in ns : [n |-> k, by |-> by, tab |-> wheelTab].n = k
    OBVIOUS
  <2>2. \A k \in ns : [n |-> k, by |-> by, tab |-> wheelTab] \in given'
    BY <1>1
  <2>3. ASSUME NEW g \in given' PROVE g.n \in GivenNs \cup ns
    BY <1>1, <2>1 DEF GivenNs
  <2>4. given \subseteq given'
    BY <1>1
  <2>5. GivenNs \cup ns \subseteq GivenNs'
    BY <2>1, <2>2, <2>4 DEF GivenNs
  <2> QED BY <2>3, <2>5 DEF GivenNs
<1>3. {k \in ns : \E g \in given : g.n = k} = ns \cap GivenNs
  BY DEF GivenNs
<1> QED BY <1>1, <1>2, <1>3

LEMMA AgesAreNat == ASSUME NEW s \in Seq(OnItsWay), NEW i \in DOMAIN s PROVE s[i].age \in Nat
<1>1. s[i] \in OnItsWay
  OBVIOUS
<1> QED BY <1>1 DEF OnItsWay

LEMMA WaitingParts ==
  /\ EventsWaiting \subseteq Waiting /\ NotchesWaiting \subseteq Waiting /\ heldNotches \subseteq Waiting
  /\ WheelTyped => Waiting \subseteq DOMAIN began
BY DEF Waiting, WheelTyped

LEMMA NotchStep == ASSUME WheelInv, NotchArrives, WheelBase PROVE WheelInv'
<1> USE DEF Plain, PlainPad
<1>1. /\ WheelTyped /\ NeverLate /\ NamedOnce /\ HeardAsPlaced /\ HoldIsTimed /\ PadHeardFirst
      /\ HeldPadsComing /\ HoldIsYounger /\ PlainAreAlone /\ PlainPads /\ PlainWheels /\ PlainOnce
  BY DEF WheelInv
<1>2. /\ notches # <<>> /\ notches' = Tail(notches) /\ notches \in Seq(OnItsWay)
      /\ UNCHANGED <<placed, began, scrollEvents, preciseAgo, coarseAgo, flushes, silent, wheelTab>>
      /\ preciseAgo \in Int /\ coarseAgo \in Int /\ silent \in Nat
  BY <1>1 DEF NotchArrives, WheelTyped
<1>3. PICK m : m = Head(notches).n
  OBVIOUS
<1>4. /\ notches' \in Seq(OnItsWay) /\ Head(notches) = notches[1] /\ 1 \in DOMAIN notches /\ m \in NotchesWaiting
      /\ \A i \in DOMAIN notches' : i + 1 \in DOMAIN notches /\ notches'[i] = notches[i + 1]
      /\ NotchesWaiting = NotchesWaiting' \cup {m} /\ NamesOnce(notches') /\ m \notin NotchesWaiting'
  BY <1>1, <1>2, <1>3, EventGoes DEF NotchesWaiting, NamedOnce
<1>5. EventsWaiting' = EventsWaiting
  BY <1>2 DEF EventsWaiting
<1>6. m \in Waiting /\ m \in DOMAIN began /\ m \notin heldNotches /\ notches[1].n = m
  BY <1>1, <1>3, <1>4, WaitingParts DEF NamedOnce
<1>7. /\ WheelClaim = "drop" => placed # "unknown" /\ preciseAgo <= DropTicks
      /\ WheelClaim = "pass" => \/ placed = "unknown"
                                \/ preciseAgo > DropTicks /\ (coarseAgo <= DropTicks \/ silent > 0)
      /\ WheelClaim = "hold" => preciseAgo > DropTicks /\ coarseAgo > DropTicks /\ silent = 0
      /\ WheelClaim \in {"drop", "pass", "hold"}
  BY <1>2 DEF WheelClaim, DropTicks
\* What each case leaves.
<1>8. /\ heldNotches' = IF WheelClaim = "hold" THEN heldNotches \cup {m} ELSE heldNotches
      /\ holdTimer' = IF WheelClaim = "hold" /\ holdTimer = -1 THEN 0 ELSE holdTimer
      /\ GivenNs' = IF WheelClaim = "pass" THEN GivenNs \cup {m} ELSE GivenNs
      /\ twice' = IF WheelClaim = "pass" THEN twice \cup ({m} \cap GivenNs) ELSE twice
      /\ \A g \in given' : g.by \in {"native", "notch"}
  <2>0. \A g \in given : g.by \in {"native", "notch"}
    BY <1>1 DEF WheelTyped
  <2>1. CASE WheelClaim = "drop"
    BY <2>0, <2>1 DEF NotchArrives, GivenNs
  <2>2. CASE WheelClaim = "pass"
    <3>1. Gives({m}, "notch") /\ UNCHANGED <<heldNotches, holdTimer>>
      BY <2>2, <1>3 DEF NotchArrives
    <3> QED BY <3>1, <2>0, <2>2, GivenGrow
  <2>3. CASE WheelClaim = "hold"
    BY <2>0, <2>3, <1>3 DEF NotchArrives, GivenNs
  <2> QED BY <1>7, <2>1, <2>2, <2>3
<1>9. /\ Waiting' \subseteq Waiting /\ (m \in GivenNs' \cup heldNotches' \/ WheelClaim = "drop")
      /\ heldNotches \subseteq heldNotches' /\ heldNotches' \subseteq heldNotches \cup {m}
  BY <1>4, <1>5, <1>6, <1>8, <1>7 DEF Waiting
<1>10. Waiting' \subseteq Waiting
  BY <1>4, <1>5, <1>6, <1>8 DEF Waiting
<1>11. WheelTyped'
  <2>1. GivenNs' \subseteq DOMAIN began /\ twice' \subseteq DOMAIN began /\ Waiting' \subseteq DOMAIN began
    BY <1>1, <1>6, <1>8, <1>10 DEF WheelTyped
  <2>2. holdTimer' \in -1..HoldTicks
    BY <1>1, <1>8 DEF WheelTyped, HoldTicks
  <2> QED BY <2>1, <2>2, <1>1, <1>2, <1>4, <1>8 DEF WheelTyped
<1>12. NeverLate'
  BY <1>1, <1>2, <1>4 DEF NeverLate
<1>13. NamedOnce'
  BY <1>1, <1>2, <1>4, <1>8 DEF NamedOnce
<1>14. HeardAsPlaced'
  BY <1>1, <1>2, <1>5, <1>10 DEF HeardAsPlaced
<1>15. HoldIsTimed'
  <2>1. holdTimer \in Int
    BY <1>1 DEF WheelTyped
  <2> QED BY <2>1, <1>1, <1>8 DEF HoldIsTimed
<1>16. PadHeardFirst'
  BY <1>1, <1>2, <1>4, <1>5 DEF PadHeardFirst
\* A pad's notch comes late only when its scroll has just been heard, and then it is dropped.
<1>17. PlainPad(m) /\ WheelClaim # "drop" => m \in EventsWaiting
  <2> SUFFICES ASSUME PlainPad(m), m \notin EventsWaiting PROVE WheelClaim = "drop"
    OBVIOUS
  <2>1. preciseAgo <= notches[1].age
    BY <1>1, <1>4, <1>6 DEF PadHeardFirst
  <2>2. notches[1].age <= Skew /\ notches[1].age \in Nat
    BY <1>1, <1>2, <1>4, AgesAreNat DEF NeverLate
  <2>3. preciseAgo <= DropTicks
    BY <2>1, <2>2, <1>2 DEF WheelBase, HoldTicks, DropTicks
  <2>4. placed = "here"
    BY <1>1, <1>6 DEF HeardAsPlaced
  <2> QED BY <2>3, <2>4, <1>2, <1>7 DEF WheelClaim, DropTicks
<1>18. HeldPadsComing'
  <2> SUFFICES ASSUME NEW k \in heldNotches', PlainPad(k)' PROVE k \in EventsWaiting'
    BY DEF HeldPadsComing
  <2>1. CASE k = m
    BY <2>1, <1>2, <1>5, <1>6, <1>7, <1>8, <1>17
  <2>2. CASE k # m
    BY <2>2, <1>1, <1>2, <1>5, <1>9 DEF HeldPadsComing
  <2> QED BY <2>1, <2>2
<1>19. HoldIsYounger'
  <2> SUFFICES ASSUME NEW k \in heldNotches', PlainPad(k)'
               PROVE  \E i \in DOMAIN scrollEvents :
                        scrollEvents[i].n \in heldNotches' /\ holdTimer' <= scrollEvents[i].age
    BY <1>2 DEF HoldIsYounger
  <2>0. PlainPad(k) /\ k \in heldNotches \cup {m}
    BY <1>2, <1>9
  <2>1. CASE heldNotches # {}
    <3>0. \E j \in heldNotches : PlainPad(j)
      BY <2>0, <2>1, <1>1, <1>6, WaitingParts DEF PlainAreAlone
    <3>1. PICK i \in DOMAIN scrollEvents : scrollEvents[i].n \in heldNotches /\ holdTimer <= scrollEvents[i].age
      BY <3>0, <1>1 DEF HoldIsYounger
    <3>2. holdTimer' = holdTimer
      BY <2>1, <1>1, <1>8 DEF HoldIsTimed
    <3> QED BY <3>1, <3>2, <1>9
  <2>2. CASE heldNotches = {}
    <3>1. WheelClaim = "hold" /\ m \in heldNotches' /\ holdTimer' = 0
      BY <2>2, <1>1, <1>8 DEF HoldIsTimed
    <3>2. m \in EventsWaiting
      BY <2>0, <2>2, <3>1, <1>17
    <3>3. PICK i \in DOMAIN scrollEvents : scrollEvents[i].n = m
      BY <3>2 DEF EventsWaiting, NumbersOf
    <3>4. scrollEvents[i].age \in Nat
      BY <1>1, AgesAreNat DEF WheelTyped
    <3> QED BY <3>1, <3>3, <3>4
  <2> QED BY <2>1, <2>2
<1>20. PlainAreAlone'
  BY <1>1, <1>2, <1>10 DEF PlainAreAlone
<1>21. PlainPads' /\ PlainWheels'
  BY <1>1, <1>2, <1>10 DEF PlainPads, PlainWheels
<1>22. PlainOnce'
  <2> SUFFICES ASSUME NEW k \in DOMAIN began, ~began[k].mixed
               PROVE  /\ k \notin twice'
                      /\ began[k].dev = "pad" => (k \in EventsWaiting' <=> k \notin GivenNs')
                      /\ began[k].dev # "pad" => (k \in NotchesWaiting' \cup heldNotches' <=> k \notin GivenNs')
    BY <1>2 DEF PlainOnce
  <2>1. /\ k \notin twice /\ (began[k].dev = "pad" => (k \in EventsWaiting <=> k \notin GivenNs))
        /\ began[k].dev # "pad" => (k \in NotchesWaiting \cup heldNotches <=> k \notin GivenNs)
    BY <1>1 DEF PlainOnce
  <2>2. CASE k # m
    BY <2>1, <2>2, <1>4, <1>5, <1>8
  <2>3. CASE k = m /\ began[k].dev = "pad"
    <3>1. coarseAgo > DropTicks /\ silent = 0
      BY <2>3, <1>1, <1>6 DEF PlainPads
    <3>2. placed = "here"
      BY <2>3, <1>1, <1>6 DEF HeardAsPlaced
    <3>3. WheelClaim # "pass"
      BY <3>1, <3>2, <1>2, <1>7 DEF DropTicks
    <3> QED BY <2>1, <2>3, <3>3, <1>5, <1>8
  <2>4. CASE k = m /\ began[k].dev # "pad"
    <3>1. placed # "unknown" => preciseAgo > DropTicks
      BY <2>4, <1>1, <1>6 DEF PlainWheels
    <3>2. WheelClaim # "drop"
      BY <3>1, <1>2, <1>7 DEF DropTicks
    <3>3. k \notin GivenNs
      BY <2>1, <2>4, <1>4
    <3> QED BY <2>1, <2>4, <3>2, <3>3, <1>4, <1>6, <1>7, <1>8
  <2> QED BY <2>2, <2>3, <2>4
<1> QED BY <1>11, <1>12, <1>13, <1>14, <1>15, <1>16, <1>18, <1>19, <1>20, <1>21, <1>22 DEF WheelInv

LEMMA FlushStep == ASSUME WheelInv, Flush, WheelBase PROVE WheelInv'
<1> USE DEF Plain, PlainPad
<1>1. /\ WheelTyped /\ NeverLate /\ NamedOnce /\ HeardAsPlaced /\ HoldIsTimed /\ PadHeardFirst
      /\ HeldPadsComing /\ HoldIsYounger /\ PlainAreAlone /\ PlainPads /\ PlainWheels /\ PlainOnce
  BY DEF WheelInv
<1>2. /\ holdTimer = HoldTicks /\ holdTimer' = -1 /\ heldNotches' = {} /\ Gives(heldNotches, "notch")
      /\ flushes' = (flushes + 1) % FlushesToSilence
      /\ silent' = IF flushes + 1 = FlushesToSilence THEN Silence ELSE silent
      /\ UNCHANGED <<placed, began, scrollEvents, notches, preciseAgo, coarseAgo, wheelTab>>
  BY DEF Flush
<1>3. /\ GivenNs' = GivenNs \cup heldNotches /\ twice' = twice \cup (heldNotches \cap GivenNs)
      /\ \A g \in given' : g.by \in {"native", "notch"}
  BY <1>1, <1>2, GivenGrow DEF WheelTyped
<1>4. EventsWaiting' = EventsWaiting /\ NotchesWaiting' = NotchesWaiting /\ Waiting' \subseteq Waiting
  BY <1>2 DEF EventsWaiting, NotchesWaiting, Waiting
\* The window of the hold is longer than a scroll of a pad is behind its notch.
<1>5. PICK w \in heldNotches : ~PlainPad(w)
  <2>1. heldNotches # {}
    BY <1>1, <1>2 DEF HoldIsTimed, HoldTicks
  <2>2. ASSUME \A k \in heldNotches : PlainPad(k) PROVE FALSE
    <3>1. PICK i \in DOMAIN scrollEvents : scrollEvents[i].n \in heldNotches /\ holdTimer <= scrollEvents[i].age
      BY <2>1, <2>2, <1>1 DEF HoldIsYounger
    <3>2. scrollEvents[i].age <= Skew /\ scrollEvents[i].age \in Nat
      BY <1>1, AgesAreNat DEF NeverLate, WheelTyped
    <3> QED BY <3>1, <3>2, <1>2 DEF WheelBase, HoldTicks
  <2> QED BY <2>1, <2>2
<1>6. \A k \in Waiting : ~began[k].mixed => began[k].dev # "pad"
  BY <1>1, <1>5, WaitingParts DEF PlainAreAlone
<1>7. WheelTyped'
  <2>1. flushes' \in 0..2 /\ silent' \in Nat
    BY <1>1, <1>2 DEF WheelTyped, FlushesToSilence, Silence
  <2>2. GivenNs' \subseteq DOMAIN began /\ twice' \subseteq DOMAIN began /\ Waiting' \subseteq DOMAIN began
    BY <1>1, <1>3, <1>4, WaitingParts DEF WheelTyped
  <2>3. holdTimer' \in -1..HoldTicks
    BY <1>2 DEF HoldTicks
  <2> QED BY <2>1, <2>2, <2>3, <1>1, <1>2, <1>3 DEF WheelTyped
<1>8. NeverLate' /\ NamedOnce' /\ HeardAsPlaced' /\ HoldIsTimed' /\ PadHeardFirst'
  BY <1>1, <1>2, <1>4 DEF NeverLate, NamedOnce, HeardAsPlaced, HoldIsTimed, PadHeardFirst
<1>9. HeldPadsComing' /\ HoldIsYounger'
  BY <1>2 DEF HeldPadsComing, HoldIsYounger
<1>10. PlainAreAlone' /\ PlainPads' /\ PlainWheels'
  BY <1>1, <1>2, <1>4, <1>6, WaitingParts DEF PlainAreAlone, PlainPads, PlainWheels
<1>11. PlainOnce'
  <2> SUFFICES ASSUME NEW k \in DOMAIN began, ~began[k].mixed
               PROVE  /\ k \notin twice'
                      /\ began[k].dev = "pad" => (k \in EventsWaiting' <=> k \notin GivenNs')
                      /\ began[k].dev # "pad" => (k \in NotchesWaiting' \cup heldNotches' <=> k \notin GivenNs')
    BY <1>2 DEF PlainOnce
  <2>1. /\ k \notin twice /\ (began[k].dev = "pad" => (k \in EventsWaiting <=> k \notin GivenNs))
        /\ began[k].dev # "pad" => (k \in NotchesWaiting \cup heldNotches <=> k \notin GivenNs)
    BY <1>1 DEF PlainOnce
  <2>2. CASE k \in heldNotches
    <3>1. began[k].dev # "pad" /\ k \notin NotchesWaiting /\ k \notin GivenNs
      BY <2>1, <2>2, <1>1, <1>6, WaitingParts DEF NamedOnce
    <3> QED BY <2>1, <2>2, <3>1, <1>2, <1>3, <1>4
  <2>3. CASE k \notin heldNotches
    BY <2>1, <2>3, <1>2, <1>3, <1>4
  <2> QED BY <2>2, <2>3
<1> QED BY <1>7, <1>8, <1>9, <1>10, <1>11 DEF WheelInv

LEMMA HeardStep == ASSUME WheelInv, EventArrives, placed = "here", WheelBase PROVE WheelInv'
<1> USE DEF Plain, PlainPad
<1>1. /\ WheelTyped /\ NeverLate /\ NamedOnce /\ HeardAsPlaced /\ HoldIsTimed /\ PadHeardFirst
      /\ HeldPadsComing /\ HoldIsYounger /\ PlainAreAlone /\ PlainPads /\ PlainWheels /\ PlainOnce
  BY DEF WheelInv
<1>2. PICK m : m = Head(scrollEvents).n
  OBVIOUS
<1>3. /\ scrollEvents # <<>> /\ scrollEvents' = Tail(scrollEvents) /\ scrollEvents \in Seq(OnItsWay)
      /\ holdTimer' = -1 /\ heldNotches' = {}
      /\ UNCHANGED <<placed, began, notches, silent, wheelTab>>
      /\ preciseAgo \in Int /\ coarseAgo \in Int
  BY <1>1 DEF EventArrives, NoteNativeScroll, WheelTyped
<1>4. /\ scrollEvents' \in Seq(OnItsWay) /\ m \in EventsWaiting
      /\ \A i \in DOMAIN scrollEvents' : i + 1 \in DOMAIN scrollEvents /\ scrollEvents'[i] = scrollEvents[i + 1]
      /\ EventsWaiting = EventsWaiting' \cup {m} /\ NamesOnce(scrollEvents') /\ m \notin EventsWaiting'
  BY <1>1, <1>2, <1>3, EventGoes DEF EventsWaiting, NamedOnce
<1>5. m \in Waiting /\ m \in DOMAIN began /\ NotchesWaiting' = NotchesWaiting
  BY <1>1, <1>3, <1>4, WaitingParts DEF NotchesWaiting
<1>6. Waiting' \subseteq Waiting
  BY <1>3, <1>4, <1>5 DEF Waiting
<1>7. began[m].precise =>
        /\ preciseAgo' = 0 /\ flushes' = 0 /\ coarseAgo' = coarseAgo
        /\ GivenNs' = GivenNs \cup {m} /\ twice' = twice \cup ({m} \cap GivenNs)
        /\ \A g \in given' : g.by \in {"native", "notch"}
  <2> SUFFICES ASSUME began[m].precise
               PROVE  /\ preciseAgo' = 0 /\ flushes' = 0 /\ coarseAgo' = coarseAgo
                      /\ GivenNs' = GivenNs \cup {m} /\ twice' = twice \cup ({m} \cap GivenNs)
                      /\ \A g \in given' : g.by \in {"native", "notch"}
    OBVIOUS
  <2>1. preciseAgo' = 0 /\ flushes' = 0 /\ coarseAgo' = coarseAgo /\ Gives({m}, "native")
    BY <1>2 DEF EventArrives, NoteNativeScroll
  <2> QED BY <2>1, <1>1, GivenGrow DEF WheelTyped
<1>8. ~began[m].precise =>
        /\ coarseAgo' = 0 /\ flushes' = flushes /\ preciseAgo' = preciseAgo
        /\ GivenNs' = GivenNs \cup heldNotches /\ twice' = twice \cup (heldNotches \cap GivenNs)
        /\ \A g \in given' : g.by \in {"native", "notch"}
  <2> SUFFICES ASSUME ~began[m].precise
               PROVE  /\ coarseAgo' = 0 /\ flushes' = flushes /\ preciseAgo' = preciseAgo
                      /\ GivenNs' = GivenNs \cup heldNotches /\ twice' = twice \cup (heldNotches \cap GivenNs)
                      /\ \A g \in given' : g.by \in {"native", "notch"}
    OBVIOUS
  <2>1. coarseAgo' = 0 /\ flushes' = flushes /\ preciseAgo' = preciseAgo /\ Gives(heldNotches, "notch")
    BY <1>2 DEF EventArrives, NoteNativeScroll
  <2> QED BY <2>1, <1>1, GivenGrow DEF WheelTyped
<1>9. WheelTyped'
  <2>1. GivenNs' \subseteq DOMAIN began /\ twice' \subseteq DOMAIN began /\ Waiting' \subseteq DOMAIN began
    BY <1>1, <1>5, <1>6, <1>7, <1>8, WaitingParts DEF WheelTyped
  <2>2. preciseAgo' \in 0..DropTicks + 1 /\ coarseAgo' \in 0..DropTicks + 1 /\ flushes' \in 0..2
    BY <1>1, <1>7, <1>8 DEF WheelTyped, DropTicks
  <2>3. holdTimer' \in -1..HoldTicks
    BY <1>3 DEF HoldTicks
  <2>4. \A g \in given' : g.by \in {"native", "notch"}
    BY <1>7, <1>8
  <2> QED BY <2>1, <2>2, <2>3, <2>4, <1>1, <1>3, <1>4 DEF WheelTyped
<1>10. NeverLate'
  BY <1>1, <1>3, <1>4 DEF NeverLate
<1>11. NamedOnce' /\ HeardAsPlaced' /\ HoldIsTimed' /\ HeldPadsComing' /\ HoldIsYounger'
  BY <1>1, <1>3, <1>4, <1>5, <1>6 DEF NamedOnce, HeardAsPlaced, HoldIsTimed, HeldPadsComing, HoldIsYounger
<1>12. PadHeardFirst'
  <2> SUFFICES ASSUME NEW i \in DOMAIN notches, PlainPad(notches[i].n), notches[i].n \notin EventsWaiting'
               PROVE  preciseAgo' <= notches[i].age
    BY <1>3 DEF PadHeardFirst
  <2>1. notches[i].age \in Nat
    BY <1>1, AgesAreNat DEF WheelTyped
  <2>2. CASE began[m].precise
    BY <2>1, <2>2, <1>7
  <2>3. CASE ~began[m].precise
    <3>1. notches[i].n \in Waiting
      BY WaitingParts DEF NotchesWaiting, NumbersOf
    <3>2. m # notches[i].n
      BY <2>3, <3>1, <1>1, <1>4 DEF HeardAsPlaced
    <3> QED BY <2>3, <3>2, <1>1, <1>4, <1>8 DEF PadHeardFirst
  <2> QED BY <2>2, <2>3
<1>13. PlainAreAlone'
  BY <1>1, <1>3, <1>6 DEF PlainAreAlone
<1>14. \A k \in Waiting : ~began[k].mixed => began[k].dev = began[m].dev /\ (began[m].precise <=> began[m].dev = "pad")
  BY <1>1, <1>4, <1>5 DEF PlainAreAlone, HeardAsPlaced
<1>15. PlainPads' /\ PlainWheels'
  <2> SUFFICES ASSUME NEW k \in Waiting', ~began[k].mixed
               PROVE  /\ began[k].dev = "pad" => coarseAgo' > DropTicks /\ silent' = 0
                      /\ began[k].dev # "pad" /\ placed # "unknown" => preciseAgo' > DropTicks
    BY <1>3 DEF PlainPads, PlainWheels
  <2>1. k \in Waiting /\ began[k].dev = began[m].dev /\ (began[m].precise <=> began[m].dev = "pad")
    BY <1>6, <1>14
  <2> QED BY <2>1, <1>1, <1>3, <1>7, <1>8 DEF PlainPads, PlainWheels
<1>16. PlainOnce'
  <2> SUFFICES ASSUME NEW k \in DOMAIN began, ~began[k].mixed
               PROVE  /\ k \notin twice'
                      /\ began[k].dev = "pad" => (k \in EventsWaiting' <=> k \notin GivenNs')
                      /\ began[k].dev # "pad" => (k \in NotchesWaiting' \cup heldNotches' <=> k \notin GivenNs')
    BY <1>3 DEF PlainOnce
  <2>1. /\ k \notin twice /\ (began[k].dev = "pad" => (k \in EventsWaiting <=> k \notin GivenNs))
        /\ began[k].dev # "pad" => (k \in NotchesWaiting \cup heldNotches <=> k \notin GivenNs)
    BY <1>1 DEF PlainOnce
  <2>2. CASE began[m].precise
    <3>1. k \in heldNotches => began[k].dev = "pad"
      BY <2>2, <1>14, WaitingParts
    <3>2. k = m => began[k].dev = "pad" /\ k \notin GivenNs
      BY <2>1, <2>2, <1>4, <1>5, <1>14
    <3>3. k \notin twice'
      BY <3>2, <2>1, <2>2, <1>7
    <3>4. GivenNs' = GivenNs \cup {m}
      BY <2>2, <1>7
    <3>5. began[k].dev = "pad" => (k \in EventsWaiting' <=> k \notin GivenNs')
      BY <3>4, <2>1, <1>4
    <3>6. began[k].dev # "pad" => (k \in NotchesWaiting' \cup heldNotches' <=> k \notin GivenNs')
      BY <3>1, <3>2, <3>4, <2>1, <1>3, <1>5
    <3> QED BY <3>3, <3>5, <3>6
  <2>3. CASE ~began[m].precise
    <3>1. k \in heldNotches => began[k].dev # "pad"
      BY <2>3, <1>14, WaitingParts
    <3>2. k \in heldNotches => k \notin GivenNs /\ k \notin NotchesWaiting
      BY <3>1, <2>1, <1>1 DEF NamedOnce
    <3>3. k \notin twice'
      BY <3>2, <2>1, <2>3, <1>8
    <3>4. GivenNs' = GivenNs \cup heldNotches /\ (k = m => began[k].dev # "pad")
      BY <2>3, <1>5, <1>8, <1>14
    <3>5. began[k].dev = "pad" => (k \in EventsWaiting' <=> k \notin GivenNs')
      BY <3>1, <3>4, <2>1, <1>4
    <3>6. began[k].dev # "pad" => (k \in NotchesWaiting' \cup heldNotches' <=> k \notin GivenNs')
      BY <3>2, <3>4, <2>1, <1>3, <1>5
    <3> QED BY <3>3, <3>5, <3>6
  <2> QED BY <2>2, <2>3
<1> QED BY <1>9, <1>10, <1>11, <1>12, <1>13, <1>15, <1>16 DEF WheelInv

\* What is not in the pane is not heard, and was to be heard by nobody.
LEMMA UnheardStep == ASSUME WheelInv, EventArrives, placed # "here" PROVE WheelInv'
<1> USE DEF Plain, PlainPad
<1>1. /\ WheelTyped /\ NeverLate /\ NamedOnce /\ HeardAsPlaced /\ HoldIsTimed /\ PadHeardFirst
      /\ HeldPadsComing /\ HoldIsYounger /\ PlainAreAlone /\ PlainPads /\ PlainWheels /\ PlainOnce
  BY DEF WheelInv
<1>2. PICK m : m = Head(scrollEvents).n
  OBVIOUS
<1>3. /\ scrollEvents # <<>> /\ scrollEvents' = Tail(scrollEvents) /\ scrollEvents \in Seq(OnItsWay)
      /\ UNCHANGED <<placed, began, notches, preciseAgo, coarseAgo, heldNotches, holdTimer, flushes, silent,
                     given, twice, wheelTab>>
  BY <1>1 DEF EventArrives, WheelTyped
<1>4. /\ scrollEvents' \in Seq(OnItsWay) /\ m \in EventsWaiting
      /\ \A i \in DOMAIN scrollEvents' : i + 1 \in DOMAIN scrollEvents /\ scrollEvents'[i] = scrollEvents[i + 1]
      /\ EventsWaiting = EventsWaiting' \cup {m} /\ NamesOnce(scrollEvents') /\ m \notin EventsWaiting'
  BY <1>1, <1>2, <1>3, EventGoes DEF EventsWaiting, NamedOnce
<1>5. /\ m \in Waiting /\ NotchesWaiting' = NotchesWaiting /\ GivenNs' = GivenNs /\ Waiting' \subseteq Waiting
      /\ \A k \in Waiting : ~PlainPad(k)
  BY <1>1, <1>3, <1>4, WaitingParts DEF NotchesWaiting, GivenNs, Waiting, HeardAsPlaced
<1>6. WheelTyped' /\ NeverLate' /\ NamedOnce'
  BY <1>1, <1>3, <1>4, <1>5 DEF WheelTyped, NeverLate, NamedOnce
<1>7. HeardAsPlaced' /\ HoldIsTimed' /\ PlainAreAlone' /\ PlainPads' /\ PlainWheels'
  BY <1>1, <1>3, <1>5 DEF HeardAsPlaced, HoldIsTimed, PlainAreAlone, PlainPads, PlainWheels
<1>8. PadHeardFirst' /\ HeldPadsComing' /\ HoldIsYounger'
  <2>1. \A i \in DOMAIN notches : notches[i].n \in Waiting
    BY WaitingParts DEF NotchesWaiting, NumbersOf
  <2> QED BY <2>1, <1>3, <1>5, WaitingParts DEF PadHeardFirst, HeldPadsComing, HoldIsYounger
<1>9. PlainOnce'
  BY <1>1, <1>3, <1>4, <1>5 DEF PlainOnce
<1> QED BY <1>6, <1>7, <1>8, <1>9 DEF WheelInv

LEMMA EventStep == ASSUME WheelInv, EventArrives, WheelBase PROVE WheelInv'
BY HeardStep, UnheardStep

\* Whatever was waiting when the pointer was placed elsewhere is not judged any more.
LEMMA PlaceStep == ASSUME WheelInv, NEW o \in WheelPlaces, PlaceChanges(o) PROVE WheelInv'
<1> USE DEF Plain, PlainPad
<1>1. /\ WheelTyped /\ NeverLate /\ NamedOnce /\ HeardAsPlaced /\ HoldIsTimed /\ PadHeardFirst
      /\ HeldPadsComing /\ HoldIsYounger /\ PlainAreAlone /\ PlainPads /\ PlainWheels /\ PlainOnce
  BY DEF WheelInv
<1>2. /\ placed' = o
      /\ began' = [i \in DOMAIN began |-> [began[i] EXCEPT !.mixed = @ \/ i \in Waiting]]
      /\ UNCHANGED <<scrollEvents, notches, preciseAgo, coarseAgo, heldNotches, holdTimer, flushes, silent,
                     given, twice, wheelTab>>
  BY DEF PlaceChanges, ScrollsWaiting, Waiting, EventsWaiting, NotchesWaiting, NumbersOf
<1>3. EventsWaiting' = EventsWaiting /\ NotchesWaiting' = NotchesWaiting /\ Waiting' = Waiting /\ GivenNs' = GivenNs
  BY <1>2 DEF EventsWaiting, NotchesWaiting, Waiting, GivenNs
<1>4. /\ DOMAIN began' = DOMAIN began /\ Len(began) \in Nat /\ DOMAIN began = 1 .. Len(began)
      /\ \A i \in DOMAIN began : /\ began'[i] \in Scroll /\ began'[i].dev = began[i].dev
                                 /\ began'[i].mixed = (began[i].mixed \/ i \in Waiting)
  <2>1. \A i \in DOMAIN began : began[i] \in Scroll /\ began'[i] = [began[i] EXCEPT !.mixed = @ \/ i \in Waiting]
    BY <1>1, <1>2 DEF WheelTyped
  <2>2. DOMAIN began' = DOMAIN began /\ Len(began) \in Nat /\ DOMAIN began = 1 .. Len(began)
    BY <1>1, <1>2 DEF WheelTyped
  <2> QED BY <2>1, <2>2 DEF Scroll
<1>5. began' \in Seq(Scroll)
  <2>1. began' = [i \in 1 .. Len(began) |-> began'[i]]
    BY <1>2, <1>4
  <2> QED BY <2>1, <1>4
<1>6. Waiting \subseteq DOMAIN began /\ \A k \in Waiting' : ~Plain(k)'
  BY <1>1, <1>3, <1>4, WaitingParts
<1>7. WheelTyped' /\ NeverLate' /\ NamedOnce' /\ HoldIsTimed'
  BY <1>1, <1>2, <1>3, <1>4, <1>5 DEF WheelTyped, NeverLate, NamedOnce, HoldIsTimed
<1>8. HeardAsPlaced' /\ PlainAreAlone' /\ PlainPads' /\ PlainWheels'
  BY <1>6 DEF HeardAsPlaced, PlainAreAlone, PlainPads, PlainWheels
<1>9. PadHeardFirst' /\ HeldPadsComing' /\ HoldIsYounger'
  <2>1. \A i \in DOMAIN notches' : notches'[i].n \in Waiting'
    BY DEF Waiting, NotchesWaiting, NumbersOf
  <2>2. heldNotches' \subseteq Waiting'
    BY DEF Waiting
  <2> QED BY <2>1, <2>2, <1>6 DEF PadHeardFirst, HeldPadsComing, HoldIsYounger
<1>10. PlainOnce'
  BY <1>1, <1>2, <1>3, <1>4 DEF PlainOnce
<1> QED BY <1>7, <1>8, <1>9, <1>10 DEF WheelInv

LEMMA WheelTickStep == ASSUME WheelInv, WheelTick, WheelBase PROVE WheelInv'
<1> USE DEF Plain, PlainPad
<1>1. /\ WheelTyped /\ NeverLate /\ NamedOnce /\ HeardAsPlaced /\ HoldIsTimed /\ PadHeardFirst
      /\ HeldPadsComing /\ HoldIsYounger /\ PlainAreAlone /\ PlainPads /\ PlainWheels /\ PlainOnce
  BY DEF WheelInv
<1>2. /\ holdTimer # HoldTicks /\ \A i \in DOMAIN scrollEvents : scrollEvents[i].age < Skew
      /\ \A i \in DOMAIN notches : notches[i].age < Skew
      /\ scrollEvents' = Later(scrollEvents) /\ notches' = Later(notches)
      /\ holdTimer' = (IF holdTimer >= 0 THEN holdTimer + 1 ELSE holdTimer)
      /\ UNCHANGED <<placed, began, heldNotches, flushes, given, twice, wheelTab>>
  BY DEF WheelTick
<1>3. preciseAgo \in 0..DropTicks + 1 /\ coarseAgo \in 0..DropTicks + 1 /\ silent \in Nat
  BY <1>1 DEF WheelTyped
<1>4. /\ preciseAgo' = IF preciseAgo + 1 <= DropTicks + 1 THEN preciseAgo + 1 ELSE DropTicks + 1
      /\ coarseAgo' = IF coarseAgo + 1 <= DropTicks + 1 THEN coarseAgo + 1 ELSE DropTicks + 1
      /\ silent' = IF silent - 1 >= 0 THEN silent - 1 ELSE 0
  <2>1. preciseAgo + 1 \in Int /\ coarseAgo + 1 \in Int /\ silent - 1 \in Int /\ DropTicks + 1 \in Int /\ 0 \in Int
    BY <1>3 DEF DropTicks
  <2> QED BY <2>1, LesserOfTwo, GreaterOfTwo DEF WheelTick
<1>5. /\ scrollEvents' \in Seq(OnItsWay) /\ DOMAIN scrollEvents' = DOMAIN scrollEvents
      /\ \A i \in DOMAIN scrollEvents : /\ scrollEvents'[i].n = scrollEvents[i].n
                                        /\ scrollEvents'[i].age = scrollEvents[i].age + 1
                                        /\ scrollEvents[i].age \in Nat
      /\ EventsWaiting' = EventsWaiting /\ NamesOnce(scrollEvents') = NamesOnce(scrollEvents)
  BY <1>1, <1>2, EventsAge, AgesAreNat DEF EventsWaiting, WheelTyped
<1>6. /\ notches' \in Seq(OnItsWay) /\ DOMAIN notches' = DOMAIN notches
      /\ \A i \in DOMAIN notches : /\ notches'[i].n = notches[i].n /\ notches'[i].age = notches[i].age + 1
                                   /\ notches[i].age \in Nat
      /\ NotchesWaiting' = NotchesWaiting /\ NamesOnce(notches') = NamesOnce(notches)
  BY <1>1, <1>2, EventsAge, AgesAreNat DEF NotchesWaiting, WheelTyped
<1>7. Waiting' = Waiting /\ GivenNs' = GivenNs /\ heldNotches' = heldNotches
  BY <1>2, <1>5, <1>6 DEF Waiting, GivenNs
<1>8. WheelTyped'
  <2>1. preciseAgo' \in 0..DropTicks + 1 /\ coarseAgo' \in 0..DropTicks + 1 /\ silent' \in Nat
    BY <1>3, <1>4 DEF DropTicks
  <2>2. holdTimer' \in -1..HoldTicks
    BY <1>1, <1>2 DEF WheelTyped, HoldTicks
  <2> QED BY <2>1, <2>2, <1>1, <1>2, <1>5, <1>6, <1>7 DEF WheelTyped
<1>9. NeverLate'
  <2>1. \A i \in DOMAIN scrollEvents' : scrollEvents'[i].age <= Skew
    BY <1>2, <1>5 DEF WheelBase
  <2>2. \A i \in DOMAIN notches' : notches'[i].age <= Skew
    BY <1>2, <1>6 DEF WheelBase
  <2> QED BY <2>1, <2>2 DEF NeverLate
<1>10. NamedOnce' /\ HeardAsPlaced' /\ HeldPadsComing'
  BY <1>1, <1>2, <1>5, <1>6, <1>7 DEF NamedOnce, HeardAsPlaced, HeldPadsComing
<1>11. HoldIsTimed'
  <2>1. holdTimer \in Int
    BY <1>1 DEF WheelTyped
  <2> QED BY <2>1, <1>1, <1>2 DEF HoldIsTimed
<1>12. PadHeardFirst'
  <2> SUFFICES ASSUME NEW i \in DOMAIN notches, PlainPad(notches[i].n), notches[i].n \notin EventsWaiting
               PROVE  preciseAgo' <= notches[i].age + 1
    BY <1>2, <1>5, <1>6 DEF PadHeardFirst
  <2>1. preciseAgo <= notches[i].age /\ notches[i].age \in Nat
    BY <1>1, <1>6 DEF PadHeardFirst
  <2> QED BY <2>1, <1>3, <1>4 DEF DropTicks
<1>13. HoldIsYounger'
  <2> SUFFICES ASSUME NEW k \in heldNotches, PlainPad(k)
               PROVE  \E i \in DOMAIN scrollEvents' :
                        scrollEvents'[i].n \in heldNotches /\ holdTimer' <= scrollEvents'[i].age
    BY <1>2 DEF HoldIsYounger
  <2>1. PICK i \in DOMAIN scrollEvents : scrollEvents[i].n \in heldNotches /\ holdTimer <= scrollEvents[i].age
    BY <1>1 DEF HoldIsYounger
  <2>2. holdTimer \in Int
    BY <1>1 DEF WheelTyped
  <2> QED BY <2>1, <2>2, <1>2, <1>5
<1>14. PlainAreAlone' /\ PlainOnce'
  BY <1>1, <1>2, <1>5, <1>6, <1>7 DEF PlainAreAlone, PlainOnce
<1>15. PlainPads' /\ PlainWheels'
  <2>1. /\ coarseAgo > DropTicks => coarseAgo' > DropTicks /\ preciseAgo \in Int
        /\ preciseAgo > DropTicks => preciseAgo' > DropTicks
        /\ silent = 0 => silent' = 0
    BY <1>3, <1>4 DEF DropTicks
  <2> QED BY <2>1, <1>1, <1>2, <1>7 DEF PlainPads, PlainWheels
<1> QED BY <1>8, <1>9, <1>10, <1>11, <1>12, <1>13, <1>14, <1>15 DEF WheelInv

LEMMA WheelSitsStill == ASSUME WheelInv, UNCHANGED wheelIdle,
                               UNCHANGED <<preciseAgo, coarseAgo, holdTimer, flushes, silent>>,
                               wheelTab' \in WheelTabs
                        PROVE  WheelInv'
<1> USE DEF Plain, PlainPad
<1>1. /\ WheelTyped /\ NeverLate /\ NamedOnce /\ HeardAsPlaced /\ HoldIsTimed /\ PadHeardFirst
      /\ HeldPadsComing /\ HoldIsYounger /\ PlainAreAlone /\ PlainPads /\ PlainWheels /\ PlainOnce
  BY DEF WheelInv
<1>2. EventsWaiting' = EventsWaiting /\ NotchesWaiting' = NotchesWaiting /\ Waiting' = Waiting /\ GivenNs' = GivenNs
  BY DEF EventsWaiting, NotchesWaiting, Waiting, GivenNs, wheelIdle
<1>3. WheelTyped'
  BY <1>1, <1>2 DEF WheelTyped, wheelIdle
<1>4. NeverLate' /\ NamedOnce' /\ HeardAsPlaced' /\ HoldIsTimed' /\ PadHeardFirst'
  BY <1>1, <1>2 DEF NeverLate, NamedOnce, HeardAsPlaced, HoldIsTimed, PadHeardFirst, wheelIdle
<1>5. HeldPadsComing' /\ HoldIsYounger'
  BY <1>1, <1>2 DEF HeldPadsComing, HoldIsYounger, wheelIdle
<1>6. PlainAreAlone' /\ PlainPads' /\ PlainWheels' /\ PlainOnce'
  BY <1>1, <1>2 DEF PlainAreAlone, PlainPads, PlainWheels, PlainOnce, wheelIdle
<1> QED BY <1>3, <1>4, <1>5, <1>6 DEF WheelInv

LEMMA WheelStep == ASSUME WheelInv, [WheelNext]_wheelVars, WheelBase PROVE WheelInv'
<1>0. wheelTab \in WheelTabs
  BY DEF WheelInv, WheelTyped
<1>1. CASE Scrolls("pad", "swipes")
  BY <1>1, ScrollsStep DEF WheelBase
<1>2. CASE Scrolls("wheel", "turns")
  BY <1>2, ScrollsStep DEF WheelBase
<1>3. CASE Scrolls("deaf", "deaf")
  BY <1>3, ScrollsStep DEF WheelBase
<1>4. CASE \E t \in WheelTabs : WheelShows(t)
  BY <1>4, WheelSitsStill DEF WheelShows, wheelIdle
<1>10. CASE \E o \in WheelPlaces : PlaceChanges(o)
  BY <1>10, PlaceStep
<1>5. CASE NotchArrives
  BY <1>5, NotchStep
<1>6. CASE Flush
  BY <1>6, FlushStep
<1>7. CASE EventArrives
  BY <1>7, EventStep
<1>8. CASE WheelTick
  BY <1>8, WheelTickStep
<1>9. CASE UNCHANGED wheelVars
  BY <1>0, <1>9, WheelSitsStill DEF wheelVars, wheelIdle
<1> QED BY <1>1, <1>2, <1>3, <1>4, <1>5, <1>6, <1>7, <1>8, <1>9, <1>10 DEF WheelNext

LEMMA WheelSays == WheelInv => ScrolledOnce /\ HeldIsFlushed
<1> SUFFICES ASSUME WheelInv PROVE ScrolledOnce /\ HeldIsFlushed
  OBVIOUS
<1> USE DEF Plain
<1>1. ScrolledOnce
  <2> SUFFICES ASSUME NEW n \in DOMAIN began, ~began[n].mixed
               PROVE  n \notin twice /\ (Quiet => \E g \in given : g.n = n)
    BY DEF ScrolledOnce
  <2>1. /\ n \notin twice /\ (began[n].dev = "pad" => (n \in EventsWaiting <=> n \notin GivenNs))
        /\ began[n].dev # "pad" => (n \in NotchesWaiting \cup heldNotches <=> n \notin GivenNs)
    BY DEF WheelInv, PlainOnce
  <2>2. Quiet => n \notin EventsWaiting /\ n \notin NotchesWaiting /\ n \notin heldNotches
    BY DEF Quiet, EventsWaiting, NotchesWaiting, NumbersOf
  <2>3. Quiet => n \in GivenNs
    BY <2>1, <2>2
  <2> QED BY <2>1, <2>3 DEF GivenNs
<1>2. HeldIsFlushed
  BY DEF WheelInv, WheelTyped, HoldIsTimed, HeldIsFlushed, HoldTicks
<1> QED BY <1>1, <1>2

-----------------------------------------------------------------------------
(* What the engine will have heard of a tab's frames when the messages on their way have come. *)
Notes == [tab : ModeTabs, frame : ModeFrames, what : {"on", "off", "ready"}]
(* A report that takes real keys from a frame.                                                  *)
Disarms(r, t, f) == r.tab = t /\ (r.what = "ready" \/ (r.what = "on" /\ r.frame # f) \/ (r.what = "off" /\ r.frame = f))
Arms(r, t, f) == r.tab = t /\ r.what = "on" /\ r.frame = f
DisarmedAfter(q, n, t, f) == \E j \in DOMAIN q : j > n /\ Disarms(q[j], t, f)

ModesTyped ==
  /\ modeTab \in ModeTabs /\ mirror \in BOOLEAN /\ strayed \in BOOLEAN /\ reports \in Seq(Notes)
  /\ modeOwner \in [ModeTabs -> ModeFrames \cup {"none"}]
  /\ field \in [ModeTabs -> [ModeFrames -> BOOLEAN]] /\ armed \in [ModeTabs -> [ModeFrames -> BOOLEAN]]
  /\ notices \in [ModeTabs -> [ModeFrames -> Nat]]
OneField == \A t \in ModeTabs : \A f, g \in ModeFrames : field[t][f] /\ field[t][g] => f = g
FieldIsArmed == \A t \in ModeTabs : \A f \in ModeFrames : field[t][f] => armed[t][f]
ArmedHasField == \A t \in ModeTabs : \A f \in ModeFrames : armed[t][f] => field[t][f] \/ <<t, f>> \in focusouts
(* A frame that was given real keys and has no field any more will have them taken.             *)
GivenHaveField == \A t \in ModeTabs : \A f \in ModeFrames :
  \A i \in DOMAIN reports : Arms(reports[i], t, f) => field[t][f] \/ DisarmedAfter(reports, i, t, f)
OwnersHaveField == \A t \in ModeTabs : \A f \in ModeFrames :
  modeOwner[t] = f => field[t][f] \/ DisarmedAfter(reports, 0, t, f)
(* A field of the tab shown has real keys in the end, or its frame has yet to hear a mode message. *)
FieldIsGiven == ~strayed => \A f \in ModeFrames : field[modeTab][f] =>
  \/ notices[modeTab][f] > 0
  \/ modeOwner[modeTab] = f /\ ~DisarmedAfter(reports, 0, modeTab, f)
  \/ \E i \in DOMAIN reports : Arms(reports[i], modeTab, f) /\ ~DisarmedAfter(reports, i, modeTab, f)
MirrorHasOwner == ~strayed => (mirror <=> modeOwner[modeTab] # "none")
ModesInv == /\ ModesTyped /\ OneField /\ FieldIsArmed /\ ArmedHasField
            /\ GivenHaveField /\ OwnersHaveField /\ FieldIsGiven /\ MirrorHasOwner

LEMMA NoteComes ==
  ASSUME NEW q \in Seq(Notes), NEW r \in Notes
  PROVE  /\ Append(q, r) \in Seq(Notes) /\ DOMAIN q = 1..Len(q) /\ DOMAIN Append(q, r) = 1..Len(q) + 1
         /\ Append(q, r)[Len(q) + 1] = r /\ \A i \in DOMAIN q : Append(q, r)[i] = q[i]
BY AppendProperties, LenProperties

LEMMA NoteGoes ==
  ASSUME NEW q \in Seq(Notes), q # <<>>
  PROVE  /\ Tail(q) \in Seq(Notes) /\ DOMAIN q = 1..Len(q) /\ DOMAIN Tail(q) = 1..Len(q) - 1 /\ Len(q) \in Nat \ {0}
         /\ Head(q) = q[1] /\ Head(q) \in Notes /\ \A i \in DOMAIN Tail(q) : Tail(q)[i] = q[i + 1]
BY HeadTailProperties, LenProperties, ElementOfSeq, EmptySeq

(* A report more takes keys later than all before it; one fewer, and the count is one less.     *)
LEMMA DisarmsMore ==
  ASSUME NEW q \in Seq(Notes), NEW r \in Notes, NEW t, NEW f, NEW n \in 0..Len(q)
  PROVE  DisarmedAfter(Append(q, r), n, t, f) <=> (DisarmedAfter(q, n, t, f) \/ Disarms(r, t, f))
<1>1. /\ DOMAIN q = 1..Len(q) /\ DOMAIN Append(q, r) = 1..Len(q) + 1 /\ Len(q) \in Nat
      /\ Append(q, r)[Len(q) + 1] = r /\ \A i \in DOMAIN q : Append(q, r)[i] = q[i]
  BY NoteComes, LenProperties
<1> QED BY <1>1 DEF DisarmedAfter

LEMMA DisarmsLess ==
  ASSUME NEW q \in Seq(Notes), q # <<>>, NEW t, NEW f, NEW n \in Nat
  PROVE  /\ DisarmedAfter(Tail(q), n, t, f) <=> DisarmedAfter(q, n + 1, t, f)
         /\ DisarmedAfter(q, 0, t, f) <=> Disarms(Head(q), t, f) \/ DisarmedAfter(Tail(q), 0, t, f)
<1>1. /\ DOMAIN q = 1..Len(q) /\ DOMAIN Tail(q) = 1..Len(q) - 1 /\ Len(q) \in Nat \ {0}
      /\ Head(q) = q[1] /\ \A i \in DOMAIN Tail(q) : Tail(q)[i] = q[i + 1]
  BY NoteGoes
<1>2. ASSUME NEW m \in Nat PROVE DisarmedAfter(Tail(q), m, t, f) <=> DisarmedAfter(q, m + 1, t, f)
  <2>1. ASSUME DisarmedAfter(Tail(q), m, t, f) PROVE DisarmedAfter(q, m + 1, t, f)
    <3>1. PICK j \in DOMAIN Tail(q) : j > m /\ Disarms(Tail(q)[j], t, f)
      BY <2>1 DEF DisarmedAfter
    <3>2. j + 1 \in DOMAIN q /\ j + 1 > m + 1 /\ q[j + 1] = Tail(q)[j]
      BY <1>1, <3>1
    <3> QED BY <3>1, <3>2 DEF DisarmedAfter
  <2>2. ASSUME DisarmedAfter(q, m + 1, t, f) PROVE DisarmedAfter(Tail(q), m, t, f)
    <3>1. PICK j \in DOMAIN q : j > m + 1 /\ Disarms(q[j], t, f)
      BY <2>2 DEF DisarmedAfter
    <3>2. j - 1 \in DOMAIN Tail(q) /\ j - 1 > m /\ q[j] = Tail(q)[j - 1]
      BY <1>1, <3>1
    <3> QED BY <3>1, <3>2 DEF DisarmedAfter
  <2> QED BY <2>1, <2>2
<1>3. DisarmedAfter(Tail(q), 0, t, f) <=> DisarmedAfter(q, 0 + 1, t, f)
  BY <1>2
<1>4. DisarmedAfter(q, 0, t, f) <=> Disarms(Head(q), t, f) \/ DisarmedAfter(q, 1, t, f)
  BY <1>1 DEF DisarmedAfter
<1> QED BY <1>2, <1>3, <1>4

(* What the three accounts of the queue become when a report is added that gives keys only to a frame   *)
(* with a field, and takes none from one that has had its field and keeps it.                            *)
LEMMA ReportIsAdded ==
  ASSUME ModesTyped, GivenHaveField, OwnersHaveField, NEW r \in Notes, reports' = Append(reports, r), modeOwner' = modeOwner,
         \A f \in ModeFrames : Arms(r, r.tab, f) => field'[r.tab][f],
         \A t \in ModeTabs : \A f \in ModeFrames : field[t][f] => field'[t][f] \/ Disarms(r, t, f)
  PROVE  GivenHaveField' /\ OwnersHaveField' /\ reports' \in Seq(Notes)
<1>1. /\ reports \in Seq(Notes) /\ Len(reports) \in Nat /\ DOMAIN reports = 1..Len(reports) /\ reports' \in Seq(Notes)
      /\ DOMAIN reports' = 1..Len(reports) + 1 /\ reports'[Len(reports) + 1] = r
      /\ \A i \in DOMAIN reports : reports'[i] = reports[i]
  BY NoteComes, LenProperties DEF ModesTyped
<1>2. \A n \in 0..Len(reports) : \A t \in ModeTabs : \A f \in ModeFrames :
        DisarmedAfter(reports', n, t, f) <=> (DisarmedAfter(reports, n, t, f) \/ Disarms(r, t, f))
  BY <1>1, DisarmsMore
<1>3. GivenHaveField'
  <2> SUFFICES ASSUME NEW t \in ModeTabs, NEW f \in ModeFrames, NEW i \in 1..Len(reports) + 1, Arms(reports'[i], t, f)
               PROVE  field'[t][f] \/ DisarmedAfter(reports', i, t, f)
    BY <1>1 DEF GivenHaveField
  <2>1. CASE i = Len(reports) + 1
    BY <1>1, <2>1 DEF Arms
  <2>2. CASE i \in DOMAIN reports
    <3>1. Arms(reports[i], t, f) /\ i \in 0..Len(reports)
      BY <1>1, <2>2
    <3>2. field[t][f] \/ DisarmedAfter(reports, i, t, f)
      BY <2>2, <3>1 DEF GivenHaveField
    <3> QED BY <3>1, <3>2, <1>2
  <2> QED BY <1>1, <2>1, <2>2
<1>4. OwnersHaveField'
  <2>1. 0 \in 0..Len(reports)
    BY <1>1
  <2> QED BY <1>2, <2>1 DEF OwnersHaveField
<1> QED BY <1>1, <1>3, <1>4

LEMMA GivenIsAdded ==
  ASSUME ModesTyped, FieldIsGiven, NEW r \in Notes, reports' = Append(reports, r), UNCHANGED <<modeTab, strayed, modeOwner>>,
         \A f \in ModeFrames : field'[modeTab][f] =>
           \/ Arms(r, modeTab, f)
           \/ field[modeTab][f] /\ ~Disarms(r, modeTab, f) /\ notices'[modeTab][f] = notices[modeTab][f]
  PROVE  FieldIsGiven'
<1>1. /\ reports \in Seq(Notes) /\ Len(reports) \in Nat /\ DOMAIN reports = 1..Len(reports)
      /\ DOMAIN reports' = 1..Len(reports) + 1 /\ reports'[Len(reports) + 1] = r
      /\ \A i \in DOMAIN reports : reports'[i] = reports[i] /\ modeTab \in ModeTabs
  BY NoteComes, LenProperties DEF ModesTyped
<1>2. \A n \in 0..Len(reports) : \A t, f :
        DisarmedAfter(reports', n, t, f) <=> (DisarmedAfter(reports, n, t, f) \/ Disarms(r, t, f))
  BY <1>1, DisarmsMore
<1> SUFFICES ASSUME ~strayed, NEW f \in ModeFrames, field'[modeTab][f],
                    notices'[modeTab][f] > 0 => FALSE
             PROVE  \/ modeOwner[modeTab] = f /\ ~DisarmedAfter(reports', 0, modeTab, f)
                    \/ \E i \in DOMAIN reports' : Arms(reports'[i], modeTab, f) /\ ~DisarmedAfter(reports', i, modeTab, f)
  BY DEF FieldIsGiven
<1>3. CASE Arms(r, modeTab, f)
  <2>1. ~DisarmedAfter(reports', Len(reports) + 1, modeTab, f)
    BY <1>1 DEF DisarmedAfter
  <2> QED BY <1>1, <1>3, <2>1
<1>4. CASE field[modeTab][f] /\ ~Disarms(r, modeTab, f) /\ notices'[modeTab][f] = notices[modeTab][f]
  <2>1. CASE modeOwner[modeTab] = f /\ ~DisarmedAfter(reports, 0, modeTab, f)
    <3>1. 0 \in 0..Len(reports)
      BY <1>1
    <3> QED BY <1>2, <1>4, <2>1, <3>1
  <2>2. CASE \E i \in DOMAIN reports : Arms(reports[i], modeTab, f) /\ ~DisarmedAfter(reports, i, modeTab, f)
    <3>1. PICK i \in DOMAIN reports : Arms(reports[i], modeTab, f) /\ ~DisarmedAfter(reports, i, modeTab, f)
      BY <2>2
    <3>2. i \in DOMAIN reports' /\ i \in 0..Len(reports) /\ reports'[i] = reports[i]
      BY <1>1
    <3> QED BY <1>2, <1>4, <3>1, <3>2
  <2> QED BY <1>4, <2>1, <2>2 DEF FieldIsGiven
<1> QED BY <1>3, <1>4

(* The same where nothing is said: a field less, a notice more. *)
LEMMA NothingIsSaid ==
  ASSUME ModesTyped, GivenHaveField, OwnersHaveField, UNCHANGED <<reports, field>>,
         \A t \in ModeTabs : modeOwner'[t] \in {modeOwner[t], "none"}
  PROVE  GivenHaveField' /\ OwnersHaveField'
BY ModesAssumption DEF GivenHaveField, OwnersHaveField, ModesTyped

LEMMA FocusComesIn ==
  ASSUME ModesInv, NEW t \in ModeTabs, NEW f \in ModeFrames, FocusIn(t, f)
  PROVE  ModesInv'
<1> DEFINE r == [tab |-> t, frame |-> f, what |-> "on"]
<1>1. /\ ModesTyped /\ r \in Notes /\ ~armed[t][f] /\ reports' = Append(reports, r)
      /\ field' = [field EXCEPT ![t] = [g \in ModeFrames |-> g = f]] /\ armed' = [armed EXCEPT ![t][f] = TRUE]
      /\ focusouts' = focusouts \cup {<<t, g>> : g \in {g \in ModeFrames : field[t][g]}}
      /\ UNCHANGED <<modeTab, mirror, modeOwner, notices, strayed>>
  BY DEF ModesInv, ModesTyped, FocusIn, SetNativeKeys, ArmedHasField, Notes
<1>2. GivenHaveField' /\ OwnersHaveField' /\ reports' \in Seq(Notes)
  <2>1. \A g \in ModeFrames : Arms(r, r.tab, g) => field'[r.tab][g]
    BY <1>1 DEF Arms, ModesTyped
  <2>2. \A s \in ModeTabs : \A g \in ModeFrames : field[s][g] => field'[s][g] \/ Disarms(r, s, g)
    BY <1>1 DEF Disarms, ModesTyped
  <2> QED BY <1>1, <2>1, <2>2, ReportIsAdded DEF ModesInv
<1>3. FieldIsGiven'
  <2>1. \A g \in ModeFrames : field'[modeTab][g] =>
           \/ Arms(r, modeTab, g)
           \/ field[modeTab][g] /\ ~Disarms(r, modeTab, g) /\ notices'[modeTab][g] = notices[modeTab][g]
    BY <1>1 DEF Arms, Disarms, ModesTyped
  <2> QED BY <1>1, <2>1, GivenIsAdded DEF ModesInv
<1>4. ModesTyped' /\ OneField' /\ FieldIsArmed' /\ ArmedHasField' /\ MirrorHasOwner'
  BY <1>1, <1>2 DEF ModesInv, ModesTyped, OneField, FieldIsArmed, ArmedHasField, MirrorHasOwner
<1> QED BY <1>2, <1>3, <1>4 DEF ModesInv

LEMMA FieldIsLeft ==
  ASSUME ModesInv, NEW t \in ModeTabs, NEW f \in ModeFrames, FocusGoes(t, f)
  PROVE  ModesInv'
<1> DEFINE r == [tab |-> t, frame |-> f, what |-> "off"]
<1>1. /\ ModesTyped /\ r \in Notes /\ field[t][f] /\ armed[t][f] /\ reports' = Append(reports, r)
      /\ field' = [field EXCEPT ![t][f] = FALSE] /\ armed' = [armed EXCEPT ![t][f] = FALSE]
      /\ UNCHANGED <<modeTab, mirror, modeOwner, notices, strayed, focusouts>>
  BY DEF ModesInv, ModesTyped, FocusGoes, SetNativeKeys, FieldIsArmed, Notes
<1>2. \A s \in ModeTabs : \A g \in ModeFrames : field'[s][g] => field[s][g] /\ ~Disarms(r, s, g)
  BY <1>1 DEF ModesInv, OneField, ModesTyped, Disarms
<1>3. GivenHaveField' /\ OwnersHaveField' /\ reports' \in Seq(Notes)
  <2>1. \A g \in ModeFrames : ~Arms(r, r.tab, g)
    BY DEF Arms
  <2>2. \A s \in ModeTabs : \A g \in ModeFrames : field[s][g] => field'[s][g] \/ Disarms(r, s, g)
    BY <1>1 DEF Disarms, ModesTyped
  <2> QED BY <1>1, <2>1, <2>2, ReportIsAdded DEF ModesInv
<1>4. FieldIsGiven'
  <2>1. \A g \in ModeFrames : field'[modeTab][g] => 
           field[modeTab][g] /\ ~Disarms(r, modeTab, g) /\ notices'[modeTab][g] = notices[modeTab][g]
    BY <1>1, <1>2 DEF ModesTyped
  <2> QED BY <1>1, <2>1, GivenIsAdded DEF ModesInv
<1>5. ModesTyped' /\ OneField' /\ FieldIsArmed' /\ ArmedHasField' /\ MirrorHasOwner'
  BY <1>1, <1>3 DEF ModesInv, ModesTyped, OneField, FieldIsArmed, ArmedHasField, MirrorHasOwner
<1> QED BY <1>3, <1>4, <1>5 DEF ModesInv

LEMMA FocusoutIsHeard ==
  ASSUME ModesInv, NEW t \in ModeTabs, NEW f \in ModeFrames, FocusOut(t, f)
  PROVE  ModesInv'
<1> DEFINE r == [tab |-> t, frame |-> f, what |-> "off"]
<1>1. /\ ModesTyped /\ r \in Notes /\ field' = field /\ armed' = [armed EXCEPT ![t][f] = field[t][f]]
      /\ focusouts' = focusouts \ {<<t, f>>} /\ UNCHANGED <<modeTab, mirror, modeOwner, notices, strayed>>
      /\ reports' \in {reports, Append(reports, r)} /\ (field[t][f] => reports' = reports)
  BY DEF ModesInv, ModesTyped, FocusOut, SetNativeKeys, FieldIsArmed, Notes
<1>2. CASE reports' = reports
  <2>1. GivenHaveField' /\ OwnersHaveField' /\ FieldIsGiven'
    BY <1>1, <1>2, NothingIsSaid DEF ModesInv, FieldIsGiven
  <2> QED BY <1>1, <1>2, <2>1 DEF ModesInv, ModesTyped, OneField, FieldIsArmed, ArmedHasField, MirrorHasOwner
<1>3. CASE reports' = Append(reports, r) /\ ~field[t][f]
  <2>1. \A s \in ModeTabs : \A g \in ModeFrames : field[s][g] => ~Disarms(r, s, g)
    BY <1>1, <1>3 DEF ModesInv, ModesTyped, Disarms
  <2>2. GivenHaveField' /\ OwnersHaveField' /\ reports' \in Seq(Notes)
    <3>1. \A g \in ModeFrames : ~Arms(r, r.tab, g)
      BY DEF Arms
    <3> QED BY <1>1, <1>3, <3>1, ReportIsAdded DEF ModesInv
  <2>3. FieldIsGiven'
    <3>1. modeTab \in ModeTabs /\ r \in Notes
      BY <1>1 DEF ModesTyped
    <3> QED BY <1>1, <1>3, <2>1, <3>1, GivenIsAdded DEF ModesInv
  <2> QED BY <1>1, <2>2, <2>3 DEF ModesInv, ModesTyped, OneField, FieldIsArmed, ArmedHasField, MirrorHasOwner
<1> QED BY <1>1, <1>2, <1>3 DEF ModesInv, ModesTyped

LEMMA NoticeIsHeard ==
  ASSUME ModesInv, NEW t \in ModeTabs, NEW f \in ModeFrames, HearNotice(t, f)
  PROVE  ModesInv'
<1> DEFINE r == [tab |-> t, frame |-> f, what |-> "on"]
<1>1. /\ ModesTyped /\ r \in Notes /\ field' = field /\ armed' = [armed EXCEPT ![t][f] = field[t][f]]
      /\ notices' = [notices EXCEPT ![t][f] = notices[t][f] - 1] /\ notices[t][f] \in Nat \ {0}
      /\ UNCHANGED <<modeTab, mirror, modeOwner, focusouts, strayed>>
      /\ reports' = IF field[t][f] THEN Append(reports, r) ELSE reports
  BY DEF ModesInv, ModesTyped, HearNotice, Notes
<1>2. notices' \in [ModeTabs -> [ModeFrames -> Nat]]
  BY <1>1 DEF ModesTyped
<1>3. CASE ~field[t][f]
  <2>1. \A g \in ModeFrames : field[modeTab][g] => notices'[modeTab][g] = notices[modeTab][g]
    BY <1>1, <1>3 DEF ModesTyped
  <2>2. GivenHaveField' /\ OwnersHaveField'
    BY <1>1, <1>3, NothingIsSaid DEF ModesInv
  <2>3. FieldIsGiven'
    BY <1>1, <1>3, <2>1 DEF ModesInv, FieldIsGiven
  <2> QED BY <1>1, <1>2, <1>3, <2>2, <2>3 DEF ModesInv, ModesTyped, OneField, FieldIsArmed, ArmedHasField, MirrorHasOwner
<1>4. CASE field[t][f]
  <2>1. \A g \in ModeFrames : field[modeTab][g] =>
           \/ Arms(r, modeTab, g)
           \/ ~Disarms(r, modeTab, g) /\ notices'[modeTab][g] = notices[modeTab][g]
    <3> SUFFICES ASSUME NEW g \in ModeFrames, field[modeTab][g], ~(t = modeTab /\ f = g)
                 PROVE  ~Disarms(r, modeTab, g) /\ notices'[modeTab][g] = notices[modeTab][g]
      BY DEF Arms
    <3>1. t # modeTab
      BY <1>1, <1>4 DEF ModesInv, OneField, ModesTyped
    <3> QED BY <1>1, <3>1 DEF Disarms, ModesTyped
  <2>2. GivenHaveField' /\ OwnersHaveField' /\ reports' \in Seq(Notes)
    <3>1. \A g \in ModeFrames : Arms(r, r.tab, g) => field'[r.tab][g]
      BY <1>1, <1>4 DEF Arms
    <3> QED BY <1>1, <1>4, <3>1, ReportIsAdded DEF ModesInv
  <2>3. FieldIsGiven'
    BY <1>1, <1>4, <2>1, GivenIsAdded DEF ModesInv
  <2> QED BY <1>1, <1>2, <2>2, <2>3 DEF ModesInv, ModesTyped, OneField, FieldIsArmed, ArmedHasField, MirrorHasOwner
<1> QED BY <1>3, <1>4

LEMMA DocumentIsNew ==
  ASSUME ModesInv, NEW t \in ModeTabs, Reloads(t)
  PROVE  ModesInv'
<1> DEFINE r == [tab |-> t, frame |-> "top", what |-> "ready"]
<1>1. /\ ModesTyped /\ r \in Notes /\ reports' = Append(reports, r)
      /\ field' = [field EXCEPT ![t] = [g \in ModeFrames |-> FALSE]]
      /\ armed' = [armed EXCEPT ![t] = [g \in ModeFrames |-> FALSE]]
      /\ notices' = [notices EXCEPT ![t] = [g \in ModeFrames |-> 0]]
      /\ focusouts' = {x \in focusouts : x[1] # t} /\ UNCHANGED <<modeTab, mirror, modeOwner, strayed>>
  BY ModesAssumption DEF ModesInv, ModesTyped, Reloads, Notes
<1>2. \A s \in ModeTabs : \A g \in ModeFrames : field'[s][g] => s # t /\ field[s][g]
  BY <1>1 DEF ModesTyped
<1>3. GivenHaveField' /\ OwnersHaveField' /\ reports' \in Seq(Notes)
  <2>1. \A g \in ModeFrames : ~Arms(r, r.tab, g)
    BY DEF Arms
  <2>2. \A s \in ModeTabs : \A g \in ModeFrames : field[s][g] => field'[s][g] \/ Disarms(r, s, g)
    BY <1>1 DEF Disarms, ModesTyped
  <2> QED BY <1>1, <2>1, <2>2, ReportIsAdded DEF ModesInv
<1>4. FieldIsGiven'
  <2>1. \A g \in ModeFrames : field'[modeTab][g] =>
           field[modeTab][g] /\ ~Disarms(r, modeTab, g) /\ notices'[modeTab][g] = notices[modeTab][g]
    BY <1>1, <1>2 DEF ModesTyped, Disarms
  <2> QED BY <1>1, <2>1, GivenIsAdded DEF ModesInv
<1>5. ModesTyped' /\ OneField' /\ FieldIsArmed' /\ ArmedHasField' /\ MirrorHasOwner'
  <2>1. ModesTyped'
    BY <1>1, <1>3 DEF ModesTyped
  <2>2. OneField' /\ FieldIsArmed' /\ ArmedHasField'
    BY <1>1, <1>2 DEF ModesInv, ModesTyped, OneField, FieldIsArmed, ArmedHasField
  <2> QED BY <1>1, <2>1, <2>2 DEF ModesInv, MirrorHasOwner
<1> QED BY <1>3, <1>4, <1>5 DEF ModesInv

LEMMA PingIsAnswered ==
  ASSUME ModesInv, NEW t \in ModeTabs, AnswersPing(t)
  PROVE  ModesInv'
<1> DEFINE r == [tab |-> t, frame |-> "top", what |-> "ready"]
<1>1. /\ ModesTyped /\ r \in Notes /\ reports' = Append(reports, r) /\ strayed' = TRUE
      /\ UNCHANGED <<modeTab, mirror, modeOwner, field, armed, focusouts, notices>>
  BY ModesAssumption DEF ModesInv, ModesTyped, AnswersPing, Notes
<1>2. GivenHaveField' /\ OwnersHaveField' /\ reports' \in Seq(Notes)
  <2>1. \A g \in ModeFrames : ~Arms(r, r.tab, g)
    BY DEF Arms
  <2> QED BY <1>1, <2>1, ReportIsAdded DEF ModesInv
<1> QED BY <1>1, <1>2 DEF ModesInv, ModesTyped, OneField, FieldIsArmed, ArmedHasField, MirrorHasOwner, FieldIsGiven

LEMMA ReportIsHeard ==
  ASSUME ModesInv, HearReport
  PROVE  ModesInv'
<1> DEFINE r == Head(reports)
<1>1. /\ ModesTyped /\ reports # <<>> /\ reports \in Seq(Notes) /\ reports' = Tail(reports) /\ r \in Notes
      /\ strayed' = (strayed \/ r.tab # modeTab) /\ UNCHANGED <<modeTab, field, armed, focusouts, notices>>
  BY NoteGoes DEF ModesInv, ModesTyped, HearReport
<1>2. \/ r.what = "on" /\ mirror' = TRUE /\ modeOwner' = [modeOwner EXCEPT ![r.tab] = r.frame]
      \/ /\ r.what # "on" /\ (r.what = "ready" \/ modeOwner[r.tab] \in {"none", r.frame})
         /\ mirror' = FALSE /\ modeOwner' = [modeOwner EXCEPT ![r.tab] = "none"]
      \/ r.what = "off" /\ modeOwner[r.tab] \notin {"none", r.frame} /\ UNCHANGED <<mirror, modeOwner>>
  BY <1>1 DEF HearReport, Notes
<1>3. /\ reports' \in Seq(Notes) /\ DOMAIN reports = 1..Len(reports) /\ DOMAIN reports' = 1..Len(reports) - 1
      /\ Len(reports) \in Nat \ {0} /\ reports[1] = r /\ \A i \in DOMAIN reports' : reports'[i] = reports[i + 1]
  BY <1>1, NoteGoes
<1>4. \A t, f : \A n \in Nat :
        /\ DisarmedAfter(reports', n, t, f) <=> DisarmedAfter(reports, n + 1, t, f)
        /\ DisarmedAfter(reports, 0, t, f) <=> Disarms(r, t, f) \/ DisarmedAfter(reports', 0, t, f)
  BY <1>1, DisarmsLess
<1>5. ModesTyped'
  BY <1>1, <1>2, <1>3, ModesAssumption DEF ModesTyped, Notes
<1>6. GivenHaveField'
  <2> SUFFICES ASSUME NEW t \in ModeTabs, NEW f \in ModeFrames, NEW i \in DOMAIN reports', Arms(reports'[i], t, f)
               PROVE  field[t][f] \/ DisarmedAfter(reports', i, t, f)
    BY <1>1 DEF GivenHaveField
  <2>1. i \in Nat /\ i + 1 \in DOMAIN reports /\ Arms(reports[i + 1], t, f)
    BY <1>3
  <2>2. field[t][f] \/ DisarmedAfter(reports, i + 1, t, f)
    BY <2>1 DEF ModesInv, GivenHaveField
  <2> QED BY <1>4, <2>1, <2>2
<1>7. OwnersHaveField'
  <2> SUFFICES ASSUME NEW t \in ModeTabs, NEW f \in ModeFrames, modeOwner'[t] = f
               PROVE  field[t][f] \/ DisarmedAfter(reports', 0, t, f)
    BY <1>1 DEF OwnersHaveField
  <2>1. CASE Arms(r, t, f)
    <3>1. 1 \in DOMAIN reports /\ Arms(reports[1], t, f)
      BY <1>3, <2>1
    <3>2. field[t][f] \/ DisarmedAfter(reports, 1, t, f)
      BY <3>1 DEF ModesInv, GivenHaveField
    <3>3. DisarmedAfter(reports', 0, t, f) <=> DisarmedAfter(reports, 0 + 1, t, f)
      BY <1>4
    <3> QED BY <3>2, <3>3
  <2>2. CASE ~Arms(r, t, f)
    <3>1. modeOwner[t] = f /\ ~Disarms(r, t, f)
      BY <1>1, <1>2, <2>2, ModesAssumption DEF ModesTyped, Arms, Disarms, Notes
    <3>2. field[t][f] \/ DisarmedAfter(reports, 0, t, f)
      BY <3>1 DEF ModesInv, OwnersHaveField
    <3> QED BY <1>4, <3>1, <3>2
  <2> QED BY <2>1, <2>2
<1>8. FieldIsGiven'
  <2> SUFFICES ASSUME ~strayed, r.tab = modeTab, NEW f \in ModeFrames, field[modeTab][f], ~(notices[modeTab][f] > 0)
               PROVE  \/ modeOwner'[modeTab] = f /\ ~DisarmedAfter(reports', 0, modeTab, f)
                      \/ \E i \in DOMAIN reports' : Arms(reports'[i], modeTab, f) /\ ~DisarmedAfter(reports', i, modeTab, f)
    BY <1>1 DEF FieldIsGiven
  <2>1. CASE modeOwner[modeTab] = f /\ ~DisarmedAfter(reports, 0, modeTab, f)
    <3>1. ~Disarms(r, modeTab, f) /\ ~DisarmedAfter(reports', 0, modeTab, f)
      BY <1>4, <2>1
    <3>2. modeOwner'[modeTab] = f
      BY <1>1, <1>2, <2>1, <3>1, ModesAssumption DEF ModesTyped, Disarms, Notes
    <3> QED BY <3>1, <3>2
  <2>2. CASE \E i \in DOMAIN reports : Arms(reports[i], modeTab, f) /\ ~DisarmedAfter(reports, i, modeTab, f)
    <3>1. PICK i \in DOMAIN reports : Arms(reports[i], modeTab, f) /\ ~DisarmedAfter(reports, i, modeTab, f)
      BY <2>2
    <3>2. CASE i = 1
      <4>1. modeOwner'[modeTab] = f
        BY <1>1, <1>2, <1>3, <3>1, <3>2 DEF ModesTyped, Arms
      <4>2. DisarmedAfter(reports', 0, modeTab, f) <=> DisarmedAfter(reports, 0 + 1, modeTab, f)
        BY <1>4
      <4> QED BY <3>1, <3>2, <4>1, <4>2
    <3>3. CASE i # 1
      <4>1. i - 1 \in DOMAIN reports' /\ reports'[i - 1] = reports[i] /\ i - 1 \in Nat /\ (i - 1) + 1 = i
        BY <1>3, <3>3
      <4> QED BY <1>4, <3>1, <4>1
    <3> QED BY <3>2, <3>3
  <2> QED BY <2>1, <2>2 DEF ModesInv, FieldIsGiven
<1>9. MirrorHasOwner'
  BY <1>1, <1>2, ModesAssumption DEF ModesInv, MirrorHasOwner, ModesTyped, Notes
<1> QED BY <1>1, <1>5, <1>6, <1>7, <1>8, <1>9 DEF ModesInv, OneField, FieldIsArmed, ArmedHasField

(* A mode message to all frames of the tab that is shown then. *)
LEMMA ModeIsSaid ==
  ASSUME ModesInv, NEW tabs, modeTab' \in ModeTabs, modeTab' \in tabs, mirror' = FALSE, strayed' = FALSE,
         modeOwner' = [modeOwner EXCEPT ![modeTab'] = "none"], Tell(tabs), UNCHANGED <<field, armed, focusouts, reports>>
  PROVE  ModesInv'
<1>1. ModesTyped /\ notices' \in [ModeTabs -> [ModeFrames -> Nat]] /\ \A f \in ModeFrames : notices'[modeTab'][f] > 0
  BY DEF ModesInv, ModesTyped, Tell
<1>2. GivenHaveField' /\ OwnersHaveField'
  <2>1. \A t \in ModeTabs : modeOwner'[t] \in {modeOwner[t], "none"}
    BY <1>1 DEF ModesTyped
  <2> QED BY <1>1, <2>1, NothingIsSaid DEF ModesInv
<1>3. ModesTyped' /\ FieldIsGiven' /\ MirrorHasOwner'
  BY <1>1 DEF ModesTyped, FieldIsGiven, MirrorHasOwner
<1> QED BY <1>2, <1>3 DEF ModesInv, OneField, FieldIsArmed, ArmedHasField

LEMMA ModesStep == ModesInv /\ [ModesNext]_modeVars => ModesInv'
<1> SUFFICES ASSUME ModesInv, [ModesNext]_modeVars PROVE ModesInv'
  OBVIOUS
<1>1. ASSUME NEW t \in ModeTabs, ShowsModeTab(t) PROVE ModesInv'
  <2>1. /\ modeTab' = t /\ mirror' = FALSE /\ strayed' = FALSE /\ modeOwner' = [modeOwner EXCEPT ![t] = "none"] /\ Tell({t})
        /\ UNCHANGED <<field, armed, focusouts, reports>>
    BY <1>1 DEF ShowsModeTab
  <2> QED BY <2>1, ModeIsSaid
<1>2. ASSUME ShortcutMode PROVE ModesInv'
  <2>1. /\ modeTab' = modeTab /\ mirror' = FALSE /\ strayed' = FALSE /\ Tell(ModeTabs) /\ modeTab \in ModeTabs
        /\ modeOwner' = [modeOwner EXCEPT ![modeTab] = "none"] /\ UNCHANGED <<field, armed, focusouts, reports>>
    BY <1>2 DEF ShortcutMode, ModesInv, ModesTyped
  <2> QED BY <2>1, ModeIsSaid
<1>3. CASE UNCHANGED modeVars
  BY <1>3 DEF modeVars, ModesInv, ModesTyped, OneField, FieldIsArmed, ArmedHasField, GivenHaveField, OwnersHaveField,
              FieldIsGiven, MirrorHasOwner
<1> QED BY <1>1, <1>2, <1>3, FocusComesIn, FieldIsLeft, FocusoutIsHeard, NoticeIsHeard, DocumentIsNew, PingIsAnswered,
           ReportIsHeard DEF ModesNext

LEMMA ModesStart == ModesInit => ModesInv
<1> SUFFICES ASSUME ModesInit PROVE ModesInv
  OBVIOUS
<1>1. ModesTyped
  BY EmptySeq DEF ModesInit, ModesTyped
<1>2. GivenHaveField /\ OwnersHaveField
  BY ModesAssumption DEF ModesInit, GivenHaveField, OwnersHaveField
<1> QED BY <1>1, <1>2 DEF ModesInit, ModesInv, OneField, FieldIsArmed, ArmedHasField, FieldIsGiven, MirrorHasOwner

LEMMA ModesMet == ModesInv => MirrorIsRightAlone /\ ArmedIsOwner
<1> SUFFICES ASSUME ModesInv, ~strayed, ModesSettled
             PROVE  /\ mirror = (\E f \in ModeFrames : field[modeTab][f])
                    /\ \A f \in ModeFrames : armed[modeTab][f] => modeOwner[modeTab] = f
  BY DEF MirrorIsRightAlone, MirrorIsRight, ArmedIsOwner
<1>1. /\ modeTab \in ModeTabs /\ reports = <<>> /\ focusouts = {} /\ mirror \in BOOLEAN
      /\ \A f \in ModeFrames : ~(notices[modeTab][f] > 0)
  BY DEF ModesInv, ModesTyped, ModesSettled
<1>2. \A n, f : ~DisarmedAfter(reports, n, modeTab, f)
  BY <1>1 DEF DisarmedAfter
<1>3. \A f \in ModeFrames : field[modeTab][f] <=> modeOwner[modeTab] = f
  <2>1. \A f \in ModeFrames : field[modeTab][f] => modeOwner[modeTab] = f
    BY <1>1 DEF ModesInv, FieldIsGiven
  <2>2. \A f \in ModeFrames : modeOwner[modeTab] = f => field[modeTab][f]
    BY <1>1, <1>2 DEF ModesInv, OwnersHaveField
  <2> QED BY <2>1, <2>2
<1>4. mirror <=> \E f \in ModeFrames : modeOwner[modeTab] = f
  BY <1>1, ModesAssumption DEF ModesInv, MirrorHasOwner, ModesTyped
<1>5. \A f \in ModeFrames : armed[modeTab][f] => field[modeTab][f]
  BY <1>1 DEF ModesInv, ArmedHasField
<1> QED BY <1>1, <1>3, <1>4, <1>5

-----------------------------------------------------------------------------
(* The reports that say where the pointer has come.                                             *)
InMotion(r) == r.what \in {"motion", "drag"}
Intervals == [lo : Int, hi : Int]
Between(e, o) == e.lo <= o /\ o <= e.hi
Samples == [x : Places, age : 0..3]
CellReports == [col : Int, age : 0..3, what : {"motion", "drag", "down", "up"}]
PointerTyped ==
  /\ pos \in Places /\ origin \in Origins /\ samples \in Seq(Samples) /\ cellReports \in Seq(CellReports)
  /\ estimate \in Intervals /\ challenger \in Intervals /\ lastReport \in [col : Int, after : Nat]
  /\ misled \subseteq {"shift", "late", "left"} /\ (lastReport.col = -1 => lastReport = NoReport)
  /\ \A i \in DOMAIN cellReports : InMotion(cellReports[i]) => cellReports[i].col >= 0
  /\ sent.off \in Int

(* Of a pointer that nothing has misled the estimate about.                                      *)
ReportsAreInTime == \A i \in DOMAIN cellReports : cellReports[i].age <= ReportWindow
(* A report came when the helper saw the pointer enter its cell.                                 *)
ReportsAreOfSamples == \A i \in DOMAIN cellReports : InMotion(cellReports[i]) =>
  \E j \in DOMAIN samples : samples[j].age = cellReports[i].age /\ CellOf(samples[j].x) = cellReports[i].col
(* Since the last report the pointer has been in its cell, or has left it with a report on its way. *)
SamplesAreOfLast == lastReport.col # -1 => \A j \in DOMAIN samples : j > lastReport.after =>
  \/ CellOf(samples[j].x) = lastReport.col
  \/ \E i \in DOMAIN cellReports : InMotion(cellReports[i]) /\ cellReports[i].age >= samples[j].age
(* The pointer is in the cell last reported, or out of the pane.                                  *)
IsAt(col) == CellOf(pos) = col \/ ~InPane(pos)
LastIsTold ==
  \/ /\ \A i \in DOMAIN cellReports : ~InMotion(cellReports[i])
     /\ lastReport.col = -1 \/ IsAt(lastReport.col)
  \/ \E i \in DOMAIN cellReports : /\ InMotion(cellReports[i]) /\ IsAt(cellReports[i].col)
                                   /\ \A k \in DOMAIN cellReports : k > i => ~InMotion(cellReports[k])
PointerKnown == /\ Between(estimate, origin) /\ ReportsAreInTime /\ ReportsAreOfSamples /\ SamplesAreOfLast /\ LastIsTold
PointerInv == PointerTyped /\ (~over => cellReports = <<>>) /\ PointIsTrue /\ (misled = {} => PointerKnown)

LEMMA PlacesAreInt ==
  /\ Boundless \in Nat /\ Places \subseteq 0..Boundless /\ Places \subseteq Nat /\ Places \subseteq Int
  /\ Origins \subseteq 0..Boundless /\ Origins \subseteq Int
<1>1. Boundless \in Nat
  BY DEF Boundless
<1> QED BY <1>1, PointerAssumption

LEMMA SmallestIsThere ==
  ASSUME NEW S, S \subseteq Nat, S # {}
  PROVE  Min(S) \in S /\ \A y \in S : Min(S) <= y
<1> DEFINE T == {0..x : x \in S}
<1>1. T \subseteq FiniteSubsetsOf(Nat) /\ T # {}
  <2>1. \A x \in S : IsFiniteSet(0..x) /\ 0..x \in SUBSET Nat
    BY FS_Interval
  <2> QED BY <2>1 DEF FiniteSubsetsOf
<1>2. PICK t \in T : \A u \in T : ~(<<u, t>> \in StrictSubsetOrdering(Nat))
  BY <1>1, FS_StrictSubsetOrderingWellFounded, WFMin
<1>3. PICK x \in S : t = 0..x
  OBVIOUS
<1>4. ASSUME NEW y \in S, y < x PROVE FALSE
  <2>1. 0..y \in T /\ 0..y \subseteq 0..x /\ x \in 0..x /\ x \notin 0..y /\ 0..x \subseteq Nat /\ 0..y \subseteq Nat
    BY <1>4
  <2>2. <<0..y, t>> \in StrictSubsetOrdering(Nat)
    BY <2>1, <1>3 DEF StrictSubsetOrdering
  <2> QED BY <1>2, <2>1, <2>2
<1>5. \E z \in S : \A y \in S : z <= y
  BY <1>4
<1> QED BY <1>5 DEF Min

LEMMA GreatestIsThere ==
  ASSUME NEW b \in Nat, NEW S, S \subseteq 0..b, S # {}
  PROVE  Max(S) \in S /\ \A y \in S : Max(S) >= y
<1> DEFINE T == {b - x : x \in S}
<1>1. T \subseteq Nat /\ T # {}
  <2>1. \A x \in S : b - x \in Nat /\ b - x \in T
    OBVIOUS
  <2> QED BY <2>1
<1>2. PICK t \in T : \A u \in T : t <= u
  BY <1>1, SmallestIsThere
<1>3. PICK x \in S : t = b - x
  OBVIOUS
<1>4. \A y \in S : x >= y
  BY <1>2, <1>3
<1> QED BY <1>4 DEF Max

LEMMA CellHolds ==
  ASSUME NEW a \in Int, NEW c \in Nat, c >= 4
  PROVE  c * (a \div c) <= a /\ a < c * (a \div c) + c /\ a \div c \in Int
OBVIOUS

(* What an offer makes of an interval; of one that agrees, the part both have.                  *)
LEMMA HalvesAreInt == ASSUME NEW a \in Int PROVE a \div 2 \in Int /\ 2 * (a \div 2) <= a /\ a <= 2 * (a \div 2) + 1
OBVIOUS

LEMMA AppliedIs ==
  ASSUME NEW e \in Intervals, NEW b \in Intervals
  PROVE  /\ Apply(e, b) \in Intervals /\ Fits(e, b) \in BOOLEAN
         /\ \A o \in Int : Between(e, o) /\ Between(b, o) => Fits(e, b) /\ Between(Apply(e, b), o)
<1>1. e.lo \in Int /\ e.hi \in Int /\ b.lo \in Int /\ b.hi \in Int
  BY DEF Intervals
<1>2. PICK lo \in Int : lo = Max({e.lo, b.lo}) /\ lo = IF e.lo >= b.lo THEN e.lo ELSE b.lo
  BY <1>1, GreaterOfTwo
<1>3. PICK hi \in Int : hi = Min({e.hi, b.hi}) /\ hi = IF e.hi <= b.hi THEN e.hi ELSE b.hi
  BY <1>1, LesserOfTwo
<1>4. PICK middle \in Int : middle = (lo + hi) \div 2
  BY HalvesAreInt
<1>5. /\ Fits(e, b) <=> lo <= hi + 2
      /\ Apply(e, b) = IF lo > hi THEN [lo |-> middle, hi |-> middle] ELSE [lo |-> lo, hi |-> hi]
  BY <1>2, <1>3, <1>4 DEF Fits, Apply, Agree
<1>6. Fits(e, b) \in BOOLEAN
  BY DEF Fits
<1>7. Apply(e, b) \in Intervals
  BY <1>5 DEF Intervals
<1>8. ASSUME NEW o \in Int, Between(e, o), Between(b, o) PROVE Fits(e, b) /\ Between(Apply(e, b), o)
  <2>1. lo <= o /\ o <= hi
    BY <1>1, <1>2, <1>3, <1>8 DEF Between
  <2>2. Apply(e, b) = [lo |-> lo, hi |-> hi]
    BY <1>5, <2>1
  <2> QED BY <1>5, <2>1, <2>2 DEF Between
<1> QED BY <1>6, <1>7, <1>8

LEMMA OfferIs ==
  ASSUME NEW g \in [estimate : Intervals, challenger : Intervals], NEW b \in Intervals
  PROVE  /\ Offer(g, b) \in [estimate : Intervals, challenger : Intervals]
         /\ \A o \in Int : Between(g.estimate, o) /\ Between(b, o) => Between(Offer(g, b).estimate, o)
<1>1. /\ g.estimate \in Intervals /\ g.challenger \in Intervals /\ NoChallenger \in Intervals
      /\ Apply(g.estimate, b) \in Intervals /\ Apply(g.challenger, b) \in Intervals
      /\ \A o \in Int : Between(g.estimate, o) /\ Between(b, o)
                          => Fits(g.estimate, b) /\ Between(Apply(g.estimate, b), o)
  BY AppliedIs DEF NoChallenger, Intervals
<1> QED BY <1>1 DEF Offer

LEMMA BoundsAre ==
  ASSUME origin \in Origins, NEW col \in Int, NEW xs, xs \subseteq Places, xs # {}
  PROVE  /\ Bounds(col, xs) \in Intervals
         /\ \A x \in xs : CellOf(x) = col => Between(Bounds(col, xs), origin)
<1>1. /\ xs \subseteq 0..Boundless /\ Boundless \in Nat /\ xs \subseteq Nat /\ origin \in Int /\ Cell \in Nat /\ Cell >= 4
      /\ xs \subseteq Int
  BY PlacesAreInt, PointerAssumption
<1>2. Min(xs) \in xs /\ (\A y \in xs : Min(xs) <= y) /\ Max(xs) \in xs /\ (\A y \in xs : Max(xs) >= y)
  BY <1>1, SmallestIsThere, GreatestIsThere
<1>3. PICK k \in Int : k = col * Cell /\ (col + 1) * Cell = k + Cell /\ Cell * col = k
  BY <1>1
<1>4. PICK lo \in Int, hi \in Int : lo = Min(xs) /\ hi = Max(xs)
  BY <1>1, <1>2
<1>5. Bounds(col, xs) = [lo |-> lo - (k + Cell), hi |-> hi - k]
  BY <1>3, <1>4 DEF Bounds
<1>6. ASSUME NEW x \in xs, CellOf(x) = col PROVE Between(Bounds(col, xs), origin)
  <2>1. x \in Int /\ x - origin \in Int
    BY <1>1
  <2>2. k <= x - origin /\ x - origin < k + Cell
    BY <1>1, <1>3, <1>6, <2>1, CellHolds DEF CellOf
  <2>3. lo <= x /\ x <= hi
    BY <1>2, <1>4, <2>1
  <2>4. lo - (k + Cell) <= origin /\ origin <= hi - k
    BY <1>1, <2>1, <2>2, <2>3
  <2> QED BY <1>5, <2>4 DEF Between
<1>7. Bounds(col, xs) \in Intervals
  BY <1>1, <1>5 DEF Intervals
<1> QED BY <1>6, <1>7

LEMMA OfferedIs ==
  ASSUME origin \in Origins, NEW g \in [estimate : Intervals, challenger : Intervals], NEW col \in Int,
         NEW xs, xs \subseteq Places
  PROVE  /\ Offered(g, col, xs) \in [estimate : Intervals, challenger : Intervals]
         /\ Between(g.estimate, origin) /\ (xs = {} \/ \E x \in xs : CellOf(x) = col)
              => Between(Offered(g, col, xs).estimate, origin)
<1>1. origin \in Int
  BY PointerAssumption
<1>2. CASE xs = {}
  BY <1>2 DEF Offered
<1>3. CASE xs # {}
  <2>1. Bounds(col, xs) \in Intervals /\ \A x \in xs : CellOf(x) = col => Between(Bounds(col, xs), origin)
    BY <1>3, BoundsAre
  <2> QED BY <1>1, <1>3, <2>1, OfferIs DEF Offered
<1> QED BY <1>2, <1>3

(* The middle of a narrow interval is less than half a cell from all it holds.                  *)
LEMMA MiddleIsNear ==
  ASSUME origin \in Origins, NEW e \in Intervals, Between(e, origin), Narrow(e)
  PROVE  -(Cell \div 2) <= origin - Middle(e) /\ origin - Middle(e) <= Cell \div 2
<1>1. origin \in Int /\ Cell \in Int /\ Cell >= 4 /\ e.lo \in Int /\ e.hi \in Int
  BY PointerAssumption DEF Intervals
<1>2. Cell \div 2 \in Int /\ Cell \div 2 >= 2
  BY <1>1, HalvesAreInt
<1>3. Max({2, Cell \div 2}) = Cell \div 2
  BY <1>2, GreaterOfTwo
<1>4. e.hi - e.lo <= Cell \div 2
  BY <1>3 DEF Narrow
<1>5. Middle(e) \in Int /\ 2 * Middle(e) <= e.lo + e.hi /\ e.lo + e.hi <= 2 * Middle(e) + 1
  BY <1>1, HalvesAreInt DEF Middle
<1> QED BY <1>1, <1>2, <1>4, <1>5 DEF Between

LEMMA CellsOfPane ==
  ASSUME origin \in Origins, NEW x \in Places, NEW y \in Places
  PROVE  /\ CellOf(x) \in Int /\ (InPane(x) => CellOf(x) >= 0)
         /\ CellOf(x) = CellOf(y) => (InPane(x) <=> InPane(y))
<1>1. x - origin \in Int /\ y - origin \in Int /\ x \in Int /\ y \in Int /\ origin \in Int /\ Cell \in Nat /\ Cell >= 4
  BY PointerAssumption
<1>2. CellOf(x) \in Int /\ CellOf(y) \in Int
  BY <1>1, CellHolds DEF CellOf
<1>3. (x >= origin <=> CellOf(x) >= 0) /\ (y >= origin <=> CellOf(y) >= 0)
  <2>1. ASSUME NEW z \in Int PROVE z >= 0 <=> z \div Cell >= 0
    <3>1. PICK k \in Int : k = z \div Cell
      BY <1>1, CellHolds
    <3>2. Cell * k <= z /\ z < Cell * k + Cell
      BY <1>1, <3>1, CellHolds
    <3>3. CASE k >= 0
      <4>1. Cell * k >= 0
        BY <1>1, <3>3
      <4> QED BY <1>1, <3>1, <3>2, <3>3, <4>1
    <3>4. CASE k <= -1
      <4>1. Cell * k <= -Cell
        BY <1>1, <3>4
      <4> QED BY <1>1, <3>1, <3>2, <3>4, <4>1
    <3> QED BY <3>3, <3>4
  <2> QED BY <1>1, <2>1 DEF CellOf
<1> QED BY <1>1, <1>2, <1>3 DEF InPane

LEMMA SampleComes ==
  ASSUME NEW q \in Seq(Samples), NEW r \in Samples
  PROVE  /\ Append(q, r) \in Seq(Samples) /\ DOMAIN q = 1..Len(q) /\ DOMAIN Append(q, r) = 1..Len(q) + 1 /\ Len(q) \in Nat
         /\ Append(q, r)[Len(q) + 1] = r /\ \A i \in DOMAIN q : Append(q, r)[i] = q[i]
BY AppendProperties, LenProperties

LEMMA CellReportComes ==
  ASSUME NEW q \in Seq(CellReports), NEW r \in CellReports
  PROVE  /\ Append(q, r) \in Seq(CellReports) /\ DOMAIN q = 1..Len(q) /\ DOMAIN Append(q, r) = 1..Len(q) + 1 /\ Len(q) \in Nat
         /\ Append(q, r)[Len(q) + 1] = r /\ \A i \in DOMAIN q : Append(q, r)[i] = q[i] /\ q[i] \in CellReports
BY AppendProperties, LenProperties, ElementOfSeq

LEMMA CellReportGoes ==
  ASSUME NEW q \in Seq(CellReports), q # <<>>
  PROVE  /\ Tail(q) \in Seq(CellReports) /\ DOMAIN q = 1..Len(q) /\ DOMAIN Tail(q) = 1..Len(q) - 1 /\ Len(q) \in Nat \ {0}
         /\ Head(q) = q[1] /\ Head(q) \in CellReports /\ \A i \in DOMAIN Tail(q) : Tail(q)[i] = q[i + 1]
BY HeadTailProperties, LenProperties, ElementOfSeq, EmptySeq

(* What a move of the pointer gives to the page. *)
LEMMA NativeIsNear ==
  ASSUME PointerInv, NEW x \in Places, NativeMove(x), UNCHANGED origin, misled \subseteq misled'
  PROVE  sent'.off \in Int /\ PointIsTrue'
<1>1. PointerTyped /\ PointIsTrue /\ (misled' = {} => misled = {})
  BY DEF PointerInv
<1>2. CASE UNCHANGED sent
  BY <1>1, <1>2 DEF PointIsTrue, PointerTyped
<1>3. CASE Narrow(estimate) /\ Moves(Hit(x), x, "pointer", button /\ heldButton)
  <2>1. origin \in Int /\ x \in Int /\ Middle(estimate) \in Int
    BY <1>1, PointerAssumption, HalvesAreInt DEF PointerTyped, Middle, Intervals
  <2>2. sent'.off = origin - Middle(estimate)
    BY <1>3, <2>1 DEF Moves, Hit
  <2>3. misled = {} => -(Cell \div 2) <= origin - Middle(estimate) /\ origin - Middle(estimate) <= Cell \div 2
    BY <1>1, <1>3, MiddleIsNear DEF PointerInv, PointerTyped, PointerKnown
  <2> QED BY <1>1, <2>1, <2>2, <2>3 DEF PointIsTrue
<1> QED BY <1>2, <1>3 DEF NativeMove, SendsPointer

LEMMA PointerGoes ==
  ASSUME PointerInv, NEW x \in Places, PointerMoves(x)
  PROVE  PointerInv'
<1> DEFINE s == [x |-> x, age |-> 0]
           r == [col |-> CellOf(x), age |-> 0, what |-> IF button THEN "drag" ELSE "motion"]
           enters == over /\ InPane(x) /\ CellOf(x) # CellOf(pos)
<1>1. /\ PointerTyped /\ pos \in Places /\ origin \in Origins /\ samples \in Seq(Samples) /\ cellReports \in Seq(CellReports)
      /\ pos' = x /\ samples' = Append(samples, s)
      /\ cellReports' = (IF enters THEN Append(cellReports, r) ELSE cellReports) /\ NativeMove(x)
      /\ misled' = (IF (over /\ InPane(x)) \/ lastReport = NoReport THEN misled ELSE misled \cup {"left"})
      /\ UNCHANGED <<origin, button, over, seen, estimate, challenger, lastReport>>
  BY DEF PointerInv, PointerTyped, PointerMoves
<1>2. CellOf(x) \in Int /\ (InPane(x) => CellOf(x) >= 0) /\ (CellOf(x) = CellOf(pos) => (InPane(x) <=> InPane(pos)))
  BY <1>1, CellsOfPane
<1>3. s \in Samples /\ r \in CellReports /\ InMotion(r)
  BY <1>2 DEF Samples, CellReports, InMotion
<1>4. /\ samples' \in Seq(Samples) /\ DOMAIN samples = 1..Len(samples) /\ DOMAIN samples' = 1..Len(samples) + 1
      /\ Len(samples) \in Nat /\ samples'[Len(samples) + 1] = s /\ \A j \in DOMAIN samples : samples'[j] = samples[j]
  BY <1>1, <1>3, SampleComes
<1>5. /\ cellReports' \in Seq(CellReports) /\ DOMAIN cellReports = 1..Len(cellReports) /\ Len(cellReports) \in Nat
      /\ \A i \in DOMAIN cellReports : /\ cellReports'[i] = cellReports[i] /\ i \in DOMAIN cellReports'
                                       /\ cellReports[i] \in CellReports
      /\ enters => cellReports'[Len(cellReports) + 1] = r /\ DOMAIN cellReports' = 1..Len(cellReports) + 1
      /\ ~enters => cellReports' = cellReports
  BY <1>1, <1>3, CellReportComes, LenProperties
<1>6. sent'.off \in Int /\ PointIsTrue'
  BY <1>1, NativeIsNear DEF PointerInv
<1>7. PointerTyped' /\ (~over' => cellReports' = <<>>)
  <2>1. \A i \in DOMAIN cellReports' : InMotion(cellReports'[i]) => cellReports'[i].col >= 0
    <3>1. \A i \in DOMAIN cellReports : InMotion(cellReports[i]) => cellReports[i].col >= 0
      BY <1>1 DEF PointerTyped
    <3> QED BY <1>2, <1>5, <3>1
  <2>2. misled' \subseteq {"shift", "late", "left"} /\ (~over' => cellReports' = <<>>)
    BY <1>1, <1>5 DEF PointerTyped, PointerInv
  <2> QED BY <1>1, <1>4, <1>5, <1>6, <2>1, <2>2 DEF PointerTyped
<1>8. ASSUME misled' = {} PROVE PointerKnown'
  <2>1. PointerKnown /\ misled = {} /\ ((over /\ InPane(x)) \/ lastReport = NoReport)
    BY <1>1, <1>8 DEF PointerInv
  <2>2. Between(estimate, origin)' /\ \A y : CellOf(y)' = CellOf(y) /\ (InPane(y)' <=> InPane(y))
    BY <1>1, <2>1 DEF PointerKnown, Between, CellOf, InPane
  <2>3. ReportsAreInTime'
    BY <1>5, <2>1 DEF PointerKnown, ReportsAreInTime, ReportWindow
  <2>4. ReportsAreOfSamples'
    <3> SUFFICES ASSUME NEW i \in DOMAIN cellReports', InMotion(cellReports'[i])
                 PROVE  \E j \in DOMAIN samples' : /\ samples'[j].age = cellReports'[i].age
                                                   /\ CellOf(samples'[j].x) = cellReports'[i].col
      BY <2>2 DEF ReportsAreOfSamples
    <3>1. CASE i \in DOMAIN cellReports
      <4>1. PICK j \in DOMAIN samples : samples[j].age = cellReports[i].age /\ CellOf(samples[j].x) = cellReports[i].col
        BY <1>5, <2>1, <3>1 DEF PointerKnown, ReportsAreOfSamples
      <4>2. j \in DOMAIN samples' /\ samples'[j] = samples[j]
        BY <1>4
      <4> QED BY <1>5, <3>1, <4>1, <4>2
    <3>2. CASE enters /\ i = Len(cellReports) + 1
      <4>1. Len(samples) + 1 \in DOMAIN samples'
        BY <1>4
      <4> QED BY <1>4, <1>5, <3>2, <4>1
    <3> QED BY <1>5, <3>1, <3>2
  <2>5. LastIsTold'
    <3>1. CASE enters
      <4>1. Len(cellReports) + 1 \in DOMAIN cellReports' /\ \A k \in DOMAIN cellReports' : ~(k > Len(cellReports) + 1)
        BY <1>5, <3>1
      <4>2. InMotion(cellReports'[Len(cellReports) + 1]) /\ CellOf(pos)' = cellReports'[Len(cellReports) + 1].col
        <5>1. cellReports'[Len(cellReports) + 1] = r /\ CellOf(pos)' = CellOf(x)
          BY <1>1, <1>5, <2>2, <3>1
        <5> QED BY <1>3, <5>1
      <4> QED BY <4>1, <4>2 DEF LastIsTold, IsAt
    <3>2. CASE ~enters /\ lastReport = NoReport /\ \A i \in DOMAIN cellReports : ~InMotion(cellReports[i])
      BY <1>1, <1>5, <3>2 DEF LastIsTold, NoReport
    <3>3. CASE ~enters /\ ~(lastReport = NoReport /\ \A i \in DOMAIN cellReports : ~InMotion(cellReports[i]))
      <4>1. over
        BY <2>1, <3>3 DEF PointerInv
      <4>2. ~InPane(x) \/ CellOf(x) = CellOf(pos)
        BY <3>3, <4>1
      <4>3. \A col : IsAt(col) => IsAt(col)'
        BY <1>1, <1>2, <2>2, <4>2 DEF IsAt
      <4> QED BY <1>1, <1>5, <2>1, <3>3, <4>3 DEF PointerKnown, LastIsTold
    <3> QED BY <3>1, <3>2, <3>3
  <2>6. SamplesAreOfLast'
    <3> SUFFICES ASSUME lastReport.col # -1, NEW j \in DOMAIN samples', j > lastReport.after
                 PROVE  \/ CellOf(samples'[j].x) = lastReport.col
                        \/ \E i \in DOMAIN cellReports' : InMotion(cellReports'[i]) /\ cellReports'[i].age >= samples'[j].age
      BY <1>1, <2>2 DEF SamplesAreOfLast
    <3>1. CASE j \in DOMAIN samples
      BY <1>4, <1>5, <2>1, <3>1 DEF PointerKnown, SamplesAreOfLast
    <3>2. CASE j = Len(samples) + 1
      <4>1. over /\ InPane(x) /\ samples'[j].age = 0 /\ CellOf(samples'[j].x) = CellOf(x)
        BY <1>4, <2>1, <3>2 DEF NoReport
      <4>2. CASE enters
        <5>1. Len(cellReports) + 1 \in DOMAIN cellReports' /\ cellReports'[Len(cellReports) + 1].age >= 0
          BY <1>5, <4>2
        <5> QED BY <1>3, <1>5, <4>1, <4>2, <5>1
      <4>3. CASE ~enters /\ \E i \in DOMAIN cellReports : InMotion(cellReports[i])
        <5>1. PICK i \in DOMAIN cellReports : InMotion(cellReports[i])
          BY <4>3
        <5>2. cellReports[i].age >= 0
          BY <1>5, <5>1 DEF CellReports
        <5> QED BY <1>5, <4>1, <5>1, <5>2
      <4>4. CASE ~enters /\ \A i \in DOMAIN cellReports : ~InMotion(cellReports[i])
        <5>1. CellOf(x) = CellOf(pos) /\ InPane(pos)
          BY <1>2, <4>1, <4>4
        <5> QED BY <2>1, <4>1, <4>4, <5>1 DEF PointerKnown, LastIsTold, IsAt
      <4> QED BY <4>2, <4>3, <4>4
    <3> QED BY <1>4, <3>1, <3>2
  <2> QED BY <2>2, <2>3, <2>4, <2>5, <2>6 DEF PointerKnown
<1> QED BY <1>6, <1>7, <1>8 DEF PointerInv

LEMMA ButtonIsReported ==
  ASSUME PointerInv, Buttons
  PROVE  PointerInv'
<1>1. PICK c \in {CellOf(pos)} \cup {CellOf(x) : x \in {x \in Places : InPane(x)}} :
        cellReports' = Append(cellReports, [col |-> c, age |-> 0, what |-> IF button THEN "up" ELSE "down"])
  BY DEF Buttons
<1> DEFINE r == [col |-> c, age |-> 0, what |-> IF button THEN "up" ELSE "down"]
<1>2. /\ PointerTyped /\ cellReports \in Seq(CellReports) /\ over /\ cellReports' = Append(cellReports, r)
      /\ UNCHANGED <<pos, origin, over, seen, misled, samples, estimate, challenger, lastReport, sent>>
  BY <1>1 DEF PointerInv, PointerTyped, Buttons, Sees, SendsPointer
<1>3. r \in CellReports /\ ~InMotion(r)
  <2>1. \A x \in Places : CellOf(x) \in Int
    BY <1>2, CellsOfPane DEF PointerTyped
  <2>2. c \in Int
    BY <1>2, <2>1 DEF PointerTyped
  <2> QED BY <2>2 DEF CellReports, InMotion
<1>4. /\ cellReports' \in Seq(CellReports) /\ DOMAIN cellReports = 1..Len(cellReports) /\ Len(cellReports) \in Nat
      /\ \A i \in DOMAIN cellReports : cellReports'[i] = cellReports[i] /\ i \in DOMAIN cellReports'
      /\ cellReports'[Len(cellReports) + 1] = r /\ DOMAIN cellReports' = 1..Len(cellReports) + 1
  BY <1>2, <1>3, CellReportComes
<1>5. PointerTyped'
  BY <1>2, <1>3, <1>4 DEF PointerTyped
<1>6. ASSUME misled' = {} PROVE PointerKnown'
  <2>1. PointerKnown /\ \A y : CellOf(y)' = CellOf(y) /\ (InPane(y)' <=> InPane(y))
    BY <1>2, <1>6 DEF PointerInv, CellOf, InPane
  <2>2. Between(estimate, origin)' /\ ReportsAreInTime'
    BY <1>2, <1>4, <2>1 DEF PointerKnown, Between, ReportsAreInTime, ReportWindow
  <2>3. ReportsAreOfSamples' /\ SamplesAreOfLast'
    BY <1>2, <1>3, <1>4, <2>1 DEF PointerKnown, ReportsAreOfSamples, SamplesAreOfLast
  <2>4. LastIsTold'
    BY <1>2, <1>3, <1>4, <2>1 DEF PointerKnown, LastIsTold, IsAt
  <2> QED BY <2>2, <2>3, <2>4 DEF PointerKnown
<1> QED BY <1>2, <1>5, <1>6 DEF PointerInv, PointIsTrue

(* Nothing that bears on the estimate but whether the terminal is under the pointer. *)
LEMMA WindowIsChanged ==
  ASSUME PointerInv, WindowChanges \/ UNCHANGED pointerVars
  PROVE  PointerInv'
<1>1. /\ UNCHANGED <<pos, origin, samples, cellReports, estimate, challenger, lastReport, sent, misled>>
      /\ cellReports = <<>> \/ over' = over
  BY DEF WindowChanges, Sees, SendsPointer, pointerVars
<1>2. PointerTyped' /\ PointIsTrue' /\ (~over' => cellReports' = <<>>)
  BY <1>1 DEF PointerInv, PointerTyped, PointIsTrue
<1>3. PointerKnown' <=> PointerKnown
  BY <1>1 DEF PointerKnown, Between, ReportsAreInTime, ReportsAreOfSamples, SamplesAreOfLast, LastIsTold, IsAt, CellOf, InPane
<1> QED BY <1>1, <1>2, <1>3 DEF PointerInv

LEMMA HelperIsHeard ==
  ASSUME PointerInv, HelperSays
  PROVE  PointerInv'
<1>1. /\ PointerTyped /\ samples' = <<>> /\ lastReport' = [lastReport EXCEPT !.after = 0]
      /\ misled' = (IF cellReports = <<>> THEN misled ELSE misled \cup {"left"})
      /\ UNCHANGED <<pos, origin, over, cellReports, estimate, challenger, sent>>
  BY DEF PointerInv, HelperSays, SendsPointer
<1>2. PointerTyped' /\ PointIsTrue'
  <2>1. lastReport' \in [col : Int, after : Nat] /\ lastReport'.col = lastReport.col /\ (lastReport = NoReport => lastReport' = NoReport)
    BY <1>1 DEF PointerTyped, NoReport
  <2>2. samples' \in Seq(Samples) /\ misled' \subseteq {"shift", "late", "left"} /\ PointIsTrue'
    BY <1>1, EmptySeq DEF PointerInv, PointerTyped, PointIsTrue
  <2> QED BY <1>1, <2>1, <2>2 DEF PointerTyped
<1>3. ASSUME misled' = {} PROVE PointerKnown'
  <2>1. PointerKnown /\ cellReports = <<>> /\ lastReport'.col = lastReport.col
    BY <1>1, <1>3 DEF PointerInv, PointerTyped
  <2> QED BY <1>1, <2>1 DEF PointerKnown, Between, ReportsAreInTime, ReportsAreOfSamples, SamplesAreOfLast, LastIsTold, IsAt,
                            CellOf, InPane
<1> QED BY <1>1, <1>2, <1>3 DEF PointerInv

LEMMA GridGoes ==
  ASSUME PointerInv, NEW o \in Origins, GridShifts(o)
  PROVE  PointerInv'
<1>1. PointerTyped' /\ misled' # {} /\ UNCHANGED <<over, cellReports>>
  BY DEF PointerInv, PointerTyped, GridShifts, Sees, SendsPointer
<1> QED BY <1>1 DEF PointerInv, PointIsTrue

LEMMA TimePasses ==
  ASSUME PointerInv, PointerTick
  PROVE  PointerInv'
<1>1. /\ PointerTyped /\ samples \in Seq(Samples) /\ cellReports \in Seq(CellReports)
      /\ samples' = Age(samples) /\ cellReports' = Age(cellReports) /\ misled \subseteq misled'
      /\ misled' \subseteq misled \cup {"late"}
      /\ misled' = {} => \A i \in DOMAIN cellReports : ~(cellReports[i].age >= ReportWindow)
      /\ UNCHANGED <<pos, origin, over, estimate, challenger, lastReport, sent>>
  BY DEF PointerInv, PointerTyped, PointerTick, SendsPointer
<1> DEFINE Older(a) == IF a = 3 THEN 3 ELSE a + 1
<1>2. \A a \in 0..3 : Min({a + 1, 3}) = Older(a) /\ Older(a) \in 0..3
  BY LesserOfTwo
<1>3. /\ DOMAIN samples' = DOMAIN samples /\ samples' \in Seq(Samples)
      /\ \A j \in DOMAIN samples : /\ samples[j].age \in 0..3 /\ samples'[j].age = Older(samples[j].age)
                                   /\ samples'[j].x = samples[j].x
  <2>1. \A j \in DOMAIN samples : samples[j] \in Samples
    BY <1>1, ElementOfSeq, LenProperties
  <2>2. \A j \in DOMAIN samples : samples[j].age \in 0..3 /\ samples'[j] = [samples[j] EXCEPT !.age = Older(samples[j].age)]
    BY <1>1, <1>2, <2>1 DEF Age, Samples
  <2>3. DOMAIN samples' = DOMAIN samples /\ DOMAIN samples = 1..Len(samples) /\ Len(samples) \in Nat
    BY <1>1, LenProperties DEF Age
  <2>4. \A j \in 1..Len(samples) : samples'[j] \in Samples
    BY <1>2, <2>1, <2>2, <2>3 DEF Samples
  <2>5. samples' = [j \in 1..Len(samples) |-> samples'[j]]
    BY <1>1, <2>3 DEF Age
  <2>6. samples' \in Seq(Samples)
    BY <2>3, <2>4, <2>5, IsASeq
  <2> QED BY <2>1, <2>2, <2>3, <2>6 DEF Samples
<1>4. /\ DOMAIN cellReports' = DOMAIN cellReports /\ cellReports' \in Seq(CellReports)
      /\ \A j \in DOMAIN cellReports : 
           /\ cellReports[j].age \in 0..3 /\ cellReports'[j].age = Older(cellReports[j].age)
           /\ cellReports'[j].col = cellReports[j].col /\ cellReports'[j].what = cellReports[j].what
  <2>1. \A j \in DOMAIN cellReports : cellReports[j] \in CellReports
    BY <1>1, ElementOfSeq, LenProperties
  <2>2. \A j \in DOMAIN cellReports : 
          cellReports[j].age \in 0..3 /\ cellReports'[j] = [cellReports[j] EXCEPT !.age = Older(cellReports[j].age)]
    BY <1>1, <1>2, <2>1 DEF Age, CellReports
  <2>3. DOMAIN cellReports' = DOMAIN cellReports /\ DOMAIN cellReports = 1..Len(cellReports) /\ Len(cellReports) \in Nat
    BY <1>1, LenProperties DEF Age
  <2>4. \A j \in 1..Len(cellReports) : cellReports'[j] \in CellReports
    BY <1>2, <2>1, <2>2, <2>3 DEF CellReports
  <2>5. cellReports' = [j \in 1..Len(cellReports) |-> cellReports'[j]]
    BY <1>1, <2>3 DEF Age
  <2>6. cellReports' \in Seq(CellReports)
    BY <2>3, <2>4, <2>5, IsASeq
  <2> QED BY <2>1, <2>2, <2>3, <2>6 DEF CellReports
<1>5. /\ PointerTyped' /\ PointIsTrue' /\ (~over' => cellReports' = <<>>)
  <2>1. cellReports = <<>> => cellReports' = <<>>
    BY <1>4, EmptySeq
  <2>2. \A i \in DOMAIN cellReports' : InMotion(cellReports'[i]) => cellReports'[i].col >= 0
    BY <1>1, <1>4 DEF PointerTyped, InMotion
  <2>3. misled' \subseteq {"shift", "late", "left"}
    BY <1>1 DEF PointerTyped
  <2> QED BY <1>1, <1>3, <1>4, <2>1, <2>2, <2>3 DEF PointerInv, PointerTyped, PointIsTrue
<1>6. ASSUME misled' = {} PROVE PointerKnown'
  <2>1. PointerKnown /\ misled = {} /\ \A y : CellOf(y)' = CellOf(y) /\ (InPane(y)' <=> InPane(y))
    BY <1>1, <1>6 DEF PointerInv, CellOf, InPane
  <2>2. Between(estimate, origin)'
    BY <1>1, <2>1 DEF PointerKnown, Between
  <2>3. ReportsAreInTime'
    BY <1>1, <1>4, <1>6 DEF ReportsAreInTime, ReportWindow
  <2>4. ReportsAreOfSamples'
    BY <1>3, <1>4, <2>1 DEF PointerKnown, ReportsAreOfSamples, InMotion
  <2>5. /\ DOMAIN cellReports' = DOMAIN cellReports /\ DOMAIN samples' = DOMAIN samples /\ lastReport' = lastReport /\ pos' = pos
        /\ \A i \in DOMAIN cellReports : /\ InMotion(cellReports'[i]) <=> InMotion(cellReports[i])
                                         /\ cellReports'[i].col = cellReports[i].col
    BY <1>1, <1>3, <1>4 DEF InMotion
  <2>6. \A i \in DOMAIN cellReports : \A j \in DOMAIN samples :
          cellReports[i].age >= samples[j].age => cellReports'[i].age >= samples'[j].age
    BY <1>3, <1>4
  <2>7. SamplesAreOfLast'
    <3> SUFFICES ASSUME lastReport.col # -1, NEW j \in DOMAIN samples, j > lastReport.after
                 PROVE  \/ CellOf(samples'[j].x) = lastReport.col
                        \/ \E i \in DOMAIN cellReports : InMotion(cellReports'[i]) /\ cellReports'[i].age >= samples'[j].age
      BY <2>1, <2>5 DEF SamplesAreOfLast
    <3>1. CASE CellOf(samples[j].x) = lastReport.col
      BY <1>3, <3>1
    <3>2. CASE \E i \in DOMAIN cellReports : InMotion(cellReports[i]) /\ cellReports[i].age >= samples[j].age
      BY <2>5, <2>6, <3>2
    <3> QED BY <2>1, <3>1, <3>2 DEF PointerKnown, SamplesAreOfLast
  <2>8. LastIsTold'
    <3>1. \A c : IsAt(c)' <=> IsAt(c)
      BY <2>1, <2>5 DEF IsAt
    <3>2. CASE /\ \A i \in DOMAIN cellReports : ~InMotion(cellReports[i])
               /\ lastReport.col = -1 \/ IsAt(lastReport.col)
      BY <2>5, <3>1, <3>2 DEF LastIsTold
    <3>3. CASE \E i \in DOMAIN cellReports : /\ InMotion(cellReports[i]) /\ IsAt(cellReports[i].col)
                                             /\ \A k \in DOMAIN cellReports : k > i => ~InMotion(cellReports[k])
      <4>1. PICK i \in DOMAIN cellReports : /\ InMotion(cellReports[i]) /\ IsAt(cellReports[i].col)
                                            /\ \A k \in DOMAIN cellReports : k > i => ~InMotion(cellReports[k])
        BY <3>3
      <4>2. /\ InMotion(cellReports'[i]) /\ i \in DOMAIN cellReports'
            /\ CellOf(pos)' = cellReports'[i].col \/ ~InPane(pos)'
            /\ \A k \in DOMAIN cellReports' : k > i => ~InMotion(cellReports'[k])
        BY <2>1, <2>5, <4>1 DEF IsAt
      <4> QED BY <2>5, <4>2 DEF LastIsTold, IsAt
    <3> QED BY <2>1, <3>2, <3>3 DEF PointerKnown, LastIsTold
  <2> QED BY <2>2, <2>3, <2>4, <2>7, <2>8 DEF PointerKnown
<1> QED BY <1>5, <1>6 DEF PointerInv

(* What the grid is known to be after a report, of all that the estimate could be misled by.     *)
LEMMA EstimateIsOffered ==
  ASSUME PointerInv, cellReports # <<>>
  PROVE  /\ AfterReport(Head(cellReports)) \in [estimate : Intervals, challenger : Intervals]
         /\ misled = {} => Between(AfterReport(Head(cellReports)).estimate, origin)
<1> DEFINE r == Head(cellReports)
           g == Offered(Grid, r.col, Recent)
<1>1. /\ PointerTyped /\ origin \in Origins /\ r = cellReports[1] /\ r \in CellReports /\ 1 \in DOMAIN cellReports
      /\ \A j \in DOMAIN samples : samples[j] \in Samples
      /\ Grid \in [estimate : Intervals, challenger : Intervals] /\ Grid.estimate = estimate
  <2>1. PointerTyped /\ cellReports \in Seq(CellReports)
    BY DEF PointerInv, PointerTyped
  <2>2. \A j \in DOMAIN samples : samples[j] \in Samples
    BY <2>1, ElementOfSeq, LenProperties DEF PointerTyped
  <2> QED BY <2>1, <2>2, CellReportGoes DEF PointerTyped, Grid
<1>2. Recent \subseteq Places /\ SettledIn \subseteq Places /\ r.col \in Int /\ lastReport.col \in Int
  BY <1>1 DEF Recent, SettledIn, Samples, CellReports, PointerTyped
<1>3. /\ g \in [estimate : Intervals, challenger : Intervals]
      /\ Between(estimate, origin) /\ (Recent = {} \/ \E x \in Recent : CellOf(x) = r.col) => Between(g.estimate, origin)
  BY <1>1, <1>2, OfferedIs
<1>4. /\ Offered(g, lastReport.col, SettledIn) \in [estimate : Intervals, challenger : Intervals]
      /\ Between(g.estimate, origin) /\ (SettledIn = {} \/ \E x \in SettledIn : CellOf(x) = lastReport.col)
           => Between(Offered(g, lastReport.col, SettledIn).estimate, origin)
  <2> HIDE DEF g
  <2> QED BY <1>1, <1>2, <1>3, OfferedIs
<1>5. ASSUME misled = {}, InMotion(r) PROVE \E x \in Recent : CellOf(x) = r.col
  <2>1. PointerKnown
    BY <1>5 DEF PointerInv
  <2>2. PICK j \in DOMAIN samples : samples[j].age = r.age /\ CellOf(samples[j].x) = r.col
    BY <1>1, <1>5, <2>1 DEF PointerKnown, ReportsAreOfSamples
  <2>3. samples[j].age <= ReportWindow
    BY <1>1, <2>1, <2>2 DEF PointerKnown, ReportsAreInTime
  <2> QED BY <2>2, <2>3 DEF Recent
<1>6. ASSUME misled = {}, lastReport.col # -1 PROVE \A x \in SettledIn : CellOf(x) = lastReport.col
  <2>1. PointerKnown
    BY <1>6 DEF PointerInv
  <2> SUFFICES ASSUME NEW j \in DOMAIN samples, samples[j].age > ReportWindow, j > lastReport.after
               PROVE  CellOf(samples[j].x) = lastReport.col
    BY DEF SettledIn
  <2>2. \A i \in DOMAIN cellReports : cellReports[i].age \in Int /\ cellReports[i].age <= ReportWindow /\ samples[j].age \in Int
    <3>1. cellReports \in Seq(CellReports)
      BY <1>1 DEF PointerTyped
    <3>2. \A i \in DOMAIN cellReports : cellReports[i] \in CellReports
      BY <3>1, ElementOfSeq, LenProperties
    <3> QED BY <1>1, <2>1, <3>2 DEF PointerKnown, ReportsAreInTime, CellReports, Samples
  <2>3. \A i \in DOMAIN cellReports : ~(cellReports[i].age >= samples[j].age)
    BY <2>2 DEF ReportWindow
  <2> QED BY <1>6, <2>1, <2>3 DEF PointerKnown, SamplesAreOfLast
<1>7. AfterReport(r) = IF ~InMotion(r) THEN Grid
                       ELSE IF lastReport.col \notin {-1, r.col} THEN Offered(g, lastReport.col, SettledIn) ELSE g
  BY DEF AfterReport, InMotion
<1>8. AfterReport(r) \in [estimate : Intervals, challenger : Intervals]
  BY <1>1, <1>3, <1>4, <1>7
<1>9. ASSUME misled = {} PROVE Between(AfterReport(r).estimate, origin)
  <2>1. Between(estimate, origin)
    BY <1>9 DEF PointerInv, PointerKnown
  <2>2. CASE ~InMotion(r)
    BY <1>1, <1>7, <2>1, <2>2
  <2>3. CASE InMotion(r)
    <3>1. Between(g.estimate, origin)
      BY <1>3, <1>5, <1>9, <2>1, <2>3
    <3>2. CASE lastReport.col \notin {-1, r.col}
      <4>1. Between(Offered(g, lastReport.col, SettledIn).estimate, origin)
        BY <1>4, <1>6, <1>9, <3>1, <3>2
      <4> QED BY <1>7, <2>3, <3>2, <4>1
    <3>3. CASE lastReport.col \in {-1, r.col}
      BY <1>7, <2>3, <3>1, <3>3
    <3> QED BY <3>2, <3>3
  <2> QED BY <2>2, <2>3
<1> QED BY <1>8, <1>9

LEMMA CellIsReported ==
  ASSUME PointerInv, ReportArrives
  PROVE  PointerInv'
<1> DEFINE r == Head(cellReports)
           g == IF seen THEN AfterReport(r) ELSE Grid
           native == seen /\ Agrees(g, r)
<1>1. /\ PointerTyped /\ cellReports # <<>> /\ cellReports' = Tail(cellReports) /\ over
      /\ estimate' = g.estimate /\ challenger' = g.challenger
      /\ lastReport' = (IF seen /\ InMotion(r) THEN [col |-> r.col, after |-> Len(samples)] ELSE lastReport)
      /\ misled' = (IF ~seen /\ InMotion(r) /\ lastReport # NoReport THEN misled \cup {"left"} ELSE misled)
      /\ IF native THEN Moves(Last(samples).x - Middle(g.estimate), Last(samples).x, "agreed", r.what \in {"down", "drag"})
         ELSE Moves(r.col * Cell + (Cell \div 2), pos, "cell", r.what \in {"down", "drag"})
      /\ UNCHANGED <<pos, origin, over, samples>>
  BY DEF PointerInv, ReportArrives, InMotion
<1>2. /\ cellReports' \in Seq(CellReports) /\ r = cellReports[1] /\ r \in CellReports /\ Len(cellReports) \in Nat \ {0}
      /\ DOMAIN cellReports = 1..Len(cellReports) /\ DOMAIN cellReports' = 1..Len(cellReports) - 1
      /\ \A i \in DOMAIN cellReports' : cellReports'[i] = cellReports[i + 1] /\ i + 1 \in DOMAIN cellReports
      /\ \A i \in DOMAIN cellReports : i # 1 => i - 1 \in DOMAIN cellReports' /\ cellReports'[i - 1] = cellReports[i]
  <2>1. cellReports \in Seq(CellReports)
    BY <1>1 DEF PointerTyped
  <2> QED BY <1>1, <2>1, CellReportGoes
<1>3. /\ g \in [estimate : Intervals, challenger : Intervals]
      /\ misled = {} => Between(g.estimate, origin)
  <2>1. Grid \in [estimate : Intervals, challenger : Intervals] /\ Grid.estimate = estimate
    BY <1>1 DEF PointerTyped, Grid
  <2>2. misled = {} => Between(estimate, origin)
    BY DEF PointerInv, PointerKnown
  <2> QED BY <1>1, <2>1, <2>2, EstimateIsOffered
<1> HIDE DEF g
<1>4. origin \in Origins /\ pos \in Places /\ origin \in Int /\ pos \in Int /\ Cell \in Nat /\ Cell >= 4 /\ Cell \div 2 \in Int
  BY <1>1, PointerAssumption, HalvesAreInt DEF PointerTyped
<1>5. sent'.off \in Int /\ PointIsTrue'
  <2>1. CASE native
    <3>1. Last(samples).x \in Int
      <4>1. samples \in Seq(Samples) /\ samples # <<>>
        BY <1>1, <2>1 DEF PointerTyped, Agrees
      <4>2. Len(samples) \in DOMAIN samples /\ samples[Len(samples)] \in Samples
        BY <4>1, LenProperties, ElementOfSeq, EmptySeq
      <4>3. Last(samples) = samples[Len(samples)] /\ Places \subseteq Int
        BY PlacesAreInt DEF Last
      <4> QED BY <4>2, <4>3 DEF Samples
    <3>2. Narrow(g.estimate) /\ g.estimate \in Intervals /\ Middle(g.estimate) \in Int
      BY <1>3, <2>1, HalvesAreInt DEF Agrees, Middle, Intervals
    <3>3. sent'.off = origin - Middle(g.estimate)
      BY <1>1, <1>4, <2>1, <3>1, <3>2 DEF Moves
    <3>4. misled' = {} => -(Cell \div 2) <= origin - Middle(g.estimate) /\ origin - Middle(g.estimate) <= Cell \div 2
      BY <1>1, <1>3, <1>4, <3>2, MiddleIsNear
    <3> QED BY <1>4, <3>2, <3>3, <3>4 DEF PointIsTrue
  <2>2. CASE ~native
    <3>1. r.col * Cell + (Cell \div 2) \in Int
      BY <1>2, <1>4 DEF CellReports
    <3>2. PICK k \in Int : k = r.col * Cell + (Cell \div 2)
      BY <3>1
    <3>3. Moves(k, pos, "cell", r.what \in {"down", "drag"})
      BY <1>1, <2>2, <3>2
    <3>4. sent'.off = k - (pos - origin) /\ sent'.from = "cell"
      BY <1>4, <3>3 DEF Moves
    <3> QED BY <1>4, <3>4 DEF PointIsTrue
  <2> QED BY <2>1, <2>2
<1>6. InMotion(r) => r.col >= 0
  BY <1>1, <1>2 DEF PointerTyped
<1>7. PointerTyped' /\ (~over' => cellReports' = <<>>)
  <2>1. lastReport' \in [col : Int, after : Nat] /\ (lastReport'.col = -1 => lastReport' = NoReport)
    <3>1. Len(samples) \in Nat /\ r.col \in Int
      BY <1>1, <1>2, LenProperties DEF PointerTyped, CellReports
    <3> QED BY <1>1, <1>6, <3>1 DEF PointerTyped
  <2>2. \A i \in DOMAIN cellReports' : InMotion(cellReports'[i]) => cellReports'[i].col >= 0
    BY <1>1, <1>2 DEF PointerTyped
  <2>3. estimate' \in Intervals /\ challenger' \in Intervals /\ misled' \subseteq {"shift", "late", "left"}
    BY <1>1, <1>3 DEF PointerTyped
  <2> QED BY <1>1, <1>2, <1>5, <2>1, <2>2, <2>3 DEF PointerTyped
<1>8. ASSUME misled' = {} PROVE PointerKnown'
  <2>1. /\ PointerKnown /\ misled = {} /\ (~seen /\ InMotion(r) => lastReport = NoReport)
        /\ \A y : CellOf(y)' = CellOf(y) /\ (InPane(y)' <=> InPane(y))
    BY <1>1, <1>8 DEF PointerInv, CellOf, InPane
  <2>2. Between(estimate, origin)'
    BY <1>1, <1>3, <2>1 DEF Between
  <2>3. ReportsAreInTime'
    BY <1>2, <2>1 DEF PointerKnown, ReportsAreInTime, ReportWindow
  <2>4. ReportsAreOfSamples'
    BY <1>1, <1>2, <2>1 DEF PointerKnown, ReportsAreOfSamples
  <2>5. SamplesAreOfLast'
    <3>1. CASE seen /\ InMotion(r)
      <4>1. lastReport'.after = Len(samples) /\ \A j \in DOMAIN samples' : ~(j > Len(samples))
        BY <1>1, <3>1, LenProperties DEF PointerTyped
      <4> QED BY <4>1 DEF SamplesAreOfLast
    <3>2. CASE ~(seen /\ InMotion(r))
      <4> SUFFICES ASSUME lastReport.col # -1, NEW j \in DOMAIN samples, j > lastReport.after
                   PROVE  \/ CellOf(samples[j].x) = lastReport.col
                          \/ \E i \in DOMAIN cellReports' : InMotion(cellReports'[i]) /\ cellReports'[i].age >= samples[j].age
        BY <1>1, <2>1, <3>2 DEF SamplesAreOfLast
      <4>1. ~InMotion(r)
        BY <2>1, <3>2 DEF NoReport
      <4> QED BY <1>2, <2>1, <4>1 DEF PointerKnown, SamplesAreOfLast
    <3> QED BY <3>1, <3>2
  <2>6. LastIsTold'
    <3>1. \A c : IsAt(c)' <=> IsAt(c)
      BY <1>1, <2>1 DEF IsAt
    <3>2. CASE /\ \A i \in DOMAIN cellReports : ~InMotion(cellReports[i])
               /\ lastReport.col = -1 \/ IsAt(lastReport.col)
      <4>1. lastReport' = lastReport /\ \A i \in DOMAIN cellReports' : ~InMotion(cellReports'[i])
        BY <1>1, <1>2, <3>2
      <4> QED BY <2>1, <1>1, <3>2, <4>1 DEF LastIsTold, IsAt
    <3>3. ASSUME NEW i \in DOMAIN cellReports, InMotion(cellReports[i]), IsAt(cellReports[i].col),
                 \A k \in DOMAIN cellReports : k > i => ~InMotion(cellReports[k])
          PROVE  LastIsTold'
      <4>1. CASE i = 1
        <5>1. \A k \in DOMAIN cellReports' : ~InMotion(cellReports'[k])
          BY <1>2, <3>3, <4>1
        <5>2. lastReport'.col = -1 \/ CellOf(pos)' = lastReport'.col \/ ~InPane(pos)'
          <6>1. CASE seen
            <7>1. lastReport'.col = r.col
              BY <1>1, <1>2, <3>3, <4>1, <6>1
            <7> QED BY <1>1, <1>2, <2>1, <3>3, <4>1, <7>1 DEF IsAt
          <6>2. CASE ~seen
            BY <1>1, <1>2, <2>1, <3>3, <4>1, <6>2 DEF NoReport
          <6> QED BY <6>1, <6>2
        <5> QED BY <5>1, <5>2 DEF LastIsTold, IsAt
      <4>2. CASE i # 1
        <5>1. i - 1 \in DOMAIN cellReports' /\ cellReports'[i - 1] = cellReports[i]
          BY <1>2, <4>2
        <5>2. \A k \in DOMAIN cellReports' : k > i - 1 => ~InMotion(cellReports'[k])
          BY <1>2, <3>3
        <5>3. CellOf(pos)' = cellReports'[i - 1].col \/ ~InPane(pos)'
          BY <1>1, <2>1, <3>3, <5>1 DEF IsAt
        <5> QED BY <3>3, <5>1, <5>2, <5>3 DEF LastIsTold, IsAt
      <4> QED BY <4>1, <4>2
    <3> QED BY <2>1, <3>2, <3>3 DEF PointerKnown, LastIsTold
  <2> QED BY <2>2, <2>3, <2>4, <2>5, <2>6 DEF PointerKnown
<1> QED BY <1>5, <1>7, <1>8 DEF PointerInv

LEMMA PointerStep ==
  ASSUME PointerInv, [PointerNext]_pointerVars
  PROVE  PointerInv'
BY PointerGoes, ButtonIsReported, WindowIsChanged, HelperIsHeard, GridGoes, TimePasses, CellIsReported DEF PointerNext

LEMMA PointerStart ==
  ASSUME PointerInit
  PROVE  PointerInv
<1>1. /\ samples \in Seq(Samples) /\ cellReports \in Seq(CellReports) /\ DOMAIN samples = {} /\ DOMAIN cellReports = {}
  BY EmptySeq DEF PointerInit
<1>2. estimate \in Intervals /\ challenger \in Intervals
  BY DEF PointerInit, Anywhere, NoChallenger, Boundless, Intervals
<1>3. PointerTyped
  BY <1>1, <1>2 DEF PointerInit, PointerTyped, NoReport, Nowhere
<1>4. Between(estimate, origin)
  <2>1. PICK b \in Nat : b = Boundless
    BY PlacesAreInt
  <2>2. origin \in 0..b /\ estimate = [lo |-> -b, hi |-> b]
    BY <2>1, PlacesAreInt DEF PointerInit, Anywhere
  <2> QED BY <2>1, <2>2 DEF Between
<1> QED BY <1>1, <1>3, <1>4 DEF PointerInit, PointerInv, PointIsTrue, Nowhere, PointerKnown, ReportsAreInTime, ReportsAreOfSamples,
                               SamplesAreOfLast, LastIsTold, NoReport

LEMMA PointerMet ==
  ASSUME PointerInv
  PROVE  EstimateIsRight /\ PointIsTrue
BY DEF PointerInv, PointerKnown, Between, EstimateIsRight

-----------------------------------------------------------------------------
(* What the state of the frame store is made of.                                                        *)
PixelSet == [n : Nat, size : {0, 1}]
ToldSet ==
  [name : [of : Homes \cup {0}, kind : {"file", "whole", "patch", "inline"}, slot : Nat], pixels : PixelSet]
WorkSet ==
  [n : Nat, size : {0, 1}, shm : BOOLEAN, slot : Nat,
   stage : {"none", "handed", "object", "staged", "file", "error"}, failed : BOOLEAN]
StoreTypes ==
  /\ life \in [Homes -> {"new", "up", "leaving", "dead"}] /\ served \subseteq Homes
  /\ shmSlot \in [Homes -> Nat] /\ shmPatchSlot \in [Homes -> Nat]
  /\ paneSize \in [Homes -> {0, 1}] /\ drawnSoFar \in [Homes -> Nat]
  /\ inWorker \in [Homes -> WorkSet] /\ escapes \in [Homes -> Seq(ToldSet)]
  /\ store \in [StoreNames -> PixelSet]

(* What the worker has is a frame that was made, and nothing before its engine starts.                  *)
WorkIsReal ==
  \A e \in Homes : /\ inWorker[e].stage # "none" => inWorker[e].n > 0
                   /\ life[e] = "new" => inWorker[e].stage = "none"

(* A file that has been staged is there to be renamed while the pane is attached.                       *)
StagedIsThere ==
  \A e \in served : life[e] = "up" /\ inWorker[e].stage = "staged" => store[StagingOf(e)] # NoPixels

StoreInv == StoreTypes /\ WorkIsReal /\ StagedIsThere

(* What a step leaves of a living engine: the action of LivingIsSpared.                                 *)
Spares ==
  \A e \in served \intersect served' :
    (life[e] = "up" /\ life'[e] = "up" /\ escapes' = escapes) =>
      /\ (e \in markers => e \in markers')
      /\ \A x \in {FileOf(e)} \union ShmNames(e) : store[x] # NoPixels => store'[x] # NoPixels

(* A name says whose it is, and the staging file is neither the file nor an object.                     *)
LEMMA NameParts ==
  ASSUME NEW d \in Homes
  PROVE  /\ FileOf(d) \in StoreNames /\ StagingOf(d) \in StoreNames /\ FileOf(d) # StagingOf(d)
         /\ \A x \in FilesOf(d) \cup ShmNames(d) : x \in StoreNames /\ x.of = d
         /\ \A x \in ShmNames(d) : x.kind \in {"whole", "patch"}
         /\ FileOf(d).of = d /\ StagingOf(d).of = d /\ StagingOf(d).kind = "tmp"
<1>1. \A x \in ShmNames(d) : x.of = d /\ x.kind \in {"whole", "patch"}
  BY DEF ShmNames, WholeName, PatchName
<1>2. FileOf(d).of = d /\ StagingOf(d).of = d /\ StagingOf(d).kind = "tmp" /\ FileOf(d).kind = "file"
  BY DEF FileOf, StagingOf
<1>3. FilesOf(d) = {FileOf(d), StagingOf(d)}
  BY DEF FilesOf
<1>4. FilesOf(d) \cup ShmNames(d) \subseteq StoreNames
  BY DEF StoreNames
<1>5. FileOf(d) # StagingOf(d)
  BY <1>2
<1> QED BY <1>1, <1>2, <1>3, <1>4, <1>5

(* A step that takes nothing out of the store. *)
LEMMA TakesNothing ==
  ASSUME StoreInv, markers \subseteq markers', served' \subseteq served,
         \A x \in StoreNames : store[x] # NoPixels => store'[x] # NoPixels,
         \A e \in Homes : life'[e] = "up" => life[e] = "up",
         \A e \in Homes : inWorker'[e].stage = "staged" => inWorker[e].stage = "staged"
  PROVE  StagedIsThere' /\ Spares
<1>1. StagedIsThere'
  <2>1. SUFFICES ASSUME NEW e \in served', life'[e] = "up", inWorker'[e].stage = "staged"
                 PROVE  store'[StagingOf(e)] # NoPixels
    BY DEF StagedIsThere
  <2>2. e \in Homes /\ e \in served
    BY DEF StoreInv, StoreTypes
  <2>3. store[StagingOf(e)] # NoPixels
    BY <2>1, <2>2 DEF StoreInv, StagedIsThere
  <2> QED BY <2>2, <2>3, NameParts
<1>2. Spares
  <2>1. SUFFICES ASSUME NEW e \in served, NEW x \in {FileOf(e)} \union ShmNames(e), store[x] # NoPixels
                 PROVE  store'[x] # NoPixels
    BY DEF Spares
  <2>2. e \in Homes
    BY DEF StoreInv, StoreTypes
  <2>3. x \in StoreNames
    BY <2>2, NameParts
  <2> QED BY <2>1, <2>3
<1> QED BY <1>1, <1>2

(* A step that takes away names of engines that are not up afterwards, or have no pane. *)
LEMMA TakesDead ==
  ASSUME StoreInv, NEW gone,
         \A e \in served' : life'[e] = "up" /\ life[e] = "up" => e \in served /\ (e \in markers => e \in markers'),
         \A x \in gone, e \in served' : life'[e] = "up" => x.of # e,
         store' = Without(gone), inWorker' = inWorker,
         \A e \in served' : life'[e] = "up" => life[e] = "up" \/ inWorker[e].stage = "none",
         served' \subseteq Homes
  PROVE  StagedIsThere' /\ Spares
<1>1. \A x \in StoreNames : x \notin gone => store'[x] = store[x]
  BY DEF Without
<1>2. StagedIsThere'
  <2>1. SUFFICES ASSUME NEW e \in served', life'[e] = "up", inWorker'[e].stage = "staged"
                 PROVE  store'[StagingOf(e)] # NoPixels
    BY DEF StagedIsThere
  <2>2. e \in Homes /\ e \in served /\ life[e] = "up" /\ inWorker[e].stage = "staged"
    BY <2>1
  <2>3. store[StagingOf(e)] # NoPixels
    BY <2>2 DEF StoreInv, StagedIsThere
  <2>4. StagingOf(e) \in StoreNames /\ StagingOf(e).of = e
    BY <2>2, NameParts
  <2>5. StagingOf(e) \notin gone
    BY <2>1, <2>4
  <2> QED BY <1>1, <2>3, <2>4, <2>5
<1>3. Spares
  <2>1. SUFFICES ASSUME NEW e \in served \intersect served', life[e] = "up", life'[e] = "up"
                 PROVE  /\ (e \in markers => e \in markers')
                        /\ \A x \in {FileOf(e)} \union ShmNames(e) : store[x] # NoPixels => store'[x] # NoPixels
    BY DEF Spares
  <2>2. \A x \in {FileOf(e)} \union ShmNames(e) : x \in StoreNames /\ x.of = e
    BY NameParts DEF FilesOf
  <2>3. \A x \in {FileOf(e)} \union ShmNames(e) : x \notin gone
    BY <2>1, <2>2
  <2> QED BY <1>1, <2>1, <2>2, <2>3
<1> QED BY <1>2, <1>3

(* A step that puts pixels in one place. *)
LEMMA PutsPixels ==
  ASSUME StoreInv, NEW name, NEW pixels \in PixelSet, pixels.n > 0,
         store' = [store EXCEPT ![name] = pixels]
  PROVE  /\ store' \in [StoreNames -> PixelSet]
         /\ \A x \in StoreNames : store[x] # NoPixels => store'[x] # NoPixels
<1>1. pixels # NoPixels
  BY DEF NoPixels
<1> QED BY <1>1 DEF StoreInv, StoreTypes

(* The steps of the worker that write an object, fail to, or fail to write a file. *)
LEMMA WorkerSteps ==
  ASSUME StoreInv, NEW e \in Homes, WritesObject(e) \/ ObjectFails(e) \/ FileFails(e)
  PROVE  StoreInv' /\ Spares
<1>1. /\ inWorker[e] \in WorkSet /\ inWorker[e].stage = "handed" /\ inWorker[e].n > 0
      /\ UNCHANGED <<life, served, shmSlot, shmPatchSlot, paneSize, drawnSoFar, escapes, markers>>
  BY DEF StoreInv, StoreTypes, WorkIsReal, WritesObject, ObjectFails, FileFails, Works, WorkerStep
<1>2. PixelsOf(e) \in PixelSet /\ PixelsOf(e).n > 0
  BY <1>1 DEF PixelsOf, PixelSet, WorkSet
<1>3. PICK w \in WorkSet : /\ inWorker' = [inWorker EXCEPT ![e] = w]
                           /\ w.n > 0 /\ w.stage \notin {"none", "staged"}
  <2>1. CASE WritesObject(e)
    <3>1. [inWorker[e] EXCEPT !.stage = "object"] \in WorkSet
      BY <1>1 DEF WorkSet
    <3>2. inWorker' = [inWorker EXCEPT ![e] = [inWorker[e] EXCEPT !.stage = "object"]]
      BY <2>1 DEF WritesObject
    <3>3. [inWorker[e] EXCEPT !.stage = "object"].n > 0 /\ [inWorker[e] EXCEPT !.stage = "object"].stage = "object"
      BY <1>1 DEF WorkSet
    <3> QED BY <3>1, <3>2, <3>3
  <2>2. CASE ObjectFails(e)
    <3> DEFINE w == [inWorker[e] EXCEPT !.shm = FALSE, !.failed = TRUE]
    <3>1. w \in WorkSet /\ w.n > 0 /\ w.stage = "handed"
      BY <1>1 DEF WorkSet
    <3>2. inWorker' = [inWorker EXCEPT ![e] = w]
      BY <2>2 DEF ObjectFails
    <3> QED BY <3>1, <3>2
  <2>3. CASE FileFails(e)
    <3> DEFINE w == [inWorker[e] EXCEPT !.stage = "error"]
    <3>1. w \in WorkSet /\ w.n > 0 /\ w.stage = "error"
      BY <1>1 DEF WorkSet
    <3>2. inWorker' = [inWorker EXCEPT ![e] = w]
      BY <2>3 DEF FileFails
    <3> QED BY <3>1, <3>2
  <2> QED BY <2>1, <2>2, <2>3
<1>4. /\ store' \in [StoreNames -> PixelSet]
      /\ \A x \in StoreNames : store[x] # NoPixels => store'[x] # NoPixels
  <2>1. CASE WritesObject(e)
    <3>1. PICK name : store' = [store EXCEPT ![name] = PixelsOf(e)]
      BY <2>1 DEF WritesObject
    <3> QED BY <1>2, <3>1, PutsPixels
  <2>2. CASE store' = store
    BY <2>2 DEF StoreInv, StoreTypes
  <2> QED BY <2>1, <2>2 DEF ObjectFails, FileFails
<1>5. inWorker' \in [Homes -> WorkSet] /\ inWorker'[e] = w /\ \A d \in Homes : d # e => inWorker'[d] = inWorker[d]
  BY <1>3 DEF StoreInv, StoreTypes
<1>6. StoreTypes'
  BY <1>1, <1>4, <1>5 DEF StoreInv, StoreTypes
<1>7. life[e] # "new"
  BY <1>1 DEF StoreInv, WorkIsReal
<1>8. WorkIsReal'
  BY <1>1, <1>3, <1>5, <1>7 DEF StoreInv, WorkIsReal
<1>9. \A d \in Homes : inWorker'[d].stage = "staged" => inWorker[d].stage = "staged"
  BY <1>3, <1>5
<1>10. StagedIsThere' /\ Spares
  BY <1>1, <1>4, <1>9, TakesNothing
<1> QED BY <1>6, <1>8, <1>10 DEF StoreInv

(* A file is staged. *)
LEMMA StagesFileStep ==
  ASSUME StoreInv, NEW e \in Homes, StagesFile(e)
  PROVE  StoreInv' /\ Spares
<1> DEFINE w == [inWorker[e] EXCEPT !.stage = "staged"]
<1>1. /\ inWorker[e] \in WorkSet /\ inWorker[e].stage = "handed" /\ inWorker[e].n > 0 /\ life[e] # "new"
      /\ UNCHANGED <<life, served, shmSlot, shmPatchSlot, paneSize, drawnSoFar, escapes, markers>>
  BY DEF StoreInv, StoreTypes, WorkIsReal, StagesFile, Works, WorkerStep
<1>2. PixelsOf(e) \in PixelSet /\ PixelsOf(e).n > 0 /\ PixelsOf(e) # NoPixels
  BY <1>1 DEF PixelsOf, PixelSet, WorkSet, NoPixels
<1>3. w \in WorkSet /\ w.n > 0
  BY <1>1 DEF WorkSet
<1>4. inWorker' = [inWorker EXCEPT ![e] = w] /\ store' = [store EXCEPT ![StagingOf(e)] = PixelsOf(e)]
  BY DEF StagesFile
<1> HIDE DEF w
<1>5. inWorker' \in [Homes -> WorkSet] /\ inWorker'[e] = w /\ \A d \in Homes : d # e => inWorker'[d] = inWorker[d]
  BY <1>3, <1>4 DEF StoreInv, StoreTypes
<1>6. /\ store' \in [StoreNames -> PixelSet]
      /\ \A x \in StoreNames : store[x] # NoPixels => store'[x] # NoPixels
  BY <1>2, <1>4, PutsPixels
<1>7. store'[StagingOf(e)] = PixelsOf(e)
  BY <1>4, NameParts DEF StoreInv, StoreTypes
<1>8. StoreTypes'
  BY <1>1, <1>5, <1>6 DEF StoreInv, StoreTypes
<1>9. WorkIsReal'
  BY <1>1, <1>3, <1>5 DEF StoreInv, WorkIsReal
<1>10. StagedIsThere'
  <2>1. SUFFICES ASSUME NEW d \in served', life'[d] = "up", inWorker'[d].stage = "staged"
                 PROVE  store'[StagingOf(d)] # NoPixels
    BY DEF StagedIsThere
  <2>2. CASE d = e
    BY <1>2, <1>7, <2>2
  <2>3. CASE d # e
    <3>1. d \in Homes /\ d \in served /\ life[d] = "up" /\ inWorker[d].stage = "staged"
      BY <1>1, <1>5, <2>1, <2>3 DEF StoreInv, StoreTypes
    <3>2. store[StagingOf(d)] # NoPixels
      BY <3>1 DEF StoreInv, StagedIsThere
    <3> QED BY <1>6, <3>1, <3>2, NameParts
  <2> QED BY <2>2, <2>3
<1>11. Spares
  <2>1. SUFFICES ASSUME NEW d \in served, NEW x \in {FileOf(d)} \union ShmNames(d), store[x] # NoPixels
                 PROVE  store'[x] # NoPixels
    BY <1>1 DEF Spares
  <2>2. d \in Homes
    BY DEF StoreInv, StoreTypes
  <2>3. x \in StoreNames
    BY <2>2, NameParts
  <2> QED BY <1>6, <2>1, <2>3
<1> QED BY <1>8, <1>9, <1>10, <1>11 DEF StoreInv

(* The staged file takes the place of the pane's file. *)
LEMMA RenamesFileStep ==
  ASSUME StoreInv, NEW e \in Homes, RenamesFile(e)
  PROVE  StoreInv' /\ Spares
<1> DEFINE w == [inWorker[e] EXCEPT !.stage = IF store[StagingOf(e)] = NoPixels THEN "error" ELSE "file"]
<1>1. /\ inWorker[e] \in WorkSet /\ inWorker[e].stage = "staged" /\ inWorker[e].n > 0 /\ life[e] # "new"
      /\ UNCHANGED <<life, served, shmSlot, shmPatchSlot, paneSize, drawnSoFar, escapes, markers>>
  BY DEF StoreInv, StoreTypes, WorkIsReal, RenamesFile, Works, WorkerStep
<1>2. w \in WorkSet /\ w.n > 0 /\ w.stage # "staged"
  BY <1>1 DEF WorkSet
<1>3. /\ inWorker' = [inWorker EXCEPT ![e] = w]
      /\ store' = [store EXCEPT ![FileOf(e)] = store[StagingOf(e)], ![StagingOf(e)] = NoPixels]
  BY DEF RenamesFile
<1> HIDE DEF w
<1>4. inWorker' \in [Homes -> WorkSet] /\ inWorker'[e] = w /\ \A d \in Homes : d # e => inWorker'[d] = inWorker[d]
  BY <1>2, <1>3 DEF StoreInv, StoreTypes
<1>5. /\ FileOf(e) \in StoreNames /\ StagingOf(e) \in StoreNames /\ FileOf(e) # StagingOf(e)
      /\ FileOf(e).of = e /\ StagingOf(e).of = e /\ StagingOf(e).kind = "tmp"
  BY NameParts
<1>6. NoPixels \in PixelSet
  BY DEF NoPixels, PixelSet
<1>7. /\ store' \in [StoreNames -> PixelSet] /\ store'[FileOf(e)] = store[StagingOf(e)]
      /\ \A x \in StoreNames : x \notin {FileOf(e), StagingOf(e)} => store'[x] = store[x]
  BY <1>3, <1>5, <1>6 DEF StoreInv, StoreTypes
<1>8. StoreTypes'
  BY <1>1, <1>4, <1>7 DEF StoreInv, StoreTypes
<1>9. WorkIsReal'
  BY <1>1, <1>2, <1>4 DEF StoreInv, WorkIsReal
<1>10. StagedIsThere'
  <2>1. SUFFICES ASSUME NEW d \in served', life'[d] = "up", inWorker'[d].stage = "staged"
                 PROVE  store'[StagingOf(d)] # NoPixels
    BY DEF StagedIsThere
  <2>2. d # e
    BY <1>2, <1>4, <2>1
  <2>3. d \in Homes /\ d \in served /\ life[d] = "up" /\ inWorker[d].stage = "staged"
    BY <1>1, <1>4, <2>1, <2>2 DEF StoreInv, StoreTypes
  <2>4. store[StagingOf(d)] # NoPixels
    BY <2>3 DEF StoreInv, StagedIsThere
  <2>5. StagingOf(d) \in StoreNames /\ StagingOf(d).of = d
    BY <2>3, NameParts
  <2> QED BY <1>5, <1>7, <2>2, <2>4, <2>5
<1>11. Spares
  <2>1. SUFFICES ASSUME NEW d \in served, life[d] = "up", NEW x \in {FileOf(d)} \union ShmNames(d), store[x] # NoPixels
                 PROVE  store'[x] # NoPixels
    BY <1>1 DEF Spares
  <2>2. d \in Homes
    BY DEF StoreInv, StoreTypes
  <2>3. x \in StoreNames /\ x.of = d
    BY <2>2, NameParts DEF FilesOf
  <2>4. x # StagingOf(e)
    <3>1. CASE x = FileOf(d)
      BY <3>1, <1>5, NameParts DEF FileOf, StagingOf
    <3>2. CASE x \in ShmNames(d)
      BY <2>2, <3>2, <1>5, NameParts
    <3> QED BY <3>1, <3>2
  <2>5. CASE x = FileOf(e)
    <3>1. d = e
      BY <1>5, <2>3, <2>5
    <3>2. store[StagingOf(e)] # NoPixels
      BY <1>1, <2>1, <3>1 DEF StoreInv, StagedIsThere
    <3> QED BY <1>7, <2>5, <3>2
  <2> QED BY <1>7, <2>1, <2>3, <2>4, <2>5
<1> QED BY <1>8, <1>9, <1>10, <1>11 DEF StoreInv

(* What is told to the terminal is well formed. *)
LEMMA Telling ==
  ASSUME StoreInv, NEW e \in Homes, NEW name, NEW pixels \in PixelSet,
         name \in [of : Homes \cup {0}, kind : {"file", "whole", "patch", "inline"}, slot : Nat],
         Tells(e, name, pixels)
  PROVE  escapes' \in [Homes -> Seq(ToldSet)]
<1>1. [name |-> name, pixels |-> pixels] \in ToldSet
  BY DEF ToldSet
<1>2. escapes[e] \in Seq(ToldSet)
  BY DEF StoreInv, StoreTypes
<1>3. Append(escapes[e], [name |-> name, pixels |-> pixels]) \in Seq(ToldSet)
  BY <1>1, <1>2, AppendProperties
<1> QED BY <1>3 DEF StoreInv, StoreTypes, Tells

(* The main thread hands a frame to the worker. *)
LEMMA HandsToWorkerStep ==
  ASSUME StoreInv, NEW e \in Homes, HandsToWorker(e)
  PROVE  StoreInv' /\ Spares
<1> DEFINE w == [n |-> NewPixels(e).n, size |-> NewPixels(e).size, shm |-> e \in shmOn, slot |-> shmSlot[e],
                 stage |-> "handed", failed |-> inWorker[e].failed]
<1>1. /\ inWorker[e] \in WorkSet /\ life[e] = "up" /\ drawnSoFar[e] \in Nat /\ paneSize[e] \in {0, 1}
      /\ shmSlot[e] \in Nat
      /\ UNCHANGED <<life, served, shmPatchSlot, paneSize, escapes, store>>
  BY DEF StoreInv, StoreTypes, HandsToWorker, CanWrite
<1>2. NewPixels(e).n \in Nat /\ NewPixels(e).n > 0 /\ NewPixels(e).size \in {0, 1}
  BY <1>1 DEF NewPixels
<1>3. w \in WorkSet /\ w.n > 0 /\ w.stage = "handed"
  <2>1. (e \in shmOn) \in BOOLEAN /\ inWorker[e].failed \in BOOLEAN
    BY <1>1 DEF WorkSet
  <2> QED BY <1>1, <1>2, <2>1 DEF WorkSet
<1>4. inWorker' = [inWorker EXCEPT ![e] = w]
  BY DEF HandsToWorker
<1> HIDE DEF w
<1>5. inWorker' \in [Homes -> WorkSet] /\ inWorker'[e] = w /\ \A d \in Homes : d # e => inWorker'[d] = inWorker[d]
  BY <1>3, <1>4 DEF StoreInv, StoreTypes
<1>6. shmSlot' \in [Homes -> Nat]
  <2>1. (shmSlot[e] + 1) % WholeRing \in Nat
    BY <1>1, StoreAssumption
  <2> QED BY <2>1 DEF HandsToWorker, StoreInv, StoreTypes
<1>7. drawnSoFar' \in [Homes -> Nat]
  BY DEF HandsToWorker, StoreInv, StoreTypes
<1>8. markers \subseteq markers'
  BY DEF HandsToWorker, MarkShmPane
<1>9. StoreTypes' /\ WorkIsReal'
  BY <1>1, <1>3, <1>5, <1>6, <1>7 DEF StoreInv, StoreTypes, WorkIsReal
<1>10. \A d \in Homes : inWorker'[d].stage = "staged" => inWorker[d].stage = "staged"
  BY <1>3, <1>5
<1>11. StagedIsThere' /\ Spares
  BY <1>1, <1>8, <1>10, TakesNothing
<1> QED BY <1>9, <1>11 DEF StoreInv

(* The worker's answer is told, or is not. *)
LEMMA WorkerAnswersStep ==
  ASSUME StoreInv, NEW e \in Homes, WorkerAnswers(e)
  PROVE  StoreInv' /\ Spares
<1> DEFINE w == [NoWork EXCEPT !.failed = inWorker[e].failed /\ inWorker[e].stage = "error"]
<1>1. /\ inWorker[e] \in WorkSet /\ paneSize[e] \in {0, 1}
      /\ UNCHANGED <<life, served, shmSlot, shmPatchSlot, paneSize, drawnSoFar, store, markers>>
  BY DEF StoreInv, StoreTypes, WorkerAnswers
<1>2. w \in WorkSet /\ w.stage = "none"
  <2>1. (inWorker[e].failed /\ inWorker[e].stage = "error") \in BOOLEAN
    OBVIOUS
  <2> QED BY <2>1 DEF WorkSet, NoWork
<1>3. inWorker' = [inWorker EXCEPT ![e] = w]
  BY DEF WorkerAnswers
<1> HIDE DEF w
<1>4. inWorker' \in [Homes -> WorkSet] /\ inWorker'[e] = w /\ \A d \in Homes : d # e => inWorker'[d] = inWorker[d]
  BY <1>2, <1>3 DEF StoreInv, StoreTypes
<1>5. escapes' \in [Homes -> Seq(ToldSet)]
  <2>1. CASE escapes' = escapes
    BY <2>1 DEF StoreInv, StoreTypes
  <2>2. CASE Tells(e, Inline, NoPixels)
    <3>1. /\ Inline \in [of : Homes \cup {0}, kind : {"file", "whole", "patch", "inline"}, slot : Nat]
          /\ NoPixels \in PixelSet
      BY DEF Inline, NoPixels, PixelSet
    <3> QED BY <2>2, <3>1, Telling
  <2>3. CASE Tells(e, IF inWorker[e].stage = "object" THEN WholeName(e, inWorker[e].slot) ELSE FileOf(e), PixelsOf(e))
    <3>1. /\ WholeName(e, inWorker[e].slot)
               \in [of : Homes \cup {0}, kind : {"file", "whole", "patch", "inline"}, slot : Nat]
          /\ FileOf(e) \in [of : Homes \cup {0}, kind : {"file", "whole", "patch", "inline"}, slot : Nat]
          /\ PixelsOf(e) \in PixelSet
      BY <1>1 DEF WholeName, FileOf, PixelsOf, PixelSet, WorkSet
    <3>2. CASE inWorker[e].stage = "object"
      BY <2>3, <3>1, <3>2, Telling
    <3>3. CASE inWorker[e].stage # "object"
      BY <2>3, <3>1, <3>3, Telling
    <3> QED BY <3>2, <3>3
  <2> QED BY <2>1, <2>2, <2>3 DEF WorkerAnswers
<1>6. StoreTypes' /\ WorkIsReal'
  BY <1>1, <1>2, <1>4, <1>5 DEF StoreInv, StoreTypes, WorkIsReal
<1>7. \A d \in Homes : inWorker'[d].stage = "staged" => inWorker[d].stage = "staged"
  BY <1>2, <1>4
<1>8. StagedIsThere' /\ Spares
  BY <1>1, <1>7, TakesNothing
<1> QED BY <1>6, <1>8 DEF StoreInv

(* A patch is written and told past the worker. *)
LEMMA SendsPatchStep ==
  ASSUME StoreInv, NEW e \in Homes, NEW works \in BOOLEAN, SendsPatch(e, works)
  PROVE  StoreInv' /\ Spares
<1>1. /\ drawnSoFar[e] \in Nat /\ paneSize[e] \in {0, 1} /\ shmPatchSlot[e] \in Nat
      /\ UNCHANGED <<life, served, shmSlot, paneSize, inWorker>>
  BY DEF StoreInv, StoreTypes, SendsPatch
<1>2. NewPixels(e) \in PixelSet /\ NewPixels(e).n > 0
  BY <1>1 DEF NewPixels, PixelSet
<1>3. shmPatchSlot' \in [Homes -> Nat]
  <2>1. (shmPatchSlot[e] + 1) % PatchRing \in Nat
    BY <1>1, StoreAssumption
  <2> QED BY <2>1 DEF SendsPatch, NextPatchSlot, StoreInv, StoreTypes
<1>4. drawnSoFar' \in [Homes -> Nat]
  BY DEF SendsPatch, StoreInv, StoreTypes
<1>5. markers \subseteq markers'
  BY DEF SendsPatch, MarkShmPane
<1>6. /\ store' \in [StoreNames -> PixelSet] /\ escapes' \in [Homes -> Seq(ToldSet)]
      /\ \A x \in StoreNames : store[x] # NoPixels => store'[x] # NoPixels
  <2>1. CASE works = TRUE
    <3>1. PICK name : /\ name = PatchName(e, shmPatchSlot[e])
                      /\ store' = [store EXCEPT ![name] = NewPixels(e)] /\ Tells(e, name, NewPixels(e))
      BY <2>1 DEF SendsPatch
    <3>2. name \in [of : Homes \cup {0}, kind : {"file", "whole", "patch", "inline"}, slot : Nat]
      BY <1>1, <3>1 DEF PatchName
    <3>3. escapes' \in [Homes -> Seq(ToldSet)]
      BY <1>2, <3>1, <3>2, Telling
    <3> QED BY <1>2, <3>1, <3>3, PutsPixels
  <2>2. CASE works = FALSE
    <3>1. store' = store /\ Tells(e, Inline, NoPixels)
      BY <2>2 DEF SendsPatch
    <3>2. /\ Inline \in [of : Homes \cup {0}, kind : {"file", "whole", "patch", "inline"}, slot : Nat]
          /\ NoPixels \in PixelSet
      BY DEF Inline, NoPixels, PixelSet
    <3>3. escapes' \in [Homes -> Seq(ToldSet)]
      BY <3>1, <3>2, Telling
    <3> QED BY <3>1, <3>3 DEF StoreInv, StoreTypes
  <2> QED BY <2>1, <2>2
<1>7. StoreTypes' /\ WorkIsReal'
  BY <1>1, <1>3, <1>4, <1>6 DEF StoreInv, StoreTypes, WorkIsReal
<1>8. StagedIsThere' /\ Spares
  BY <1>1, <1>5, <1>6, TakesNothing
<1> QED BY <1>7, <1>8 DEF StoreInv

(* An escape leaves the way to the terminal: read, with the object it names, or dropped. *)
LEMMA EscapeLeaves ==
  ASSUME StoreInv, NEW e \in Homes, TerminalReads(e) \/ EscapeIsDropped(e)
  PROVE  StoreInv' /\ Spares
<1>1. /\ escapes[e] \in Seq(ToldSet) /\ escapes[e] # <<>> /\ escapes' = [escapes EXCEPT ![e] = Tail(escapes[e])]
      /\ UNCHANGED <<life, served, shmSlot, shmPatchSlot, paneSize, drawnSoFar, inWorker>>
  BY DEF StoreInv, StoreTypes, TerminalReads, EscapeIsDropped
<1>2. /\ Tail(escapes[e]) \in Seq(ToldSet) /\ Len(Tail(escapes[e])) = Len(escapes[e]) - 1
      /\ Head(escapes[e]) \in ToldSet /\ Len(escapes[e]) \in Nat
  BY <1>1, HeadTailProperties
<1>3. escapes' \in [Homes -> Seq(ToldSet)] /\ escapes'[e] = Tail(escapes[e])
  BY <1>1, <1>2 DEF StoreInv, StoreTypes
<1>4. escapes' # escapes
  BY <1>2, <1>3
<1>5. Spares
  BY <1>4 DEF Spares
<1>6. PICK name : /\ name = Head(escapes[e]).name /\ name.kind # "tmp"
                  /\ store' = store \/ store' = Without({name})
  BY <1>2 DEF TerminalReads, EscapeIsDropped, ToldSet
<1>7. NoPixels \in PixelSet
  BY DEF NoPixels, PixelSet
<1>8. store' \in [StoreNames -> PixelSet]
  BY <1>6, <1>7 DEF Without, StoreInv, StoreTypes
<1>9. \A d \in Homes : store'[StagingOf(d)] = store[StagingOf(d)]
  <2>1. SUFFICES ASSUME NEW d \in Homes PROVE store'[StagingOf(d)] = store[StagingOf(d)]
    OBVIOUS
  <2>2. StagingOf(d) \in StoreNames /\ StagingOf(d) # name
    BY <1>6, NameParts
  <2> QED BY <1>6, <2>2 DEF Without
<1>10. StoreTypes' /\ WorkIsReal'
  BY <1>1, <1>3, <1>8 DEF StoreInv, StoreTypes, WorkIsReal
<1>11. StagedIsThere'
  BY <1>1, <1>9 DEF StoreInv, StoreTypes, StagedIsThere
<1> QED BY <1>5, <1>10, <1>11 DEF StoreInv

(* The pane's size changes, or the pane goes. *)
LEMMA ResizesOrDetaches ==
  ASSUME StoreInv, NEW e \in Homes, PaneResizes(e) \/ DetachesPane(e)
  PROVE  StoreInv' /\ Spares
<1>1. CASE PaneResizes(e)
  <2>1. UNCHANGED <<life, served, shmSlot, shmPatchSlot, drawnSoFar, inWorker, escapes, store, markers>>
    BY <1>1 DEF PaneResizes
  <2>2. paneSize' \in [Homes -> {0, 1}]
    <3>1. paneSize \in [Homes -> {0, 1}] /\ paneSize' = [paneSize EXCEPT ![e] = 1 - paneSize[e]]
      BY <1>1 DEF PaneResizes, StoreInv, StoreTypes
    <3>2. paneSize[e] = 0 \/ paneSize[e] = 1
      BY <3>1
    <3>3. 1 - paneSize[e] \in {0, 1}
      BY <3>2
    <3> QED BY <3>1, <3>3
  <2>3. StoreTypes' /\ WorkIsReal'
    BY <2>1, <2>2 DEF StoreInv, StoreTypes, WorkIsReal
  <2>4. /\ markers \subseteq markers' /\ served' \subseteq served
        /\ \A x \in StoreNames : store[x] # NoPixels => store'[x] # NoPixels
        /\ \A d \in Homes : life'[d] = "up" => life[d] = "up"
        /\ \A d \in Homes : inWorker'[d].stage = "staged" => inWorker[d].stage = "staged"
    BY <2>1
  <2>5. StagedIsThere' /\ Spares
    BY <2>4, TakesNothing
  <2> QED BY <2>3, <2>5 DEF StoreInv
<1>2. CASE DetachesPane(e)
  <2>1. /\ served' = served \ {e} /\ store' = Without(FilesOf(e))
        /\ UNCHANGED <<life, shmSlot, shmPatchSlot, paneSize, drawnSoFar, inWorker, escapes, markers>>
    BY <1>2 DEF DetachesPane
  <2>2. \A x \in FilesOf(e) : x.of = e
    BY NameParts
  <2>3. StoreTypes' /\ WorkIsReal'
    <3>1. NoPixels \in PixelSet
      BY DEF NoPixels, PixelSet
    <3>2. store' \in [StoreNames -> PixelSet]
      BY <2>1, <3>1 DEF Without, StoreInv, StoreTypes
    <3> QED BY <2>1, <3>2 DEF StoreInv, StoreTypes, WorkIsReal
  <2>4. served' \subseteq Homes
    BY <2>3 DEF StoreTypes
  <2>5. \A x \in FilesOf(e), d \in served' : x.of # d
    BY <2>1, <2>2
  <2>6. StagedIsThere' /\ Spares
    BY <2>1, <2>4, <2>5, TakesDead
  <2> QED BY <2>3, <2>6 DEF StoreInv
<1> QED BY <1>1, <1>2

(* An engine goes, in order or not; its own names may go with it. *)
LEMMA EngineGoes ==
  ASSUME StoreInv, NEW e \in Homes, BeforeQuit(e) \/ ExitHandler(e) \/ Killed(e)
  PROVE  StoreInv' /\ Spares
<1>1. /\ UNCHANGED <<served, shmSlot, shmPatchSlot, paneSize, drawnSoFar, escapes>>
      /\ life[e] # "new" /\ \E s \in {"leaving", "dead"} : life' = [life EXCEPT ![e] = s]
      /\ inWorker' = inWorker \/ inWorker' = [inWorker EXCEPT ![e] = NoWork]
      /\ markers \ {e} \subseteq markers'
  BY DEF BeforeQuit, ExitHandler, Killed, CleansUp
<1>2. /\ life' \in [Homes -> {"new", "up", "leaving", "dead"}] /\ life'[e] \in {"leaving", "dead"}
      /\ \A d \in Homes : d # e => life'[d] = life[d]
  BY <1>1 DEF StoreInv, StoreTypes
<1>3. NoWork \in WorkSet /\ NoWork.stage = "none"
  BY DEF NoWork, WorkSet
<1>4. inWorker' \in [Homes -> WorkSet] /\ \A d \in Homes : inWorker'[d] \in {inWorker[d], NoWork}
  <2>1. inWorker \in [Homes -> WorkSet]
    BY DEF StoreInv, StoreTypes
  <2>2. CASE inWorker' = inWorker
    BY <2>1, <2>2
  <2>3. CASE inWorker' = [inWorker EXCEPT ![e] = NoWork]
    BY <1>3, <2>1, <2>3
  <2> QED BY <1>1, <2>2, <2>3
<1>5. PICK gone : store' = Without(gone) /\ \A x \in gone : x.of = e
  <2>1. store = Without({})
    BY DEF Without, StoreInv, StoreTypes
  <2>2. \A x \in FilesOf(e) \cup ShmNames(e) : x.of = e
    BY NameParts
  <2>3. CASE store' = store
    BY <2>1, <2>3
  <2>4. CASE store' = Without(FilesOf(e) \union (IF e \in marked THEN ShmNames(e) ELSE {}))
    <3>1. \A x \in FilesOf(e) \union (IF e \in marked THEN ShmNames(e) ELSE {}) : x.of = e
      BY <2>2
    <3> QED BY <2>4, <3>1
  <2> QED BY <2>3, <2>4 DEF BeforeQuit, ExitHandler, Killed, CleansUp
<1>6. NoPixels \in PixelSet
  BY DEF NoPixels, PixelSet
<1>7. store' \in [StoreNames -> PixelSet] /\ \A x \in StoreNames : x.of # e => store'[x] = store[x]
  BY <1>5, <1>6 DEF Without, StoreInv, StoreTypes
<1>8. StoreTypes'
  BY <1>1, <1>2, <1>4, <1>7 DEF StoreInv, StoreTypes
<1>9. WorkIsReal'
  <2>1. SUFFICES ASSUME NEW d \in Homes
                 PROVE  /\ inWorker'[d].stage # "none" => inWorker'[d].n > 0
                        /\ life'[d] = "new" => inWorker'[d].stage = "none"
    BY DEF WorkIsReal
  <2>2. life'[d] = "new" => life[d] = "new"
    BY <1>1, <1>2
  <2> QED BY <1>3, <1>4, <2>2 DEF StoreInv, WorkIsReal
<1>10. StagedIsThere'
  <2>1. SUFFICES ASSUME NEW d \in served', life'[d] = "up", inWorker'[d].stage = "staged"
                 PROVE  store'[StagingOf(d)] # NoPixels
    BY DEF StagedIsThere
  <2>2. d \in Homes /\ d # e /\ d \in served /\ life[d] = "up" /\ inWorker[d].stage = "staged"
    BY <1>1, <1>2, <1>3, <1>4, <2>1 DEF StoreInv, StoreTypes
  <2>3. store[StagingOf(d)] # NoPixels
    BY <2>2 DEF StoreInv, StagedIsThere
  <2>4. StagingOf(d) \in StoreNames /\ StagingOf(d).of = d
    BY <2>2, NameParts
  <2> QED BY <1>7, <2>2, <2>3, <2>4
<1>11. Spares
  <2>1. SUFFICES ASSUME NEW d \in served, life'[d] = "up"
                 PROVE  /\ (d \in markers => d \in markers')
                        /\ \A x \in {FileOf(d)} \union ShmNames(d) : store[x] # NoPixels => store'[x] # NoPixels
    BY DEF Spares
  <2>2. d \in Homes /\ d # e
    BY <1>2, <2>1 DEF StoreInv, StoreTypes
  <2>3. \A x \in {FileOf(d)} \union ShmNames(d) : x \in StoreNames /\ x.of = d
    BY <2>2, NameParts DEF FilesOf
  <2> QED BY <1>1, <1>7, <2>2, <2>3
<1> QED BY <1>8, <1>9, <1>10, <1>11 DEF StoreInv

(* An engine starts, and takes away what engines that are not running left. *)
LEMMA StartsUpStep ==
  ASSUME StoreInv, NEW e \in Homes, StartsUp(e)
  PROVE  StoreInv' /\ Spares
<1>1. /\ life[e] = "new" /\ life' = [life EXCEPT ![e] = "up"] /\ served' = served \union {e}
      /\ markers' = markers \ AbandonedShm(e)
      /\ UNCHANGED <<shmSlot, shmPatchSlot, paneSize, drawnSoFar, inWorker, escapes>>
  BY DEF StartsUp
<1>2. /\ life' \in [Homes -> {"new", "up", "leaving", "dead"}] /\ life'[e] = "up"
      /\ \A d \in Homes : d # e => life'[d] = life[d]
  BY <1>1 DEF StoreInv, StoreTypes
<1>3. served' \subseteq Homes
  BY <1>1 DEF StoreInv, StoreTypes
<1> DEFINE gone == UNION ({FilesOf(d) : d \in Abandoned(e)} \union {ShmNames(d) : d \in AbandonedShm(e)})
<1>4. store' = Without(gone)
  BY DEF StartsUp
<1>5. \A x \in gone : x.of \in Abandoned(e)
  <2>1. SUFFICES ASSUME NEW x \in gone PROVE x.of \in Abandoned(e)
    OBVIOUS
  <2>2. PICK d \in Abandoned(e) : x \in FilesOf(d) \cup ShmNames(d)
    BY DEF AbandonedShm
  <2>3. d \in Homes
    BY DEF Abandoned
  <2> QED BY <2>2, <2>3, NameParts
<1> HIDE DEF gone
<1>6. \A d \in Abandoned(e) : d \in Homes /\ life'[d] # "up"
  BY <1>2 DEF Abandoned
<1>7. \A x \in gone, d \in served' : life'[d] = "up" => x.of # d
  BY <1>5, <1>6
<1>8. \A d \in served' : life'[d] = "up" /\ life[d] = "up" => d \in served /\ (d \in markers => d \in markers')
  BY <1>1, <1>6 DEF AbandonedShm
<1>9. \A d \in served' : life'[d] = "up" => life[d] = "up" \/ inWorker[d].stage = "none"
  BY <1>1, <1>2, <1>3 DEF StoreInv, WorkIsReal
<1>10. StagedIsThere' /\ Spares
  BY <1>1, <1>3, <1>4, <1>7, <1>8, <1>9, TakesDead
<1>11. store' \in [StoreNames -> PixelSet]
  <2>1. NoPixels \in PixelSet
    BY DEF NoPixels, PixelSet
  <2> QED BY <1>4, <2>1 DEF Without, StoreInv, StoreTypes
<1>12. StoreTypes'
  BY <1>1, <1>2, <1>3, <1>11 DEF StoreInv, StoreTypes
<1>13. WorkIsReal'
  BY <1>1, <1>2 DEF StoreInv, WorkIsReal
<1> QED BY <1>10, <1>12, <1>13 DEF StoreInv

(* StoreInv is inductive, and no step takes from the living. *)
LEMMA StoreStep ==
  ASSUME StoreInv, StoreNext
  PROVE  StoreInv' /\ Spares
BY StartsUpStep, HandsToWorkerStep, WorkerSteps, StagesFileStep, RenamesFileStep, WorkerAnswersStep, SendsPatchStep,
   EscapeLeaves, ResizesOrDetaches, EngineGoes
   DEF StoreNext

(* No frame has been made yet. *)
LEMMA StoreStarts == StoreInit => StoreInv
<1> SUFFICES ASSUME StoreInit PROVE StoreInv
  OBVIOUS
<1>1. NoWork \in WorkSet /\ NoWork.stage = "none" /\ NoPixels \in PixelSet
  BY DEF NoWork, WorkSet, NoPixels, PixelSet
<1>2. <<>> \in Seq(ToldSet)
  BY EmptySeq
<1>3. StoreTypes /\ WorkIsReal
  BY <1>1, <1>2 DEF StoreInit, StoreTypes, WorkIsReal
<1>4. StagedIsThere
  BY DEF StoreInit, StagedIsThere
<1> QED BY <1>3, <1>4 DEF StoreInv

(* Nothing happens. *)
LEMMA StoreSitsStill ==
  ASSUME StoreInv, UNCHANGED storeVars
  PROVE  StoreInv'
BY DEF StoreInv, StoreTypes, WorkIsReal, StagedIsThere, storeVars, NoPixels, StagingOf

-----------------------------------------------------------------------------

(* What escapes of an engine name holds the pixels they were written for, or later ones of the file,     *)
(* for certain while the engine lives and its pane is attached; of an object only if its name was not    *)
(* handed out again before the terminal came to it.                                                       *)
ToldOne(x, e, at, sure, again) ==
  /\ x.name \in {Inline, FileOf(e)} \cup ShmNames(e)
  /\ x.name \in ShmNames(e) \ again => /\ at[x.name] = x.pixels \/ (~sure /\ at[x.name] = NoPixels)
                                       /\ x.pixels # NoPixels
  /\ x.name = FileOf(e) => /\ sure => at[FileOf(e)] # NoPixels
                           /\ at[FileOf(e)] # NoPixels => at[FileOf(e)].n >= x.pixels.n
Told(q, e, at, sure, again) == \A i \in 1 .. Len(q) : ToldOne(q[i], e, at, sure, again)
FilesUpTo(q, e, n) == \A i \in 1 .. Len(q) : q[i].name = FileOf(e) => q[i].pixels.n <= n

(* No two escapes name one object, unless its name was handed out again.                                 *)
SaidOnce(q, e, again) ==
  \A i, j \in 1 .. Len(q) : i < j /\ q[i].name = q[j].name => q[i].name \notin ShmNames(e) \ again
Unnamed(q, name) == \A i \in 1 .. Len(q) : q[i].name # name

Live(e) == e \in served /\ life[e] = "up"

(* What the worker has: an object of a name no escape says, a staged file or the pane's file with its     *)
(* pixels.                                                                                                *)
JobHolds(e) ==
  LET job == inWorker[e]
      name == WholeName(e, job.slot)
  IN /\ job.stage # "none" => job.n <= drawnSoFar[e] /\ FilesUpTo(escapes[e], e, job.n)
     /\ job.shm => /\ job.stage \in {"handed", "object"} /\ job.slot \in 0 .. WholeRing - 1
                   /\ name \in crowded \/ Unnamed(escapes[e], name)
     /\ job.stage = "object" => /\ job.shm
                                /\ \/ name \in crowded
                                   \/ store[name] = PixelsOf(e)
                                   \/ ~Live(e) /\ store[name] = NoPixels
     /\ job.stage = "staged" => store[StagingOf(e)] \in {NoPixels, PixelsOf(e)}
     /\ job.stage = "file" => /\ Live(e) => store[FileOf(e)] # NoPixels
                              /\ store[FileOf(e)] # NoPixels => store[FileOf(e)].n >= job.n

(* Whatever an engine has in shared memory, or is about to, a marker tells of until it is cleaned up.     *)
MarksHold(e) ==
  /\ inWorker[e].shm \/ (\E x \in ShmNames(e) : store[x] # NoPixels) => e \in marked
  /\ life[e] = "new" => e \notin marked
  /\ life[e] = "up" \/ (life[e] = "leaving" /\ e \notin served) => (e \in marked => e \in markers)
  /\ life[e] = "dead" /\ e \notin markers /\ e \notin cutShort => \A x \in ShmNames(e) : store[x] = NoPixels

HomeHolds(e) ==
  /\ Told(escapes[e], e, store, Live(e), crowded) /\ FilesUpTo(escapes[e], e, drawnSoFar[e])
  /\ SaidOnce(escapes[e], e, crowded) /\ shmSlot[e] \in 0 .. WholeRing - 1 /\ shmPatchSlot[e] \in 0 .. PatchRing - 1
  /\ life[e] = "new" => escapes[e] = <<>>
  /\ JobHolds(e) /\ MarksHold(e)
FilesInv == StoreInv /\ PixelsAreItsOwn /\ \A e \in Homes : HomeHolds(e)

(* A slot of a ring is handed out, an escape is sent, or read. *)
LEMMA ComesRound ==
  ASSUME NEW ring \in Nat \ {0}, NEW next \in 0 .. ring - 1
  PROVE  (next + 1) % ring \in 0 .. ring - 1
OBVIOUS

LEMMA EscapeSent ==
  ASSUME NEW q \in Seq(ToldSet), NEW x \in ToldSet
  PROVE  /\ Append(q, x) \in Seq(ToldSet) /\ Len(Append(q, x)) = Len(q) + 1 /\ Len(q) \in Nat
         /\ \A i \in 1 .. Len(q) : Append(q, x)[i] = q[i]
         /\ Append(q, x)[Len(q) + 1] = x
OBVIOUS

LEMMA EscapeRead ==
  ASSUME NEW q \in Seq(ToldSet), q # <<>>
  PROVE  /\ Tail(q) \in Seq(ToldSet) /\ Len(Tail(q)) = Len(q) - 1 /\ Len(q) \in Nat \ {0} /\ Head(q) = q[1]
         /\ \A i \in 1 .. Len(Tail(q)) : i + 1 \in 1 .. Len(q) /\ Tail(q)[i] = q[i + 1]
OBVIOUS

LEMMA NameKinds ==
  ASSUME NEW e \in Homes
  PROVE  /\ \A k \in 0 .. WholeRing - 1 : /\ WholeName(e, k) \in ShmNames(e) /\ WholeName(e, k).slot = k
                                          /\ WholeName(e, k).kind = "whole"
         /\ \A k \in 0 .. PatchRing - 1 : /\ PatchName(e, k) \in ShmNames(e) /\ PatchName(e, k).slot = k
                                          /\ PatchName(e, k).kind = "patch"
         /\ \A x \in ShmNames(e) : \/ x.kind = "whole" /\ x.slot \in 0 .. WholeRing - 1 /\ x = WholeName(e, x.slot)
                                   \/ x.kind = "patch" /\ x.slot \in 0 .. PatchRing - 1 /\ x = PatchName(e, x.slot)
         /\ \A x, y \in ShmNames(e) : x.kind = y.kind /\ x.slot = y.slot => x = y
         /\ FileOf(e).kind = "file" /\ Inline.kind = "inline" /\ FileOf(e) \notin ShmNames(e)
         /\ Inline \notin ShmNames(e) /\ FileOf(e) # Inline /\ StagingOf(e) \notin ShmNames(e) /\ StagingOf(e) # FileOf(e)
<1>1. \A x \in ShmNames(e) : \/ x.kind = "whole" /\ x.slot \in 0 .. WholeRing - 1 /\ x = WholeName(e, x.slot)
                             \/ x.kind = "patch" /\ x.slot \in 0 .. PatchRing - 1 /\ x = PatchName(e, x.slot)
  BY DEF ShmNames, WholeName, PatchName
<1>2. \A x, y \in ShmNames(e) : x.kind = y.kind /\ x.slot = y.slot => x = y
  BY <1>1
<1>3. FileOf(e).kind = "file" /\ Inline.kind = "inline" /\ StagingOf(e).kind = "tmp"
  BY DEF FileOf, Inline, StagingOf
<1>4. FileOf(e) \notin ShmNames(e) /\ Inline \notin ShmNames(e) /\ StagingOf(e) \notin ShmNames(e)
  BY <1>1, <1>3
<1>5. \A k \in 0 .. WholeRing - 1 : /\ WholeName(e, k) \in ShmNames(e) /\ WholeName(e, k).slot = k
                                    /\ WholeName(e, k).kind = "whole"
  BY DEF ShmNames, WholeName
<1>6. \A k \in 0 .. PatchRing - 1 : /\ PatchName(e, k) \in ShmNames(e) /\ PatchName(e, k).slot = k
                                    /\ PatchName(e, k).kind = "patch"
  BY DEF ShmNames, PatchName
<1> QED BY <1>1, <1>2, <1>3, <1>4, <1>5, <1>6

(* What becomes of what escapes say when the store changes, one more is sent or one is read. *)
LEMMA ToldKept ==
  ASSUME NEW q \in Seq(ToldSet), NEW e \in Homes, NEW at, NEW at2, NEW sure \in BOOLEAN, NEW sure2 \in BOOLEAN,
         NEW again, NEW again2, again \subseteq again2, Told(q, e, at, sure, again), sure2 => sure,
         \A i \in 1 .. Len(q) : q[i].name \in ShmNames(e) \ again2 =>
           at2[q[i].name] = at[q[i].name] \/ (~sure2 /\ at2[q[i].name] = NoPixels),
         at2[FileOf(e)] = at[FileOf(e)] \/ (~sure2 /\ at2[FileOf(e)] = NoPixels)
  PROVE  Told(q, e, at2, sure2, again2)
<1> SUFFICES ASSUME NEW i \in 1 .. Len(q) PROVE ToldOne(q[i], e, at2, sure2, again2)
  BY DEF Told
<1>1. ToldOne(q[i], e, at, sure, again)
  BY DEF Told
<1> QED BY <1>1 DEF ToldOne

LEMMA ToldSends ==
  ASSUME NEW q \in Seq(ToldSet), NEW e \in Homes, NEW at, NEW sure \in BOOLEAN, NEW again, NEW x \in ToldSet,
         Told(q, e, at, sure, again), ToldOne(x, e, at, sure, again)
  PROVE  Told(Append(q, x), e, at, sure, again)
<1>1. PICK r : r = Append(q, x)
  OBVIOUS
<1>2. /\ Len(r) = Len(q) + 1 /\ Len(q) \in Nat /\ \A i \in 1 .. Len(q) : r[i] = q[i]
      /\ r[Len(q) + 1] = x
  BY <1>1, EscapeSent
<1>3. \A i \in 1 .. Len(r) : i \in 1 .. Len(q) \/ i = Len(q) + 1
  BY <1>2
<1> QED BY <1>1, <1>2, <1>3 DEF Told

LEMMA OnceSends ==
  ASSUME NEW q \in Seq(ToldSet), NEW e \in Homes, NEW again, NEW again2, again \subseteq again2, SaidOnce(q, e, again),
         NEW x \in ToldSet, x.name \in ShmNames(e) \ again2 => Unnamed(q, x.name)
  PROVE  SaidOnce(Append(q, x), e, again2)
<1>1. PICK r : r = Append(q, x)
  OBVIOUS
<1>2. /\ Len(r) = Len(q) + 1 /\ Len(q) \in Nat /\ \A i \in 1 .. Len(q) : r[i] = q[i]
      /\ r[Len(q) + 1] = x
  BY <1>1, EscapeSent
<1>3. ASSUME NEW i \in 1 .. Len(r), NEW j \in 1 .. Len(r), i < j, r[i].name = r[j].name,
             r[i].name \in ShmNames(e) \ again2
      PROVE  FALSE
  <2>1. i \in 1 .. Len(q) /\ r[i] = q[i]
    BY <1>2, <1>3
  <2>2. CASE j \in 1 .. Len(q)
    BY <1>2, <1>3, <2>1, <2>2 DEF SaidOnce
  <2>3. CASE j = Len(q) + 1
    BY <1>2, <1>3, <2>1, <2>3 DEF Unnamed
  <2> QED BY <1>2, <2>2, <2>3
<1> QED BY <1>1, <1>3 DEF SaidOnce

LEMMA UnnamedSends ==
  ASSUME NEW q \in Seq(ToldSet), NEW x \in ToldSet, NEW name, Unnamed(q, name), x.name # name
  PROVE  Unnamed(Append(q, x), name)
<1>1. PICK r : r = Append(q, x)
  OBVIOUS
<1>2. /\ Len(r) = Len(q) + 1 /\ Len(q) \in Nat /\ \A i \in 1 .. Len(q) : r[i] = q[i]
      /\ r[Len(q) + 1] = x
  BY <1>1, EscapeSent
<1>3. \A i \in 1 .. Len(r) : i \in 1 .. Len(q) \/ i = Len(q) + 1
  BY <1>2
<1> QED BY <1>1, <1>2, <1>3 DEF Unnamed

LEMMA FilesSend ==
  ASSUME NEW q \in Seq(ToldSet), NEW e \in Homes, NEW x \in ToldSet, NEW n \in Nat, NEW m \in Nat, n <= m,
         FilesUpTo(q, e, n), x.name = FileOf(e) => x.pixels.n <= m
  PROVE  FilesUpTo(Append(q, x), e, m)
<1>1. PICK r : r = Append(q, x)
  OBVIOUS
<1>2. /\ Len(r) = Len(q) + 1 /\ Len(q) \in Nat /\ \A i \in 1 .. Len(q) : r[i] = q[i]
      /\ r[Len(q) + 1] = x
  BY <1>1, EscapeSent
<1>3. ASSUME NEW i \in 1 .. Len(r), r[i].name = FileOf(e) PROVE r[i].pixels.n <= m
  <2>1. CASE i \in 1 .. Len(q)
    <3>1. q[i] \in ToldSet /\ q[i].name = FileOf(e)
      BY <1>2, <1>3, <2>1
    <3>2. q[i].pixels.n \in Nat /\ q[i].pixels.n <= n
      BY <2>1, <3>1 DEF FilesUpTo, ToldSet, PixelSet
    <3> QED BY <1>2, <2>1, <3>2
  <2>2. CASE i = Len(q) + 1
    BY <1>2, <1>3, <2>2
  <2> QED BY <1>2, <2>1, <2>2
<1> QED BY <1>1, <1>3 DEF FilesUpTo

LEMMA FilesUpToMore ==
  ASSUME NEW q \in Seq(ToldSet), NEW e \in Homes, NEW n \in Nat, NEW m \in Nat, n <= m, FilesUpTo(q, e, n)
  PROVE  FilesUpTo(q, e, m)
<1> SUFFICES ASSUME NEW i \in 1 .. Len(q), q[i].name = FileOf(e) PROVE q[i].pixels.n <= m
  BY DEF FilesUpTo
<1>1. q[i] \in ToldSet
  OBVIOUS
<1>2. q[i].pixels.n \in Nat /\ q[i].pixels.n <= n
  BY <1>1 DEF FilesUpTo, ToldSet, PixelSet
<1> QED BY <1>2

LEMMA ToldReads ==
  ASSUME NEW q \in Seq(ToldSet), q # <<>>, NEW e \in Homes
  PROVE  /\ \A at, sure, again : Told(q, e, at, sure, again) =>
              Told(Tail(q), e, at, sure, again) /\ ToldOne(Head(q), e, at, sure, again)
         /\ \A n : FilesUpTo(q, e, n) => FilesUpTo(Tail(q), e, n)
         /\ \A name : Unnamed(q, name) => Unnamed(Tail(q), name) /\ Head(q).name # name
         /\ \A again : SaidOnce(q, e, again) =>
              /\ SaidOnce(Tail(q), e, again)
              /\ Head(q).name \in ShmNames(e) \ again => Unnamed(Tail(q), Head(q).name)
<1>1. PICK r : r = Tail(q)
  OBVIOUS
<1>2. /\ Len(r) = Len(q) - 1 /\ Len(q) \in Nat \ {0} /\ Head(q) = q[1]
      /\ \A i \in 1 .. Len(r) : i + 1 \in 1 .. Len(q) /\ r[i] = q[i + 1]
  BY <1>1, EscapeRead
<1>3. 1 \in 1 .. Len(q)
  BY <1>2
<1>4. ASSUME NEW again, SaidOnce(q, e, again) PROVE SaidOnce(r, e, again)
  <2> SUFFICES ASSUME NEW i \in 1 .. Len(r), NEW j \in 1 .. Len(r), i < j, r[i].name = r[j].name
               PROVE  r[i].name \notin ShmNames(e) \ again
    BY DEF SaidOnce
  <2>1. i + 1 \in 1 .. Len(q) /\ j + 1 \in 1 .. Len(q) /\ i + 1 < j + 1 /\ r[i] = q[i + 1] /\ r[j] = q[j + 1]
    BY <1>2
  <2> QED BY <1>4, <2>1 DEF SaidOnce
<1>5. ASSUME NEW again, SaidOnce(q, e, again), Head(q).name \in ShmNames(e) \ again PROVE Unnamed(r, Head(q).name)
  <2> SUFFICES ASSUME NEW i \in 1 .. Len(r), r[i].name = Head(q).name PROVE FALSE
    BY DEF Unnamed
  <2>1. i + 1 \in 1 .. Len(q) /\ 1 < i + 1 /\ r[i] = q[i + 1]
    BY <1>2
  <2>2. q[1].name = q[i + 1].name /\ q[1].name \in ShmNames(e) \ again
    BY <1>2, <1>5, <2>1
  <2> QED BY <1>3, <1>5, <2>1, <2>2 DEF SaidOnce
<1>6. \A at, sure, again : Told(q, e, at, sure, again) => Told(r, e, at, sure, again) /\ ToldOne(Head(q), e, at, sure, again)
  BY <1>2, <1>3 DEF Told
<1>7. \A n : FilesUpTo(q, e, n) => FilesUpTo(r, e, n)
  BY <1>2 DEF FilesUpTo
<1>8. \A name : Unnamed(q, name) => Unnamed(r, name) /\ Head(q).name # name
  BY <1>2, <1>3 DEF Unnamed
<1> QED BY <1>1, <1>4, <1>5, <1>6, <1>7, <1>8

(* An engine that a step leaves alone, in all that its part of the invariant speaks of. *)
LEMMA Elsewhere ==
  ASSUME NEW d \in Homes, StoreInv, HomeHolds(d), life'[d] = life[d], (d \in served') <=> (d \in served),
         (d \in marked') <=> (d \in marked), (d \in markers') <=> (d \in markers),
         shmSlot'[d] = shmSlot[d], shmPatchSlot'[d] = shmPatchSlot[d], drawnSoFar'[d] = drawnSoFar[d],
         inWorker'[d] = inWorker[d], escapes'[d] = escapes[d], crowded \subseteq crowded', cutShort \subseteq cutShort',
         \A x \in StoreNames : x.of = d => store'[x] = store[x]
  PROVE  HomeHolds(d)'
<1>1. store'[FileOf(d)] = store[FileOf(d)] /\ store'[StagingOf(d)] = store[StagingOf(d)]
      /\ \A x \in ShmNames(d) : store'[x] = store[x]
  BY NameParts
<1>2. PICK at, at2, again, again2 : at = store /\ at2 = store' /\ again = crowded /\ again2 = crowded'
  OBVIOUS
<1>3. PICK q, sure : q = escapes[d] /\ sure = Live(d)
  OBVIOUS
<1>4. q \in Seq(ToldSet) /\ sure \in BOOLEAN /\ Told(q, d, at, sure, again) /\ Live(d)' = sure /\ again \subseteq again2
  BY <1>2, <1>3 DEF Live, HomeHolds, StoreInv, StoreTypes
<1>5. Told(q, d, at2, sure, again2)
  BY <1>1, <1>2, <1>4, ToldKept
<1>6. SaidOnce(q, d, again2)
  BY <1>2, <1>3 DEF HomeHolds, SaidOnce
<1>7. JobHolds(d)'
  <2>1. ASSUME inWorker[d].shm
        PROVE  WholeName(d, inWorker[d].slot) \in ShmNames(d)
    BY <2>1, NameKinds DEF HomeHolds, JobHolds
  <2>2. WholeName(d, inWorker[d].slot)' = WholeName(d, inWorker[d].slot) /\ PixelsOf(d)' = PixelsOf(d)
    BY DEF WholeName, PixelsOf
  <2> QED BY <1>1, <1>3, <1>4, <2>1, <2>2 DEF HomeHolds, JobHolds
<1>8. MarksHold(d)'
  BY <1>1 DEF HomeHolds, MarksHold, ShmNames, WholeName, PatchName
<1> QED BY <1>2, <1>3, <1>4, <1>5, <1>6, <1>7, <1>8 DEF HomeHolds

(* What is known of an engine. *)
LEMMA HomeParts ==
  ASSUME FilesInv, NEW e \in Homes
  PROVE  /\ escapes[e] \in Seq(ToldSet) /\ inWorker[e] \in WorkSet /\ store \in [StoreNames -> PixelSet]
         /\ drawnSoFar[e] \in Nat /\ Live(e) \in BOOLEAN
         /\ PixelsOf(e) \in PixelSet /\ (inWorker[e].stage # "none" => PixelsOf(e) # NoPixels)
         /\ Told(escapes[e], e, store, Live(e), crowded) /\ FilesUpTo(escapes[e], e, drawnSoFar[e])
         /\ SaidOnce(escapes[e], e, crowded)
         /\ JobHolds(e) /\ MarksHold(e) /\ HomeHolds(e) /\ StoreInv
<1>1. /\ StoreInv /\ HomeHolds(e)
  BY DEF FilesInv
<1>2. /\ escapes[e] \in Seq(ToldSet) /\ inWorker[e] \in WorkSet /\ store \in [StoreNames -> PixelSet]
      /\ drawnSoFar[e] \in Nat
  BY <1>1 DEF StoreInv, StoreTypes
<1>3. PixelsOf(e) \in PixelSet /\ (inWorker[e].stage # "none" => PixelsOf(e) # NoPixels)
  <2>1. inWorker[e].n \in Nat /\ inWorker[e].size \in {0, 1}
    BY <1>2 DEF WorkSet
  <2>2. inWorker[e].stage # "none" => inWorker[e].n > 0
    BY <1>1 DEF StoreInv, WorkIsReal
  <2>3. PixelsOf(e).n = inWorker[e].n /\ NoPixels.n = 0
    BY DEF PixelsOf, NoPixels
  <2> QED BY <2>1, <2>2, <2>3 DEF PixelsOf, PixelSet
<1> QED BY <1>1, <1>2, <1>3 DEF HomeHolds, Live

LEMMA OthersStay ==
  ASSUME FilesInv, NEW e \in Homes, crowded \subseteq crowded', cutShort \subseteq cutShort',
         \A d \in Homes \ {e} :
           /\ life'[d] = life[d] /\ ((d \in served') <=> (d \in served))
           /\ ((d \in marked') <=> (d \in marked)) /\ ((d \in markers') <=> (d \in markers))
           /\ shmSlot'[d] = shmSlot[d] /\ shmPatchSlot'[d] = shmPatchSlot[d] /\ drawnSoFar'[d] = drawnSoFar[d]
           /\ inWorker'[d] = inWorker[d] /\ escapes'[d] = escapes[d],
         \A x \in StoreNames : x.of # e => store'[x] = store[x]
  PROVE  \A d \in Homes \ {e} : HomeHolds(d)'
<1> SUFFICES ASSUME NEW d \in Homes \ {e} PROVE HomeHolds(d)'
  OBVIOUS
<1>1. \A x \in StoreNames : x.of = d => store'[x] = store[x]
  OBVIOUS
<1> QED BY <1>1, Elsewhere DEF FilesInv

(* A step of the worker, which sends nothing. *)
LEMMA WorkerHolds ==
  ASSUME FilesInv, NEW e \in Homes,
         UNCHANGED <<life, served, marked, shmSlot, shmPatchSlot, drawnSoFar, escapes, markers, lastRead, crowded, cutShort>>,
         \A d \in Homes \ {e} : inWorker'[d] = inWorker[d], \A x \in StoreNames : x.of # e => store'[x] = store[x],
         Told(escapes[e], e, store', Live(e), crowded), JobHolds(e)', MarksHold(e)'
  PROVE  PixelsAreItsOwn' /\ \A d \in Homes : HomeHolds(d)'
<1>1. \A d \in Homes \ {e} : HomeHolds(d)'
  BY OthersStay
<1>2. PixelsAreItsOwn'
  BY DEF FilesInv, PixelsAreItsOwn
<1>3. HomeHolds(e)'
  BY HomeParts DEF HomeHolds, Live
<1> QED BY <1>1, <1>2, <1>3

(* The worker writes an object, of a name that no escape says. *)
LEMMA WritesObjectHolds ==
  ASSUME FilesInv,
         NEW e \in Homes, WritesObject(e)
  PROVE  PixelsAreItsOwn' /\ \A d \in Homes : HomeHolds(d)'
<1>1. PICK job, job2, q, name : /\ job = inWorker[e] /\ job2 = [job EXCEPT !.stage = "object"] /\ q = escapes[e]
                                /\ name = WholeName(e, job.slot)
  OBVIOUS
<1>2. /\ job \in WorkSet /\ job.stage = "handed" /\ job.shm /\ job.slot \in 0 .. WholeRing - 1
      /\ name \in crowded \/ Unnamed(q, name)
      /\ job.n <= drawnSoFar[e] /\ FilesUpTo(q, e, job.n)
  BY <1>1, HomeParts DEF WritesObject, Works, JobHolds
<1>3. /\ job2 \in WorkSet /\ job2.stage = "object" /\ job2.shm /\ job2.slot = job.slot /\ job2.n = job.n
      /\ job2.size = job.size
  BY <1>1, <1>2 DEF WorkSet
<1>4. /\ inWorker' = [inWorker EXCEPT ![e] = job2] /\ store' = [store EXCEPT ![name] = PixelsOf(e)]
      /\ UNCHANGED <<life, served, shmOn, marked, shmSlot, shmPatchSlot, drawnSoFar, escapes, markers, lastRead, crowded, cutShort>>
      /\ life[e] \in {"up", "leaving"}
  BY <1>1 DEF WritesObject, WorkerStep, Works, storeHistory
<1>5. inWorker'[e] = job2 /\ \A d \in Homes \ {e} : inWorker'[d] = inWorker[d]
  BY <1>4, HomeParts DEF StoreInv, StoreTypes
<1>6. name \in ShmNames(e) /\ name \in StoreNames /\ name.of = e /\ name.kind = "whole" /\ name.slot = job.slot
  BY <1>1, <1>2, NameKinds, NameParts
<1>7. store'[name] = PixelsOf(e) /\ \A x \in StoreNames : x # name => store'[x] = store[x]
  BY <1>4, <1>6, HomeParts
<1>8. \A x \in StoreNames : x.of # e => store'[x] = store[x]
  BY <1>6, <1>7
<1>9. store'[FileOf(e)] = store[FileOf(e)] /\ store'[StagingOf(e)] = store[StagingOf(e)]
  BY <1>6, <1>7, NameKinds, NameParts
<1>11. Told(q, e, store', Live(e), crowded)
  <2>1. PICK at, at2, sure : at = store /\ at2 = store' /\ sure = Live(e)
    OBVIOUS
  <2>2. Told(q, e, at, sure, crowded) /\ q \in Seq(ToldSet) /\ sure \in BOOLEAN
    BY <1>1, <2>1, HomeParts
  <2>3. \A i \in 1 .. Len(q) : q[i].name \in ShmNames(e) \ crowded => at2[q[i].name] = at[q[i].name]
    BY <1>2, <1>7, <2>1, NameParts DEF Unnamed
  <2>4. Told(q, e, at2, sure, crowded)
    BY <1>9, <2>1, <2>2, <2>3, ToldKept
  <2> QED BY <2>1, <2>4
<1>12. PixelsOf(e)' = PixelsOf(e)
  BY <1>1, <1>3, <1>5 DEF PixelsOf
<1>13. JobHolds(e)'
  BY <1>1, <1>2, <1>3, <1>4, <1>5, <1>7, <1>12 DEF JobHolds
<1>14. MarksHold(e)'
  <2>1. e \in marked
    BY <1>1, <1>2, HomeParts DEF MarksHold
  <2> QED BY <2>1, <1>4, HomeParts DEF MarksHold
<1> QED BY <1>1, <1>4, <1>5, <1>8, <1>11, <1>13, <1>14, WorkerHolds

(* It fails to write one, or the file. *)
LEMMA FailsHold ==
  ASSUME FilesInv,
         NEW e \in Homes, ObjectFails(e) \/ FileFails(e)
  PROVE  PixelsAreItsOwn' /\ \A d \in Homes : HomeHolds(d)'
<1>1. PICK job, q : job = inWorker[e] /\ q = escapes[e]
  OBVIOUS
<1>2. PICK job2 : job2 = IF job.shm THEN [job EXCEPT !.shm = FALSE, !.failed = TRUE] ELSE [job EXCEPT !.stage = "error"]
  OBVIOUS
<1>3. /\ job \in WorkSet /\ job.stage = "handed" /\ job.n <= drawnSoFar[e] /\ FilesUpTo(q, e, job.n)
  BY <1>1, HomeParts DEF ObjectFails, FileFails, Works, JobHolds
<1>4. /\ job2 \in WorkSet /\ job2.stage = (IF job.shm THEN "handed" ELSE "error") /\ ~job2.shm /\ job2.n = job.n
  <2>1. job.shm \in BOOLEAN
    BY <1>3 DEF WorkSet
  <2>2. CASE job.shm
    <3>1. PICK with : with = [job EXCEPT !.shm = FALSE, !.failed = TRUE]
      OBVIOUS
    <3>2. job2 = with
      BY ONLY <1>2, <2>2, <3>1
    <3>3. /\ with \in WorkSet /\ with.stage = "handed" /\ ~with.shm /\ with.n = job.n
      BY <1>3, <3>1 DEF WorkSet
    <3> QED BY <1>3, <2>2, <3>2, <3>3
  <2>3. CASE ~job.shm
    <3>1. job2 = [job EXCEPT !.stage = "error"]
      BY <1>2, <2>3
    <3> QED BY <1>3, <2>3, <3>1 DEF WorkSet
  <2> QED BY <2>1, <2>2, <2>3
<1>5. /\ inWorker' = [inWorker EXCEPT ![e] = job2] /\ store' = store
      /\ UNCHANGED <<life, served, shmOn, marked, shmSlot, shmPatchSlot, drawnSoFar, escapes, markers, lastRead, crowded, cutShort>>
  BY <1>1, <1>2 DEF ObjectFails, FileFails, WorkerStep, storeHistory
<1>6. inWorker'[e] = job2 /\ \A d \in Homes \ {e} : inWorker'[d] = inWorker[d]
  BY <1>5, HomeParts DEF StoreInv, StoreTypes
<1>7. Told(q, e, store', Live(e), crowded)
  BY <1>1, <1>5, HomeParts
<1>8. JobHolds(e)'
  BY <1>1, <1>3, <1>4, <1>5, <1>6 DEF JobHolds
<1>9. MarksHold(e)'
  BY <1>4, <1>5, <1>6, HomeParts DEF MarksHold
<1> QED BY <1>1, <1>4, <1>5, <1>6, <1>7, <1>8, <1>9, WorkerHolds

(* It stages a file. *)
LEMMA StagesFileHolds ==
  ASSUME FilesInv,
         NEW e \in Homes, StagesFile(e)
  PROVE  PixelsAreItsOwn' /\ \A d \in Homes : HomeHolds(d)'
<1>1. PICK job, job2, q : job = inWorker[e] /\ job2 = [job EXCEPT !.stage = "staged"] /\ q = escapes[e]
  OBVIOUS
<1>2. /\ job \in WorkSet /\ job.stage = "handed" /\ ~job.shm /\ job.n <= drawnSoFar[e] /\ FilesUpTo(q, e, job.n)
  BY <1>1, HomeParts DEF StagesFile, Works, JobHolds
<1>3. job2 \in WorkSet /\ job2.stage = "staged" /\ ~job2.shm /\ job2.n = job.n /\ job2.size = job.size
  BY <1>1, <1>2 DEF WorkSet
<1>4. /\ inWorker' = [inWorker EXCEPT ![e] = job2] /\ store' = [store EXCEPT ![StagingOf(e)] = PixelsOf(e)]
      /\ UNCHANGED <<life, served, shmOn, marked, shmSlot, shmPatchSlot, drawnSoFar, escapes, markers, lastRead, crowded, cutShort>>
  BY <1>1 DEF StagesFile, WorkerStep, storeHistory
<1>5. inWorker'[e] = job2 /\ \A d \in Homes \ {e} : inWorker'[d] = inWorker[d]
  BY <1>4, HomeParts DEF StoreInv, StoreTypes
<1>6. store'[StagingOf(e)] = PixelsOf(e) /\ \A x \in StoreNames : x # StagingOf(e) => store'[x] = store[x]
  BY <1>4, HomeParts, NameParts
<1>7. /\ \A x \in StoreNames : x.of # e => store'[x] = store[x]
      /\ store'[FileOf(e)] = store[FileOf(e)] /\ \A x \in ShmNames(e) : store'[x] = store[x]
  BY <1>6, NameParts, NameKinds
<1>8. Told(q, e, store', Live(e), crowded)
  <2>1. PICK at, at2, sure : at = store /\ at2 = store' /\ sure = Live(e)
    OBVIOUS
  <2>2. Told(q, e, at, sure, crowded) /\ q \in Seq(ToldSet) /\ sure \in BOOLEAN
    BY <1>1, <2>1, HomeParts
  <2>3. Told(q, e, at2, sure, crowded)
    BY <1>7, <2>1, <2>2, ToldKept
  <2> QED BY <2>1, <2>3
<1>9. PixelsOf(e)' = PixelsOf(e)
  BY <1>1, <1>3, <1>5 DEF PixelsOf
<1>10. JobHolds(e)'
  BY <1>1, <1>2, <1>3, <1>4, <1>5, <1>6, <1>9 DEF JobHolds
<1>11. MarksHold(e)'
  <2>1. \A x \in ShmNames(e) : store'[x] = store[x]
    BY <1>7
  <2>2. ShmNames(e)' = ShmNames(e)
    BY DEF ShmNames, WholeName, PatchName
  <2> QED BY <1>3, <1>4, <1>5, <2>1, <2>2, HomeParts DEF MarksHold
<1> QED BY <1>1, <1>3, <1>4, <1>5, <1>7, <1>8, <1>10, <1>11, WorkerHolds

(* It renames it into place: the pixels are younger than those any escape of the file was written for. *)
LEMMA RenamesFileHolds ==
  ASSUME FilesInv,
         NEW e \in Homes, RenamesFile(e)
  PROVE  PixelsAreItsOwn' /\ \A d \in Homes : HomeHolds(d)'
<1>1. PICK job, q, v : job = inWorker[e] /\ q = escapes[e] /\ v = store[StagingOf(e)]
  OBVIOUS
<1>2. PICK job2 : job2 = [job EXCEPT !.stage = IF v = NoPixels THEN "error" ELSE "file"]
  OBVIOUS
<1>3. /\ job \in WorkSet /\ job.stage = "staged" /\ ~job.shm /\ job.n <= drawnSoFar[e] /\ FilesUpTo(q, e, job.n)
      /\ v \in {NoPixels, PixelsOf(e)} /\ (Live(e) => v # NoPixels)
  <2>1. Live(e) => v # NoPixels
    BY <1>1, HomeParts DEF RenamesFile, Works, StoreInv, StagedIsThere, Live
  <2> QED BY <1>1, <2>1, HomeParts DEF RenamesFile, Works, JobHolds
<1>4. /\ job2 \in WorkSet /\ job2.stage = (IF v = NoPixels THEN "error" ELSE "file") /\ ~job2.shm
      /\ job2.n = job.n /\ job2.size = job.size
  BY <1>2, <1>3 DEF WorkSet
<1>5. /\ inWorker' = [inWorker EXCEPT ![e] = job2]
      /\ store' = [store EXCEPT ![FileOf(e)] = v, ![StagingOf(e)] = NoPixels]
      /\ UNCHANGED <<life, served, shmOn, marked, shmSlot, shmPatchSlot, drawnSoFar, escapes, markers, lastRead, crowded, cutShort>>
  BY <1>1, <1>2 DEF RenamesFile, WorkerStep, storeHistory
<1>6. inWorker'[e] = job2 /\ \A d \in Homes \ {e} : inWorker'[d] = inWorker[d]
  BY <1>5, HomeParts DEF StoreInv, StoreTypes
<1>7. /\ store'[FileOf(e)] = v /\ FileOf(e) # StagingOf(e)
      /\ \A x \in StoreNames : x \notin {FileOf(e), StagingOf(e)} => store'[x] = store[x]
  BY <1>5, HomeParts, NameParts
<1>8. \A x \in StoreNames : x.of # e => store'[x] = store[x]
  BY <1>7, NameParts
<1>9. \A x \in ShmNames(e) : store'[x] = store[x]
  BY <1>7, NameParts, NameKinds
<1>10. v # NoPixels => v = PixelsOf(e) /\ v.n = job.n
  BY <1>1, <1>3 DEF PixelsOf
<1>11. Told(q, e, store', Live(e), crowded)
  <2>1. PICK at, at2, sure : at = store /\ at2 = store' /\ sure = Live(e)
    OBVIOUS
  <2>2. Told(q, e, at, sure, crowded)
    BY <1>1, <2>1, HomeParts
  <2>3. \A x \in ShmNames(e) : at2[x] = at[x]
    BY <1>9, <2>1
  <2>4. at2[FileOf(e)] = v /\ (sure => v # NoPixels)
    BY <1>3, <1>7, <2>1
  <2>5. \A i \in 1 .. Len(q) : q[i].name = FileOf(e) => q[i].pixels.n <= job.n
    BY <1>3 DEF FilesUpTo
  <2>6. ASSUME NEW i \in 1 .. Len(q), q[i].name = FileOf(e), v # NoPixels
        PROVE  v.n >= q[i].pixels.n
    <3>1. q[i] \in ToldSet
      BY <1>1, HomeParts
    <3>2. q[i].pixels.n \in Nat /\ job.n \in Nat
      BY <1>3, <3>1 DEF ToldSet, PixelSet, WorkSet
    <3> QED BY <1>10, <2>5, <2>6, <3>2
  <2>7. Told(q, e, at2, sure, crowded)
    BY <2>2, <2>3, <2>4, <2>6, NameKinds DEF Told, ToldOne
  <2> QED BY <2>1, <2>7
<1>12. JobHolds(e)'
  <2>1. job.n \in Nat
    BY <1>3 DEF WorkSet
  <2>2. v # NoPixels => v.n >= job2.n
    BY <1>4, <1>10, <2>1
  <2> QED BY <1>1, <1>3, <1>4, <1>5, <1>6, <1>7, <2>2 DEF JobHolds
<1>13. MarksHold(e)'
  <2>1. ShmNames(e)' = ShmNames(e)
    BY DEF ShmNames, WholeName, PatchName
  <2> QED BY <1>4, <1>5, <1>6, <1>9, <2>1, HomeParts DEF MarksHold
<1> QED BY <1>1, <1>4, <1>5, <1>6, <1>8, <1>11, <1>12, <1>13, WorkerHolds

LEMMA PaneMarked ==
  ASSUME NEW e \in Homes, MarksHold(e), life[e] = "up", MarkShmPane(e)
  PROVE  /\ e \in marked' /\ e \in markers'
         /\ \A d \in Homes \ {e} : (d \in marked' <=> d \in marked) /\ (d \in markers' <=> d \in markers)
BY DEF MarksHold, MarkShmPane

(* The worker is handed a frame, with the next slot of the ring. *)
LEMMA HandsToWorkerHolds ==
  ASSUME FilesInv, NEW e \in Homes, HandsToWorker(e)
  PROVE  PixelsAreItsOwn' /\ \A d \in Homes : HomeHolds(d)'
<1>1. PICK job, q, n, next : job = inWorker[e] /\ q = escapes[e] /\ n = drawnSoFar[e] /\ next = shmSlot[e]
  OBVIOUS
<1>2. PICK on \in BOOLEAN : on <=> e \in shmOn
  OBVIOUS
<1>3. PICK job2 : job2 = [n |-> n + 1, size |-> paneSize[e], shm |-> on, slot |-> next, stage |-> "handed",
                          failed |-> job.failed]
  OBVIOUS
<1>4. /\ q \in Seq(ToldSet) /\ job \in WorkSet /\ n \in Nat /\ next \in Nat /\ Len(q) \in Nat /\ Len(q) < Lag
      /\ job.stage = "none" /\ ~job.shm /\ life[e] = "up" /\ e \in served
  <2>1. CanWrite(e) /\ job.stage = "none"
    BY <1>1 DEF HandsToWorker
  <2>2. q \in Seq(ToldSet) /\ job \in WorkSet /\ n \in Nat /\ next \in Nat
    BY <1>1, HomeParts DEF StoreInv, StoreTypes
  <2>3. ~job.shm
    BY <1>1, <2>1, HomeParts DEF JobHolds
  <2>4. Len(q) \in Nat
    BY <2>2
  <2> QED BY <1>1, <2>1, <2>2, <2>3, <2>4 DEF CanWrite
<1>5. /\ inWorker' = [inWorker EXCEPT ![e] = job2] /\ drawnSoFar' = [drawnSoFar EXCEPT ![e] = n + 1]
      /\ UNCHANGED <<life, served, shmPatchSlot, escapes, store, lastRead, cutShort>>
  BY <1>1, <1>2, <1>3 DEF HandsToWorker, NewPixels
<1>6. /\ inWorker'[e] = job2 /\ drawnSoFar'[e] = n + 1
      /\ \A d \in Homes \ {e} : inWorker'[d] = inWorker[d] /\ drawnSoFar'[d] = drawnSoFar[d]
  BY <1>5, HomeParts DEF StoreInv, StoreTypes
<1>7. on => MarkShmPane(e) /\ shmSlot' = [shmSlot EXCEPT ![e] = (next + 1) % WholeRing]
  BY <1>1, <1>2 DEF HandsToWorker
<1>8. ~on => UNCHANGED <<marked, markers, shmSlot>>
  BY <1>2 DEF HandsToWorker
<1>10. next \in 0 .. WholeRing - 1
  BY <1>1, HomeParts DEF HomeHolds
<1>11. /\ shmSlot'[e] \in 0 .. WholeRing - 1 /\ \A d \in Homes \ {e} : shmSlot'[d] = shmSlot[d]
  <2>1. shmSlot \in [Homes -> Nat]
    BY HomeParts DEF StoreInv, StoreTypes
  <2>2. (next + 1) % WholeRing \in 0 .. WholeRing - 1
    BY <1>10, ComesRound, StoreAssumption
  <2> QED BY <1>1, <1>7, <1>8, <1>10, <2>1, <2>2
<1>9. crowded \subseteq crowded' /\ (on => WholeName(e, next) \in crowded' \/ Unnamed(q, WholeName(e, next)))
  <2>1. CASE on
    <3>1. HandsOut(e, WholeName(e, next))
      BY <1>1, <1>2, <2>1 DEF HandsToWorker
    <3>2. DOMAIN q = 1 .. Len(q)
      BY <1>4
    <3> QED BY <1>1, <3>1, <3>2 DEF HandsOut, Unnamed
  <2>2. CASE ~on
    BY <1>2, <2>2 DEF HandsToWorker
  <2> QED BY <2>1, <2>2
<1>12. /\ \A d \in Homes \ {e} : (d \in marked' <=> d \in marked) /\ (d \in markers' <=> d \in markers)
       /\ on => e \in marked' /\ e \in markers'
  BY <1>4, <1>7, <1>8, HomeParts, PaneMarked
<1>13. \A d \in Homes \ {e} : HomeHolds(d)'
  BY <1>5, <1>6, <1>9, <1>11, <1>12, OthersStay
<1>14. PixelsAreItsOwn'
  BY <1>5, <1>9 DEF FilesInv, PixelsAreItsOwn
<1>15. /\ job2.stage = "handed" /\ job2.n = n + 1 /\ job2.shm = on /\ job2.slot = next
  BY <1>3
<1>16. FilesUpTo(q, e, n + 1)
  BY <1>1, <1>4, HomeParts, FilesUpToMore
<1>20. JobHolds(e)'
  <2>1. job2.n <= drawnSoFar'[e]
    BY <1>4, <1>6, <1>15
  <2>2. WholeName(e, next)' = WholeName(e, next)
    BY DEF WholeName
  <2> QED BY <1>1, <1>5, <1>6, <1>9, <1>10, <1>15, <1>16, <2>1, <2>2 DEF JobHolds, WholeName
<1>21. MarksHold(e)'
  <2>1. ShmNames(e)' = ShmNames(e)
    BY DEF ShmNames, WholeName, PatchName
  <2> QED BY <1>4, <1>5, <1>6, <1>8, <1>12, <1>15, <2>1, HomeParts DEF MarksHold
<1>22. HomeHolds(e)'
  <2>1. /\ Told(escapes[e], e, store, Live(e), crowded) /\ escapes[e] \in Seq(ToldSet) /\ Live(e) \in BOOLEAN
        /\ SaidOnce(escapes[e], e, crowded) /\ shmPatchSlot[e] \in 0 .. PatchRing - 1
    BY HomeParts DEF HomeHolds
  <2>2. PICK at, sure, again, again2 : at = store /\ sure = Live(e) /\ again = crowded /\ again2 = crowded'
    OBVIOUS
  <2>3. Told(q, e, at, sure, again2)
    <3>1. Told(q, e, at, sure, again) /\ again \subseteq again2 /\ q \in Seq(ToldSet) /\ sure \in BOOLEAN
      BY <1>1, <1>9, <2>1, <2>2
    <3> QED BY <3>1, ToldKept
  <2>4. Told(escapes'[e], e, store', Live(e)', crowded')
    BY <1>1, <1>5, <2>2, <2>3 DEF Live
  <2>5. SaidOnce(escapes'[e], e, crowded')
    BY <1>5, <1>9, <2>1 DEF SaidOnce
  <2> QED BY <1>1, <1>4, <1>5, <1>6, <1>11, <1>16, <1>20, <1>21, <2>1, <2>4, <2>5 DEF HomeHolds
<1> QED BY <1>13, <1>14, <1>22

(* The worker's answer is told of. *)
LEMMA WorkerAnswersHolds ==
  ASSUME FilesInv,
         NEW e \in Homes, WorkerAnswers(e)
  PROVE  PixelsAreItsOwn' /\ \A d \in Homes : HomeHolds(d)'
<1>1. PICK job, q : job = inWorker[e] /\ q = escapes[e]
  OBVIOUS
<1>2. PICK job2 : job2 = [NoWork EXCEPT !.failed = job.failed /\ job.stage = "error"]
  OBVIOUS
<1>3. /\ q \in Seq(ToldSet) /\ job \in WorkSet /\ job.stage \in {"object", "file", "error"} /\ life[e] = "up"
      /\ job.n <= drawnSoFar[e] /\ FilesUpTo(q, e, job.n)
  BY <1>1, HomeParts DEF WorkerAnswers, JobHolds
<1>4. job2 \in WorkSet /\ job2.stage = "none" /\ ~job2.shm
  <2>1. (job.failed /\ job.stage = "error") \in BOOLEAN
    OBVIOUS
  <2> QED BY <1>2, <2>1 DEF NoWork, WorkSet
<1>5. /\ inWorker' = [inWorker EXCEPT ![e] = job2]
      /\ UNCHANGED <<life, served, marked, shmSlot, shmPatchSlot, drawnSoFar, store, markers, lastRead, crowded, cutShort>>
  BY <1>1, <1>2 DEF WorkerAnswers, storeHistory
<1>6. inWorker'[e] = job2 /\ \A d \in Homes \ {e} : inWorker'[d] = inWorker[d]
  BY <1>5, HomeParts DEF StoreInv, StoreTypes
<1>8. JobHolds(e)'
  BY <1>4, <1>6 DEF JobHolds
<1>9. MarksHold(e)'
  <2>1. ShmNames(e)' = ShmNames(e)
    BY DEF ShmNames, WholeName, PatchName
  <2> QED BY <1>4, <1>5, <1>6, <2>1, HomeParts DEF MarksHold
<1>10. ASSUME UNCHANGED escapes
       PROVE  PixelsAreItsOwn' /\ \A d \in Homes : HomeHolds(d)'
  <2>1. \A d \in Homes \ {e} : HomeHolds(d)'
    BY <1>5, <1>6, <1>10, OthersStay
  <2>2. PixelsAreItsOwn'
    BY <1>5 DEF FilesInv, PixelsAreItsOwn
  <2>4. HomeHolds(e)'
    <3>1. /\ Told(escapes[e], e, store, Live(e), crowded) /\ FilesUpTo(escapes[e], e, drawnSoFar[e])
          /\ SaidOnce(escapes[e], e, crowded) /\ shmSlot[e] \in 0 .. WholeRing - 1
          /\ shmPatchSlot[e] \in 0 .. PatchRing - 1
      BY HomeParts DEF HomeHolds
    <3>2. Live(e)' = Live(e)
      BY <1>5 DEF Live
    <3> QED BY <1>3, <1>5, <1>8, <1>9, <1>10, <3>1, <3>2 DEF HomeHolds
  <2> QED BY <2>1, <2>2, <2>4
<1>12. ASSUME NEW x \in ToldSet, escapes' = [escapes EXCEPT ![e] = Append(q, x)], e \in served, ToldOne(x, e, store, TRUE, crowded),
              x.name = FileOf(e) => x.pixels.n <= job.n,
              x.name \in ShmNames(e) => job.shm /\ x.name = WholeName(e, job.slot)
       PROVE  PixelsAreItsOwn' /\ \A d \in Homes : HomeHolds(d)'
  <2>1. escapes'[e] = Append(q, x) /\ \A d \in Homes \ {e} : escapes'[d] = escapes[d]
    BY <1>12, HomeParts DEF StoreInv, StoreTypes
  <2>2. \A d \in Homes \ {e} : HomeHolds(d)'
    BY <1>5, <1>6, <2>1, OthersStay
  <2>3. PixelsAreItsOwn'
    BY <1>5 DEF FilesInv, PixelsAreItsOwn
  <2>4. Live(e) /\ Live(e)' /\ Live(e) = TRUE /\ Live(e)' = TRUE
    BY <1>3, <1>5, <1>12 DEF Live
  <2>5. SaidOnce(Append(q, x), e, crowded)
    <3>1. x.name \in ShmNames(e) \ crowded => Unnamed(q, x.name)
      BY <1>1, <1>12, HomeParts DEF JobHolds
    <3>2. SaidOnce(q, e, crowded)
      BY <1>1, HomeParts
    <3>3. PICK again : again = crowded
      OBVIOUS
    <3> QED BY <1>3, <3>1, <3>2, <3>3, OnceSends
  <2>6. Told(Append(q, x), e, store, TRUE, crowded)
    <3>1. Told(q, e, store, TRUE, crowded)
      BY <1>1, <2>4, HomeParts
    <3> QED BY <1>3, <1>12, <3>1, ToldSends
  <2>7. FilesUpTo(Append(q, x), e, drawnSoFar[e])
    <3>1. job.n \in Nat /\ drawnSoFar[e] \in Nat
      BY <1>3, HomeParts DEF WorkSet
    <3>2. job.n <= drawnSoFar[e] /\ (x.name = FileOf(e) => x.pixels.n <= drawnSoFar[e])
      <4>1. x.pixels.n \in Nat
        BY DEF ToldSet, PixelSet
      <4> QED BY <1>3, <1>12, <3>1, <4>1
    <3> QED BY <1>3, <3>1, <3>2, FilesSend
  <2>8. HomeHolds(e)'
    BY <1>3, <1>5, <1>8, <1>9, <2>1, <2>4, <2>5, <2>6, <2>7, HomeParts DEF HomeHolds
  <2> QED BY <2>2, <2>3, <2>8
<1>13. PICK x : x = [name |-> IF job.size # paneSize[e] THEN Inline
                              ELSE IF job.stage = "object" THEN WholeName(e, job.slot) ELSE FileOf(e),
                     pixels |-> IF job.size # paneSize[e] THEN NoPixels ELSE PixelsOf(e)]
  OBVIOUS
<1>14. CASE e \notin served
  BY <1>10, <1>14 DEF WorkerAnswers
<1>15. CASE e \in served /\ UNCHANGED escapes /\ job.stage = "error"
  BY <1>10, <1>15
<1>16. CASE e \in served /\ (job.size # paneSize[e] \/ job.stage # "error")
  <2>1. escapes' = [escapes EXCEPT ![e] = Append(q, x)]
    <3>1. CASE job.size # paneSize[e]
      BY <1>1, <1>13, <1>16, <3>1 DEF WorkerAnswers, Tells
    <3>2. CASE job.size = paneSize[e]
      BY <1>1, <1>13, <1>16, <3>2 DEF WorkerAnswers, Tells
    <3> QED BY <3>1, <3>2
  <2>2. CASE job.size # paneSize[e]
    <3>1. x.name = Inline /\ x.pixels = NoPixels
      BY <1>13, <2>2
    <3>2. x \in ToldSet
      BY <1>13, <2>2 DEF ToldSet, Inline, NoPixels, PixelSet
    <3>3. x.name \notin ShmNames(e) /\ ToldOne(x, e, store, TRUE, crowded) /\ x.name # FileOf(e)
      BY <3>1, NameKinds DEF ToldOne
    <3> QED BY <1>12, <1>16, <2>1, <3>2, <3>3
  <2>3. CASE job.size = paneSize[e] /\ job.stage = "object"
    <3>1. x = [name |-> WholeName(e, job.slot), pixels |-> PixelsOf(e)]
      BY <1>13, <2>3
    <3>2. job.shm /\ job.slot \in 0 .. WholeRing - 1 /\ (WholeName(e, job.slot) \in crowded \/ store[WholeName(e, job.slot)] = PixelsOf(e))
      BY <1>1, <1>3, <1>16, <2>3, HomeParts DEF JobHolds, Live
    <3>3. job.slot \in Nat /\ PixelsOf(e) \in PixelSet /\ PixelsOf(e) # NoPixels
      BY <1>1, <2>3, <3>2, HomeParts, StoreAssumption
    <3>4. x \in ToldSet
      BY <3>1, <3>3 DEF ToldSet, WholeName
    <3>5. /\ x.name \in ShmNames(e) /\ x.name = WholeName(e, job.slot) /\ x.name # FileOf(e)
      BY <3>1, <3>2, NameKinds
    <3>6. ToldOne(x, e, store, TRUE, crowded)
      BY <3>1, <3>2, <3>3, <3>5 DEF ToldOne
    <3> QED BY <1>12, <1>16, <2>1, <3>2, <3>4, <3>5, <3>6
  <2>4. CASE job.size = paneSize[e] /\ job.stage = "file"
    <3>1. x = [name |-> FileOf(e), pixels |-> PixelsOf(e)]
      BY <1>13, <2>4
    <3>2. store[FileOf(e)] # NoPixels /\ store[FileOf(e)].n >= job.n
      BY <1>1, <1>3, <1>16, <2>4, HomeParts DEF JobHolds, Live
    <3>3. PixelsOf(e) \in PixelSet /\ PixelsOf(e).n = job.n /\ job.n \in Nat
      BY <1>1, <1>3, HomeParts DEF PixelsOf, WorkSet
    <3>4. x \in ToldSet
      BY <3>1, <3>3 DEF ToldSet, FileOf
    <3>5. x.name = FileOf(e) /\ x.pixels.n = job.n /\ x.name \notin ShmNames(e)
      BY <3>1, <3>3, NameKinds
    <3>6. ToldOne(x, e, store, TRUE, crowded)
      BY <3>2, <3>5 DEF ToldOne
    <3>7. x.pixels.n <= job.n
      BY <3>3, <3>5
    <3> QED BY <1>12, <1>16, <2>1, <3>4, <3>5, <3>6, <3>7
  <2> QED BY <1>3, <1>16, <2>2, <2>3, <2>4
<1>17. e \in served /\ job.size = paneSize[e] /\ job.stage = "error" => UNCHANGED escapes
  BY <1>1 DEF WorkerAnswers
<1> QED BY <1>14, <1>15, <1>16, <1>17

(* A patch takes the next slot of its ring, which no escape names any more, and is told of at once. *)
LEMMA SendsPatchHolds ==
  ASSUME FilesInv, NEW e \in Homes, NEW works \in BOOLEAN, SendsPatch(e, works)
  PROVE  PixelsAreItsOwn' /\ \A d \in Homes : HomeHolds(d)'
<1>1. PICK q, n, next, ring : q = escapes[e] /\ n = drawnSoFar[e] /\ next = shmPatchSlot[e] /\ ring = PatchRing
  OBVIOUS
<1>2. PICK name, pixels : name = PatchName(e, next) /\ pixels = NewPixels(e)
  OBVIOUS
<1>3. PICK x : x = [name |-> IF works THEN name ELSE Inline, pixels |-> IF works THEN pixels ELSE NoPixels]
  OBVIOUS
<1>4. CanWrite(e) /\ MarkShmPane(e) /\ NextPatchSlot(e)
      /\ drawnSoFar' = [drawnSoFar EXCEPT ![e] = n + 1] /\ UNCHANGED <<life, served, shmSlot, inWorker, lastRead, cutShort>>
  BY <1>1 DEF SendsPatch
<1>5. store' = IF works THEN [store EXCEPT ![name] = pixels] ELSE store
  BY <1>1, <1>2 DEF SendsPatch
<1>6. escapes' = [escapes EXCEPT ![e] = Append(q, x)]
  <2>1. CASE works
    BY <1>1, <1>2, <1>3, <2>1 DEF SendsPatch, Tells
  <2>2. CASE ~works
    BY <1>1, <1>2, <1>3, <2>2 DEF SendsPatch, Tells
  <2> QED BY <2>1, <2>2
<1>8. /\ q \in Seq(ToldSet) /\ n \in Nat /\ next \in Nat /\ Len(q) \in Nat /\ Len(q) < Lag /\ life[e] = "up"
      /\ e \in served /\ Live(e) = TRUE
  <2>1. q \in Seq(ToldSet) /\ n \in Nat /\ next \in Nat
    BY <1>1, HomeParts DEF StoreInv, StoreTypes
  <2>2. Len(q) \in Nat
    BY <2>1
  <2> QED BY <1>1, <1>4, <2>1, <2>2 DEF CanWrite, Live
<1>9. /\ next \in 0 .. ring - 1 /\ ring \in Nat \ {0}
  BY <1>1, HomeParts, StoreAssumption DEF HomeHolds
<1>11. /\ shmPatchSlot'[e] \in 0 .. PatchRing - 1 /\ \A d \in Homes \ {e} : shmPatchSlot'[d] = shmPatchSlot[d]
  <2>1. shmPatchSlot \in [Homes -> Nat]
    BY HomeParts DEF StoreInv, StoreTypes
  <2>2. (next + 1) % ring \in 0 .. ring - 1
    BY <1>9, ComesRound
  <2>3. shmPatchSlot' = [shmPatchSlot EXCEPT ![e] = (next + 1) % ring]
    BY <1>1, <1>4 DEF NextPatchSlot
  <2> QED BY <1>1, <2>1, <2>2, <2>3
<1>10. crowded \subseteq crowded' /\ (name \in crowded' \/ Unnamed(q, name))
  <2>1. HandsOut(e, name)
    BY <1>1, <1>2 DEF SendsPatch
  <2>2. DOMAIN q = 1 .. Len(q)
    BY <1>8
  <2> QED BY <1>1, <2>1, <2>2 DEF HandsOut, Unnamed
<1>12. /\ escapes'[e] = Append(q, x) /\ drawnSoFar'[e] = n + 1
       /\ \A d \in Homes \ {e} : escapes'[d] = escapes[d] /\ drawnSoFar'[d] = drawnSoFar[d]
  BY <1>4, <1>6, HomeParts DEF StoreInv, StoreTypes
<1>13. /\ \A d \in Homes \ {e} : (d \in marked' <=> d \in marked) /\ (d \in markers' <=> d \in markers)
       /\ e \in marked' /\ e \in markers'
  BY <1>4, <1>8, HomeParts, PaneMarked
<1>14. /\ name \in ShmNames(e) /\ name \in StoreNames /\ name.of = e /\ name.kind = "patch" /\ name.slot = next
       /\ name # FileOf(e) /\ name # StagingOf(e) /\ name # Inline
       /\ \A k \in 0 .. WholeRing - 1 : WholeName(e, k) # name
  BY <1>1, <1>2, <1>9, NameKinds, NameParts
<1>15. /\ \A y \in StoreNames : y # name => store'[y] = store[y]
       /\ works => store'[name] = pixels
       /\ ~works => store' = store
  BY <1>5, <1>14, HomeParts
<1>16. \A y \in StoreNames : y.of # e => store'[y] = store[y]
  BY <1>14, <1>15
<1>17. \A d \in Homes \ {e} : HomeHolds(d)'
  BY <1>4, <1>10, <1>11, <1>12, <1>13, <1>16, OthersStay
<1>18. PixelsAreItsOwn'
  BY <1>4, <1>10 DEF FilesInv, PixelsAreItsOwn
<1>19. /\ pixels \in PixelSet /\ pixels # NoPixels /\ pixels.n = n + 1
  <2>1. paneSize[e] \in {0, 1}
    BY HomeParts DEF StoreInv, StoreTypes
  <2>2. pixels = [n |-> n + 1, size |-> paneSize[e]]
    BY <1>1, <1>2 DEF NewPixels
  <2>3. n + 1 \in Nat /\ n + 1 # 0
    BY <1>8
  <2> QED BY <2>1, <2>2, <2>3 DEF PixelSet, NoPixels
<1>20. /\ x \in ToldSet /\ x.name # FileOf(e)
       /\ works => x.name = name /\ x.pixels = pixels
       /\ ~works => x.name = Inline /\ x.name \notin ShmNames(e)
  <2>1. CASE works
    <3>1. x = [name |-> name, pixels |-> pixels]
      BY <1>3, <2>1
    <3>2. name = [of |-> e, kind |-> "patch", slot |-> next]
      BY <1>2 DEF PatchName
    <3> QED BY <1>8, <1>14, <1>19, <2>1, <3>1, <3>2 DEF ToldSet
  <2>2. CASE ~works
    <3>1. x = [name |-> Inline, pixels |-> NoPixels]
      BY <1>3, <2>2
    <3> QED BY <2>2, <3>1, NameKinds DEF ToldSet, Inline, NoPixels, PixelSet
  <2> QED BY <2>1, <2>2
<1>25. SaidOnce(Append(q, x), e, crowded')
  <2>1. x.name \in ShmNames(e) \ crowded' => Unnamed(q, x.name)
    BY <1>10, <1>20
  <2>2. PICK again, again2 : again = crowded /\ again2 = crowded'
    OBVIOUS
  <2>3. SaidOnce(q, e, again) /\ again \subseteq again2
    BY <1>1, <1>10, <2>2, HomeParts
  <2> QED BY <1>8, <1>20, <2>1, <2>2, <2>3, OnceSends
<1>26. Told(Append(q, x), e, store', TRUE, crowded')
  <2>1. PICK at, at2, sure, again, again2 : at = store /\ at2 = store' /\ sure = TRUE /\ again = crowded /\ again2 = crowded'
    OBVIOUS
  <2>2. Told(q, e, at, sure, again) /\ again \subseteq again2
    BY <1>1, <1>8, <1>10, <2>1, HomeParts
  <2>3. \A i \in 1 .. Len(q) : q[i].name \in ShmNames(e) \ again2 => at2[q[i].name] = at[q[i].name]
    BY <1>10, <1>15, <2>1, NameParts DEF Unnamed
  <2>4. at2[FileOf(e)] = at[FileOf(e)]
    BY <1>14, <1>15, <2>1, NameParts
  <2>5. Told(q, e, at2, sure, again2)
    BY <1>8, <2>1, <2>2, <2>3, <2>4, ToldKept
  <2>6. ToldOne(x, e, at2, sure, again2)
    BY <1>14, <1>15, <1>19, <1>20, <2>1, NameKinds DEF ToldOne
  <2>7. Told(Append(q, x), e, at2, sure, again2)
    BY <1>8, <1>20, <2>1, <2>5, <2>6, ToldSends
  <2> QED BY <2>1, <2>7
<1>27. FilesUpTo(Append(q, x), e, n + 1)
  <2>1. FilesUpTo(q, e, n) /\ n + 1 \in Nat /\ n <= n + 1
    BY <1>1, <1>8, HomeParts
  <2> QED BY <1>8, <1>20, <2>1, FilesSend
<1>28. JobHolds(e)'
  <2>1. PICK job : job = inWorker[e]
    OBVIOUS
  <2>2. job \in WorkSet /\ JobHolds(e) /\ inWorker'[e] = job
    BY <1>4, <2>1, HomeParts
  <2>3. job.n \in Nat
    BY <2>2 DEF WorkSet
  <2>4. job.stage # "none" => job.n <= n + 1 /\ FilesUpTo(Append(q, x), e, job.n)
    <3>1. job.stage # "none" => job.n <= n /\ FilesUpTo(q, e, job.n)
      BY <1>1, <2>1, <2>2 DEF JobHolds
    <3>2. job.n <= job.n
      BY <2>3
    <3> QED BY <1>8, <1>20, <2>3, <3>1, <3>2, FilesSend
  <2>5. store'[FileOf(e)] = store[FileOf(e)] /\ store'[StagingOf(e)] = store[StagingOf(e)]
    BY <1>14, <1>15, NameParts
  <2>6. job.shm => store'[WholeName(e, job.slot)] = store[WholeName(e, job.slot)]
    BY <1>14, <1>15, <2>1, <2>2, NameKinds, NameParts DEF JobHolds
  <2>7. Live(e)' = Live(e) /\ PixelsOf(e)' = PixelsOf(e) /\ WholeName(e, job.slot)' = WholeName(e, job.slot)
    BY <1>4 DEF Live, PixelsOf, WholeName
  <2>8. job.shm => WholeName(e, job.slot) \in crowded' \/ Unnamed(Append(q, x), WholeName(e, job.slot))
    <3> SUFFICES ASSUME job.shm, WholeName(e, job.slot) \notin crowded
                 PROVE  Unnamed(Append(q, x), WholeName(e, job.slot))
      BY <1>10
    <3>1. job.slot \in 0 .. WholeRing - 1 /\ Unnamed(q, WholeName(e, job.slot))
      BY <1>1, <2>1, <2>2 DEF JobHolds
    <3>2. x.name # WholeName(e, job.slot)
      BY <1>14, <1>20, <3>1, NameKinds
    <3> QED BY <1>8, <1>20, <3>1, <3>2, UnnamedSends
  <2> QED BY <1>4, <1>10, <1>12, <2>1, <2>2, <2>4, <2>5, <2>6, <2>7, <2>8 DEF JobHolds, WholeName
<1>29. MarksHold(e)'
  BY <1>4, <1>8, <1>13 DEF MarksHold
<1>30. HomeHolds(e)'
  BY <1>4, <1>8, <1>11, <1>12, <1>25, <1>26, <1>27, <1>28, <1>29, HomeParts DEF HomeHolds, Live
<1> QED BY <1>17, <1>18, <1>30

(* The terminal reads an escape, or it is lost: no other escape, and nothing the worker has, is of the *)
(* object that the terminal takes away.                                                                *)
LEMMA EscapeGoesHolds ==
  ASSUME FilesInv,
         NEW e \in Homes, TerminalReads(e) \/ EscapeIsDropped(e)
  PROVE  PixelsAreItsOwn' /\ \A d \in Homes : HomeHolds(d)'
<1>1. PICK q, head, job : q = escapes[e] /\ head = Head(q) /\ job = inWorker[e]
  OBVIOUS
<1>2. /\ q \in Seq(ToldSet) /\ q # <<>> /\ job \in WorkSet /\ escapes' = [escapes EXCEPT ![e] = Tail(q)]
      /\ UNCHANGED <<life, served, marked, shmSlot, shmPatchSlot, drawnSoFar, inWorker, markers, crowded, cutShort>>
  <2>1. q \in Seq(ToldSet) /\ job \in WorkSet
    BY <1>1, HomeParts
  <2> QED BY <1>1, <2>1 DEF TerminalReads, EscapeIsDropped, storeHistory
<1>3. escapes'[e] = Tail(q) /\ \A d \in Homes \ {e} : escapes'[d] = escapes[d]
  BY <1>2, HomeParts DEF StoreInv, StoreTypes
<1>4. /\ ToldOne(head, e, store, Live(e), crowded) /\ Told(Tail(q), e, store, Live(e), crowded) /\ head.name \in {Inline, FileOf(e)} \cup ShmNames(e)
      /\ \A n : FilesUpTo(q, e, n) => FilesUpTo(Tail(q), e, n)
  <2>1. Told(q, e, store, Live(e), crowded)
    BY <1>1, HomeParts
  <2>2. ToldOne(head, e, store, Live(e), crowded) /\ Told(Tail(q), e, store, Live(e), crowded)
    BY <1>1, <1>2, <2>1, ToldReads
  <2>3. \A n : FilesUpTo(q, e, n) => FilesUpTo(Tail(q), e, n)
    BY <1>2, ToldReads
  <2> QED BY <2>2, <2>3 DEF ToldOne
<1>5. /\ head.name \in ShmNames(e) => \A x \in StoreNames : x # head.name => store'[x] = store[x]
      /\ head.name \in ShmNames(e) => store'[head.name] \in {store[head.name], NoPixels}
      /\ head.name \notin ShmNames(e) => store' = store
  <2>1. CASE store' = store
    BY <2>1
  <2>2. CASE store' = Without({head.name}) /\ head.name.kind # "file" /\ head.name # Inline
    <3>1. head.name \in ShmNames(e) /\ head.name \in StoreNames
      BY <1>4, <2>2, NameKinds, NameParts
    <3> QED BY <2>2, <3>1 DEF Without
  <2>3. store' = store \/ (store' = Without({head.name}) /\ head.name.kind # "file" /\ head.name # Inline)
    BY <1>1 DEF TerminalReads, EscapeIsDropped
  <2> QED BY <2>1, <2>2, <2>3
<1>6. /\ \A x \in StoreNames : x.of # e => store'[x] = store[x]
      /\ \A x \in ShmNames(e) : store'[x] \in {store[x], NoPixels}
      /\ store'[FileOf(e)] = store[FileOf(e)] /\ store'[StagingOf(e)] = store[StagingOf(e)]
  BY <1>5, NameKinds, NameParts
<1>7. \A d \in Homes \ {e} : HomeHolds(d)'
  BY <1>2, <1>3, <1>6, OthersStay
<1>8. PixelsAreItsOwn'
  <2>1. CASE UNCHANGED lastRead
    BY <1>2, <2>1 DEF FilesInv, PixelsAreItsOwn
  <2>2. CASE head.name # Inline /\ lastRead' = [name |-> head.name, asked |-> head.pixels, got |-> store[head.name]]
    <3>1. \/ head.name = FileOf(e) /\ (store[FileOf(e)] # NoPixels => store[FileOf(e)].n >= head.pixels.n)
          \/ head.name \in ShmNames(e) \ crowded /\ store[head.name] \in {head.pixels, NoPixels}
          \/ head.name \in crowded
      BY <1>4, <2>2 DEF ToldOne
    <3>2. \A x \in ShmNames(e) : x.kind # "file"
      BY NameKinds
    <3> QED BY <1>2, <2>2, <3>1, <3>2, NameKinds DEF PixelsAreItsOwn
  <2> QED BY <1>1, <2>1, <2>2 DEF TerminalReads, EscapeIsDropped
<1>9. /\ SaidOnce(Tail(q), e, crowded) /\ (head.name \in ShmNames(e) \ crowded => Unnamed(Tail(q), head.name))
      /\ \A name : Unnamed(q, name) => Unnamed(Tail(q), name) /\ head.name # name
  <2>1. SaidOnce(q, e, crowded)
    BY <1>1, HomeParts
  <2> QED BY <1>1, <1>2, <2>1, ToldReads
<1>11. Told(Tail(q), e, store', Live(e), crowded)
  <2>1. PICK at, at2, sure, r, again : at = store /\ at2 = store' /\ sure = Live(e) /\ r = Tail(q) /\ again = crowded
    OBVIOUS
  <2>2. r \in Seq(ToldSet) /\ sure \in BOOLEAN /\ Told(r, e, at, sure, again)
    BY <1>2, <1>4, <2>1, HomeParts
  <2>3. \A i \in 1 .. Len(r) : r[i].name \in ShmNames(e) \ again => at2[r[i].name] = at[r[i].name]
    BY <1>5, <1>9, <2>1, NameParts DEF Unnamed
  <2>4. at2[FileOf(e)] = at[FileOf(e)]
    BY <1>6, <2>1
  <2>5. Told(r, e, at2, sure, again)
    BY <2>2, <2>3, <2>4, ToldKept
  <2> QED BY <2>1, <2>5
<1>12. JobHolds(e)'
  <2>1. JobHolds(e) /\ PixelsOf(e)' = PixelsOf(e) /\ Live(e)' = Live(e)
    BY <1>2, HomeParts DEF PixelsOf, Live
  <2>2. PICK name : name = WholeName(e, job.slot)
    OBVIOUS
  <2>3. job.shm => /\ name \in ShmNames(e) /\ name \in StoreNames
                   /\ (name \in crowded \/ Unnamed(q, name))
    BY <1>1, <2>1, <2>2, NameKinds, NameParts DEF JobHolds
  <2>4. job.shm /\ name \notin crowded => Unnamed(Tail(q), name) /\ store'[name] = store[name]
    BY <1>5, <1>9, <2>3
  <2>5. WholeName(e, job.slot)' = WholeName(e, job.slot)
    BY DEF WholeName
  <2> QED BY <1>1, <1>2, <1>3, <1>4, <1>6, <2>1, <2>2, <2>3, <2>4, <2>5 DEF JobHolds, WholeName
<1>13. MarksHold(e)'
  <2>1. ShmNames(e)' = ShmNames(e)
    BY DEF ShmNames, WholeName, PatchName
  <2> QED BY <1>2, <1>6, <2>1, HomeParts DEF MarksHold
<1>14. HomeHolds(e)'
  <2>1. FilesUpTo(Tail(q), e, drawnSoFar[e]) /\ life[e] # "new"
    BY <1>1, <1>2, <1>4, HomeParts DEF HomeHolds
  <2> QED BY <1>2, <1>3, <1>9, <1>11, <1>12, <1>13, <2>1, HomeParts DEF HomeHolds, Live
<1> QED BY <1>7, <1>8, <1>14

(* An engine that is not there for its pane, whose files and objects go, some or all. *)
LEMMA LosesHolds ==
  ASSUME FilesInv, NEW d \in Homes, ~Live(d)', life'[d] = "new" => life[d] = "new",
         shmSlot'[d] = shmSlot[d], shmPatchSlot'[d] = shmPatchSlot[d], drawnSoFar'[d] = drawnSoFar[d],
         inWorker'[d] \in {inWorker[d], NoWork}, escapes'[d] = escapes[d],
         crowded' = crowded,
         \A x \in StoreNames : x.of = d => store'[x] \in {store[x], NoPixels},
         MarksHold(d)'
  PROVE  HomeHolds(d)'
<1>1. PICK q, job, job2 : q = escapes[d] /\ job = inWorker[d] /\ job2 = inWorker'[d]
  OBVIOUS
<1>2. /\ store'[FileOf(d)] \in {store[FileOf(d)], NoPixels} /\ store'[StagingOf(d)] \in {store[StagingOf(d)], NoPixels}
      /\ \A x \in ShmNames(d) : store'[x] \in {store[x], NoPixels}
  BY NameParts
<1>3. NoWork.stage = "none" /\ ~NoWork.shm
  BY DEF NoWork
<1>4. Told(q, d, store', FALSE, crowded)
  <2>1. PICK at, at2, sure, sure2, again : at = store /\ at2 = store' /\ sure = Live(d) /\ sure2 = FALSE /\ again = crowded
    OBVIOUS
  <2>2. q \in Seq(ToldSet) /\ sure \in BOOLEAN /\ sure2 \in BOOLEAN /\ ~sure2 /\ Told(q, d, at, sure, again)
    BY <1>1, <2>1, HomeParts
  <2>3. \A i \in 1 .. Len(q) : q[i].name \in ShmNames(d) \ again => at2[q[i].name] = at[q[i].name] \/ (~sure2 /\ at2[q[i].name] = NoPixels)
    BY <1>2, <2>1
  <2>4. at2[FileOf(d)] = at[FileOf(d)] \/ at2[FileOf(d)] = NoPixels
    BY <1>2, <2>1
  <2>5. Told(q, d, at2, sure2, again)
    <3>1. again \subseteq again /\ (sure2 => sure)
      BY <2>2
    <3> QED BY <2>2, <2>3, <2>4, <3>1, ToldKept
  <2> QED BY <2>1, <2>5
<1>6. JobHolds(d)'
  <2>1. CASE job2 = NoWork
    BY <1>1, <1>3, <2>1 DEF JobHolds
  <2>2. CASE job2 = job
    <3>1. JobHolds(d) /\ PixelsOf(d)' = PixelsOf(d) /\ WholeName(d, job.slot)' = WholeName(d, job.slot)
      BY <1>1, <2>2, HomeParts DEF PixelsOf, WholeName
    <3>2. job.stage = "object" => WholeName(d, job.slot) \in ShmNames(d)
      BY <1>1, <3>1, NameKinds DEF JobHolds
    <3> QED BY <1>1, <1>2, <2>2, <3>1, <3>2 DEF JobHolds, WholeName
  <2> QED BY <1>1, <2>1, <2>2
<1>7. FilesUpTo(escapes[d], d, drawnSoFar[d]) /\ (life[d] = "new" => escapes[d] = <<>>)
  BY HomeParts DEF HomeHolds
<1>8. Live(d)' = FALSE
  BY DEF Live
<1> QED BY <1>1, <1>4, <1>6, <1>7, <1>8, HomeParts DEF HomeHolds

(* Its pane is detached, or it leaves, ends or is killed. *)
LEMMA LeavesHolds ==
  ASSUME FilesInv,
         NEW e \in Homes, DetachesPane(e) \/ BeforeQuit(e) \/ ExitHandler(e) \/ Killed(e)
  PROVE  PixelsAreItsOwn' /\ \A d \in Homes : HomeHolds(d)'
<1>1. /\ \A d \in Homes \ {e} : life'[d] = life[d] /\ inWorker'[d] = inWorker[d] /\ (d \in served' <=> d \in served)
                                 /\ (d \in markers' <=> d \in markers)
      /\ UNCHANGED <<marked, shmSlot, shmPatchSlot, drawnSoFar, escapes, lastRead, crowded>> /\ cutShort \subseteq cutShort'
      /\ inWorker'[e] \in {inWorker[e], NoWork} /\ life'[e] # "new" /\ ~(e \in served' /\ life'[e] = "up")
  BY HomeParts DEF StoreInv, StoreTypes, DetachesPane, BeforeQuit, ExitHandler, Killed, CleansUp, storeHistory
<1>2. /\ \A x \in StoreNames : x.of # e => store'[x] = store[x]
      /\ \A x \in StoreNames : store'[x] \in {store[x], NoPixels}
  <2>1. PICK gone : gone \subseteq FilesOf(e) \cup ShmNames(e) /\ (store' = store \/ store' = Without(gone))
    <3>1. CASE DetachesPane(e)
      BY <3>1 DEF DetachesPane
    <3>2. CASE BeforeQuit(e) \/ ExitHandler(e)
      <4>1. PICK gone : gone = FilesOf(e) \cup (IF e \in marked THEN ShmNames(e) ELSE {})
        OBVIOUS
      <4> QED BY <3>2, <4>1 DEF BeforeQuit, ExitHandler, CleansUp
    <3>3. CASE Killed(e)
      BY <3>3 DEF Killed
    <3> QED BY <3>1, <3>2, <3>3
  <2>2. \A x \in gone : x.of = e
    BY <2>1, NameParts
  <2> QED BY <2>1, <2>2 DEF Without
<1>3. \A d \in Homes \ {e} : HomeHolds(d)'
  BY <1>1, <1>2, OthersStay
<1>4. PixelsAreItsOwn'
  BY <1>1 DEF FilesInv, PixelsAreItsOwn
<1>5. MarksHold(e)'
  <2>1. MarksHold(e) /\ ShmNames(e)' = ShmNames(e) /\ \A x \in ShmNames(e) : x \in StoreNames
    BY HomeParts, NameParts DEF ShmNames, WholeName, PatchName
  <2>2. (inWorker'[e].shm \/ \E x \in ShmNames(e) : store'[x] # NoPixels) => e \in marked'
    BY <1>1, <1>2, <2>1 DEF MarksHold, NoWork
  <2>3. CASE DetachesPane(e)
    <3>1. life'[e] = "up" /\ life[e] = "up" /\ markers' = markers
      BY <2>3 DEF DetachesPane
    <3> QED BY <1>1, <2>1, <2>2, <3>1 DEF MarksHold
  <2>4. CASE BeforeQuit(e)
    <3>1. life'[e] = "leaving" /\ life[e] = "up" /\ served' = served /\ (e \notin served => markers' = markers)
      BY <2>4, HomeParts DEF BeforeQuit, CleansUp, StoreInv, StoreTypes
    <3> QED BY <1>1, <2>1, <2>2, <3>1 DEF MarksHold
  <2>5. CASE ExitHandler(e)
    <3>1. life'[e] = "dead" /\ life[e] = "leaving"
      BY <2>5, HomeParts DEF ExitHandler, StoreInv, StoreTypes
    <3>2. e \in served /\ e \in marked => \A x \in ShmNames(e) : store'[x] = NoPixels
      BY <2>1, <2>5 DEF ExitHandler, CleansUp, Without
    <3>3. e \notin marked => \A x \in ShmNames(e) : store'[x] = NoPixels
      BY <1>2, <2>1 DEF MarksHold
    <3>4. e \notin served /\ e \in marked => e \in markers'
      BY <2>1, <2>5, <3>1 DEF MarksHold, ExitHandler, CleansUp
    <3> QED BY <1>1, <2>1, <2>2, <3>1, <3>2, <3>3, <3>4 DEF MarksHold
  <2>6. CASE Killed(e)
    <3>2. life'[e] = "dead" /\ (life[e] = "up" \/ e \in cutShort') /\ markers' = markers /\ store' = store
      BY <2>6, HomeParts DEF Killed, StoreInv, StoreTypes
    <3> QED BY <1>1, <2>1, <2>2, <3>2 DEF MarksHold
  <2> QED BY <2>3, <2>4, <2>5, <2>6
<1>6. HomeHolds(e)'
  <2>1. ~Live(e)' /\ \A x \in StoreNames : x.of = e => store'[x] \in {store[x], NoPixels}
    BY <1>1, <1>2 DEF Live
  <2> QED BY <1>1, <1>5, <2>1, LosesHolds
<1> QED BY <1>3, <1>4, <1>6

(* An engine starts, and takes from those that are not running only. *)
LEMMA StartsUpHolds ==
  ASSUME FilesInv,
         NEW e \in Homes, StartsUp(e)
  PROVE  PixelsAreItsOwn' /\ \A d \in Homes : HomeHolds(d)'
<1>1. PICK gone : gone = UNION ({FilesOf(d) : d \in Abandoned(e)} \union {ShmNames(d) : d \in AbandonedShm(e)})
  OBVIOUS
<1>2. /\ life[e] = "new" /\ life' = [life EXCEPT ![e] = "up"] /\ served' = served \cup {e}
      /\ store' = Without(gone) /\ markers' = markers \ AbandonedShm(e)
      /\ UNCHANGED <<marked, shmSlot, shmPatchSlot, drawnSoFar, inWorker, escapes, lastRead, crowded, cutShort>>
  BY <1>1 DEF StartsUp, storeHistory
<1>3. life'[e] = "up" /\ \A d \in Homes \ {e} : life'[d] = life[d] /\ (d \in served' <=> d \in served)
  BY <1>2, HomeParts DEF StoreInv, StoreTypes
<1>4. \A d \in Homes : d \notin Abandoned(e) => d \notin AbandonedShm(e) /\ \A x \in StoreNames : x.of = d => x \notin gone
  <2> SUFFICES ASSUME NEW d \in Homes, d \notin Abandoned(e), NEW x \in gone PROVE x.of # d
    BY DEF AbandonedShm
  <2>1. PICK c \in Abandoned(e) : x \in FilesOf(c) \cup ShmNames(c)
    BY <1>1 DEF AbandonedShm
  <2> QED BY <2>1, NameParts DEF Abandoned
<1>5. \A x \in StoreNames : store'[x] = IF x \in gone THEN NoPixels ELSE store[x]
  BY <1>2 DEF Without
<1>6. PixelsAreItsOwn'
  BY <1>2 DEF FilesInv, PixelsAreItsOwn
<1>7. ASSUME NEW d \in Homes \ {e}, d \notin Abandoned(e)
      PROVE  HomeHolds(d)'
  <2>1. \A x \in StoreNames : x.of = d => store'[x] = store[x]
    BY <1>4, <1>5, <1>7
  <2>2. (d \in markers') <=> (d \in markers)
    BY <1>2, <1>4, <1>7
  <2>3. /\ ((d \in marked') <=> (d \in marked))
        /\ shmSlot'[d] = shmSlot[d] /\ shmPatchSlot'[d] = shmPatchSlot[d] /\ drawnSoFar'[d] = drawnSoFar[d]
        /\ inWorker'[d] = inWorker[d] /\ escapes'[d] = escapes[d]
    BY <1>2
  <2>4. /\ StoreInv /\ HomeHolds(d) /\ life'[d] = life[d] /\ ((d \in served') <=> (d \in served))
        /\ crowded \subseteq crowded' /\ cutShort \subseteq cutShort'
    BY <1>2, <1>3, HomeParts
  <2> QED BY <2>1, <2>2, <2>3, <2>4, Elsewhere
<1>8. ASSUME NEW d \in Homes \ {e}, d \in Abandoned(e)
      PROVE  HomeHolds(d)'
  <2>1. life[d] \in {"new", "dead"} /\ life'[d] = life[d]
    BY <1>3, <1>8 DEF Abandoned
  <2>2. \A x \in StoreNames : store'[x] \in {store[x], NoPixels}
    BY <1>5
  <2>3. MarksHold(d) /\ ShmNames(d)' = ShmNames(d) /\ \A x \in ShmNames(d) : x \in StoreNames
    BY HomeParts, NameParts DEF ShmNames, WholeName, PatchName
  <2>4. d \in markers => d \notin markers' /\ \A x \in ShmNames(d) : store'[x] = NoPixels
    <3>1. d \in markers => d \in AbandonedShm(e)
      BY <1>8 DEF AbandonedShm
    <3> QED BY <1>1, <1>2, <1>5, <2>3, <3>1
  <2>5. MarksHold(d)'
    BY <1>2, <2>1, <2>2, <2>3, <2>4 DEF MarksHold
  <2>6. ~Live(d)'
    BY <2>1 DEF Live
  <2> QED BY <1>2, <2>1, <2>2, <2>5, <2>6, LosesHolds
<1>9. HomeHolds(e)'
  <2>1. e \notin Abandoned(e)
    BY DEF Abandoned
  <2>2. /\ \A x \in StoreNames : x.of = e => store'[x] = store[x]
        /\ ((e \in markers') <=> (e \in markers))
    BY <1>2, <1>4, <1>5, <2>1
  <2>3. \A x \in ShmNames(e) : store'[x] = store[x]
    BY <2>2, NameParts
  <2>4. escapes[e] = <<>> /\ inWorker[e].stage = "none" /\ ~inWorker[e].shm /\ e \notin marked
    BY <1>2, HomeParts DEF HomeHolds, JobHolds, MarksHold, StoreInv, WorkIsReal
  <2>5. Len(escapes[e]) = 0
    BY <2>4
  <2>7. JobHolds(e)'
    BY <1>2, <2>4 DEF JobHolds
  <2>8. MarksHold(e)'
    <3>1. ShmNames(e)' = ShmNames(e)
      BY DEF ShmNames, WholeName, PatchName
    <3> QED BY <1>2, <1>3, <2>3, <2>4, <3>1, HomeParts DEF MarksHold
  <2> QED BY <1>2, <1>3, <2>5, <2>7, <2>8, HomeParts DEF HomeHolds, Told, FilesUpTo, SaidOnce
<1> QED BY <1>6, <1>7, <1>8, <1>9

(* A step keeps all of it. *)
LEMMA FilesStep ==
  ASSUME FilesInv, [StoreNext]_storeVars
  PROVE  FilesInv'
<1>1. CASE StoreNext
  <2>1. StoreInv'
    BY <1>1, StoreStep DEF FilesInv
  <2>3. PICK e \in Homes :
          \/ StartsUp(e) \/ HandsToWorker(e) \/ WritesObject(e) \/ ObjectFails(e) \/ StagesFile(e) \/ RenamesFile(e)
          \/ FileFails(e) \/ WorkerAnswers(e) \/ SendsPatch(e, TRUE) \/ SendsPatch(e, FALSE) \/ PaneResizes(e)
          \/ TerminalReads(e) \/ EscapeIsDropped(e) \/ DetachesPane(e) \/ BeforeQuit(e) \/ ExitHandler(e) \/ Killed(e)
    BY <1>1 DEF StoreNext
  <2>4. CASE PaneResizes(e)
    <3>1. UNCHANGED <<life, served, marked, shmSlot, shmPatchSlot, drawnSoFar, inWorker, escapes, store, markers, lastRead,
                    crowded, cutShort>>
      BY <2>4 DEF PaneResizes, storeHistory
    <3>2. PixelsAreItsOwn'
      BY <3>1 DEF FilesInv, PixelsAreItsOwn
    <3>3. ASSUME NEW d \in Homes PROVE HomeHolds(d)'
      BY <3>1, HomeParts, Elsewhere
    <3> QED BY <2>1, <3>2, <3>3 DEF FilesInv
  <2>5. CASE SendsPatch(e, TRUE) \/ SendsPatch(e, FALSE)
    BY <2>1, <2>5, SendsPatchHolds DEF FilesInv
  <2>6. CASE ~PaneResizes(e) /\ ~SendsPatch(e, TRUE) /\ ~SendsPatch(e, FALSE)
    <3>1. PixelsAreItsOwn' /\ \A d \in Homes : HomeHolds(d)'
      BY <2>3, <2>6, StartsUpHolds, HandsToWorkerHolds, WritesObjectHolds, FailsHold, StagesFileHolds, RenamesFileHolds,
         WorkerAnswersHolds, EscapeGoesHolds, LeavesHolds
    <3> QED BY <2>1, <3>1 DEF FilesInv
  <2> QED BY <2>4, <2>5, <2>6
<1>2. CASE UNCHANGED storeVars
  <2>1. StoreInv'
    BY <1>2, StoreSitsStill DEF FilesInv
  <2>2. UNCHANGED <<life, served, marked, shmSlot, shmPatchSlot, drawnSoFar, inWorker, escapes, store, markers, lastRead,
                    crowded, cutShort>>
    BY <1>2 DEF storeVars
  <2>3. PixelsAreItsOwn'
    BY <2>2 DEF FilesInv, PixelsAreItsOwn
  <2>4. ASSUME NEW d \in Homes PROVE HomeHolds(d)'
    BY <2>2, <2>3, HomeParts, Elsewhere
  <2> QED BY <2>1, <2>3, <2>4 DEF FilesInv
<1> QED BY <1>1, <1>2

(* Nothing is in the store yet. *)
LEMMA FilesStart ==
  ASSUME StoreInit
  PROVE  FilesInv
<1>1. StoreInv
  BY StoreStarts
<1>3. PixelsAreItsOwn
  BY DEF StoreInit, PixelsAreItsOwn
<1>4. ASSUME NEW e \in Homes PROVE HomeHolds(e)
  <2>1. /\ life[e] = "new" /\ escapes[e] = <<>> /\ Len(escapes[e]) = 0 /\ shmSlot[e] = 0 /\ shmPatchSlot[e] = 0
        /\ inWorker[e] = NoWork /\ e \notin marked /\ \A x \in ShmNames(e) : store[x] = NoPixels
    BY NameParts DEF StoreInit
  <2>2. ~inWorker[e].shm /\ inWorker[e].stage = "none"
    BY <2>1 DEF NoWork
  <2>3. 0 \in 0 .. WholeRing - 1 /\ 0 \in 0 .. PatchRing - 1
    BY StoreAssumption
  <2>5. JobHolds(e) /\ MarksHold(e)
    BY <2>1, <2>2 DEF JobHolds, MarksHold
  <2> QED BY <2>1, <2>3, <2>5 DEF HomeHolds, Told, FilesUpTo, SaidOnce
<1> QED BY <1>1, <1>3, <1>4 DEF FilesInv

(* What the invariant says to those who use the store. *)
LEMMA FilesSay ==
  ASSUME FilesInv
  PROVE  NamedIsThere /\ PixelsAreItsOwn /\ LeftIsFindable
<1>1. NamedIsThere
  <2> SUFFICES ASSUME NEW e \in served, life[e] = "up", NEW i \in DOMAIN escapes[e], escapes[e][i].name \notin crowded \union {Inline}
               PROVE  store[escapes[e][i].name] # NoPixels
    BY DEF NamedIsThere
  <2>1. e \in Homes /\ Live(e) = TRUE
    BY DEF FilesInv, StoreInv, StoreTypes, Live
  <2>2. escapes[e] \in Seq(ToldSet) /\ Told(escapes[e], e, store, TRUE, crowded)
    BY <2>1, HomeParts
  <2>3. ToldOne(escapes[e][i], e, store, TRUE, crowded)
    <3>1. DOMAIN escapes[e] = 1 .. Len(escapes[e])
      BY <2>2
    <3> QED BY <2>2, <3>1 DEF Told
  <2> QED BY <2>3 DEF ToldOne
<1>2. PixelsAreItsOwn
  BY DEF FilesInv
<1>3. LeftIsFindable
  BY HomeParts DEF LeftIsFindable, MarksHold
<1> QED BY <1>1, <1>2, <1>3

-----------------------------------------------------------------------------
(* The socket of a pane: the engine that renamed last is under the name, and no other that still has   *)
(* to exit takes the name for its own.                                                                  *)
SocketPlaces == {"new", "cleared", "bound", "renamed", "serving", "judged", "closed"}
SocketTyped ==
  /\ socketPc \in [Servers -> SocketPlaces] /\ atTarget \in Servers \union {0}
  /\ ownedSocket \in [Servers -> Servers \union {0}] /\ judgedSocket \in [Servers -> Servers \union {0}]
  /\ besideCalls \subseteq Servers
NotYetNamed(s) ==
  socketPc[s] \in {"new", "cleared", "bound"} => atTarget # s /\ \A r \in Servers : ownedSocket[r] # s
Newest(s) == s \notin besideCalls /\ lastNamed = s /\ socketPc[s] \in {"renamed", "serving"}
KeepsTheName(s) == Newest(s) =>
  /\ atTarget = s
  /\ \A r \in Servers \ {s} : /\ socketPc[r] # "renamed" /\ ownedSocket[r] # s
                              /\ socketPc[r] = "judged" => judgedSocket[r] = s
SocketInv == SocketTyped /\ \A s \in Servers : NotYetNamed(s) /\ KeepsTheName(s)

LEMMA SocketStarts == SocketInit => SocketInv
<1>1. SocketInit => SocketTyped
  BY DEF SocketInit, SocketTyped, SocketPlaces
<1>2. SocketInit => \A s \in Servers : NotYetNamed(s) /\ KeepsTheName(s)
  BY SocketAssumption DEF SocketInit, NotYetNamed, KeepsTheName, Newest
<1> QED BY <1>1, <1>2 DEF SocketInv

LEMMA SocketStep ==
  ASSUME SocketInv, [SocketNext]_socketVars
  PROVE  SocketInv'
<1> USE DEF Goes, namedVars
<1>0. /\ SocketTyped /\ \A s \in Servers : NotYetNamed(s) /\ KeepsTheName(s)
      /\ 0 \notin Servers
  BY SocketAssumption DEF SocketInv
<1>1. ASSUME NEW s \in Servers,
             \/ ClearStaleSocket(s) \/ BindsStaging(s) \/ CloseEarly(s) \/ ServerKilled(s)
      PROVE  SocketInv'
  <2>1. /\ \/ atTarget' = 0 /\ lastNamed' = 0
           \/ UNCHANGED <<atTarget, lastNamed>>
        /\ UNCHANGED <<ownedSocket, judgedSocket, besideCalls>>
        /\ \E to \in SocketPlaces \ {"new", "renamed", "serving", "judged"} :
             socketPc' = [socketPc EXCEPT ![s] = to]
        /\ socketPc'[s] \in {"cleared", "bound"} => socketPc[s] \in {"new", "cleared"}
    BY <1>0, <1>1 DEF ClearStaleSocket, BindsStaging, CloseEarly, ServerKilled, SocketPlaces, SocketTyped
  <2>2. SocketTyped'
    BY <1>0, <2>1 DEF SocketTyped, SocketPlaces
  <2>3. ASSUME NEW r \in Servers PROVE NotYetNamed(r)' /\ KeepsTheName(r)'
    <3>1. \A q \in Servers \ {s} : socketPc'[q] = socketPc[q]
      BY <1>0, <2>1 DEF SocketTyped
    <3>2. NotYetNamed(r)'
      BY <1>0, <2>1, <3>1 DEF NotYetNamed
    <3>3. socketPc'[s] \notin {"renamed", "serving", "judged"}
      BY <1>0, <2>1 DEF SocketTyped, SocketPlaces
    <3>4. Newest(r)' => Newest(r) /\ atTarget' = atTarget /\ r # s
      <4>1. lastNamed' = r => atTarget' = atTarget /\ lastNamed' = lastNamed
        BY <1>0, <2>1
      <4> QED BY <2>1, <3>1, <3>3, <4>1 DEF Newest
    <3>5. KeepsTheName(r)'
      BY <1>0, <2>1, <3>1, <3>3, <3>4 DEF KeepsTheName
    <3> QED BY <3>2, <3>5
  <2> QED BY <2>2, <2>3 DEF SocketInv
<1>2. ASSUME NEW s \in Servers, RenamesIntoPlace(s) PROVE SocketInv'
  <2>1. /\ socketPc[s] = "bound" /\ socketPc' = [socketPc EXCEPT ![s] = "renamed"]
        /\ atTarget' = s /\ lastNamed' = s /\ UNCHANGED <<ownedSocket, judgedSocket>>
        /\ besideCalls' = IF \E r \in Servers \ {s} : BetweenCalls(r) THEN besideCalls \union {s} ELSE besideCalls
    BY <1>2 DEF RenamesIntoPlace
  <2>2. SocketTyped'
    BY <1>0, <2>1 DEF SocketTyped, SocketPlaces
  <2>3. socketPc'[s] = "renamed" /\ \A q \in Servers \ {s} : socketPc'[q] = socketPc[q]
    BY <1>0, <2>1 DEF SocketTyped
  <2>4. ASSUME NEW r \in Servers PROVE NotYetNamed(r)' /\ KeepsTheName(r)'
    <3>1. NotYetNamed(r)'
      BY <1>0, <2>1, <2>3 DEF NotYetNamed
    <3>2. CASE r # s
      BY <2>1, <3>1, <3>2 DEF KeepsTheName, Newest
    <3>3. CASE r = s
      <4>1. \A q \in Servers : ownedSocket[q] # s
        BY <1>0, <2>1 DEF NotYetNamed
      <4>2. s \notin besideCalls' => \A q \in Servers \ {s} : ~BetweenCalls(q)
        BY <2>1
      <4> QED BY <2>1, <2>3, <3>1, <3>3, <4>1, <4>2 DEF KeepsTheName, Newest, BetweenCalls
    <3> QED BY <3>2, <3>3, <3>1
  <2> QED BY <2>2, <2>4 DEF SocketInv
<1>3. ASSUME NEW s \in Servers, ReadsIdentity(s) PROVE SocketInv'
  <2>1. /\ socketPc[s] = "renamed" /\ socketPc' = [socketPc EXCEPT ![s] = "serving"]
        /\ ownedSocket' = [ownedSocket EXCEPT ![s] = atTarget]
        /\ UNCHANGED <<atTarget, lastNamed, judgedSocket, besideCalls>>
    BY <1>3 DEF ReadsIdentity
  <2>2. SocketTyped'
    BY <1>0, <2>1 DEF SocketTyped, SocketPlaces
  <2>3. /\ socketPc'[s] = "serving" /\ ownedSocket'[s] = atTarget
        /\ \A q \in Servers \ {s} : socketPc'[q] = socketPc[q] /\ ownedSocket'[q] = ownedSocket[q]
    BY <1>0, <2>1 DEF SocketTyped
  <2>4. ASSUME NEW r \in Servers PROVE NotYetNamed(r)' /\ KeepsTheName(r)'
    <3>1. NotYetNamed(r)'
      BY <1>0, <2>1, <2>3 DEF NotYetNamed
    <3>2. Newest(r)' => Newest(r)
      BY <2>1, <2>3 DEF Newest
    <3>3. Newest(r) => r = s
      BY <1>0, <2>1 DEF KeepsTheName
    <3>4. KeepsTheName(r)'
      BY <1>0, <2>1, <2>3, <3>2, <3>3 DEF KeepsTheName
    <3> QED BY <3>1, <3>4
  <2> QED BY <2>2, <2>4 DEF SocketInv
<1>4. ASSUME NEW s \in Servers, CloseServer(s) PROVE SocketInv'
  <2>1. /\ socketPc[s] = "serving" /\ socketPc' = [socketPc EXCEPT ![s] = "judged"]
        /\ judgedSocket' = [judgedSocket EXCEPT ![s] = atTarget]
        /\ UNCHANGED <<atTarget, lastNamed, ownedSocket, besideCalls>>
    BY <1>4 DEF CloseServer
  <2>2. SocketTyped'
    BY <1>0, <2>1 DEF SocketTyped, SocketPlaces
  <2>3. /\ socketPc'[s] = "judged" /\ judgedSocket'[s] = atTarget
        /\ \A q \in Servers \ {s} : socketPc'[q] = socketPc[q] /\ judgedSocket'[q] = judgedSocket[q]
    BY <1>0, <2>1 DEF SocketTyped
  <2>4. ASSUME NEW r \in Servers PROVE NotYetNamed(r)' /\ KeepsTheName(r)'
    <3>1. NotYetNamed(r)'
      BY <1>0, <2>1, <2>3 DEF NotYetNamed
    <3>2. Newest(r)' => Newest(r) /\ r # s
      BY <2>1, <2>3 DEF Newest
    <3>4. KeepsTheName(r)'
      BY <1>0, <2>1, <2>3, <3>2 DEF KeepsTheName
    <3> QED BY <3>1, <3>4
  <2> QED BY <2>2, <2>4 DEF SocketInv
\* Its own name only: another's is under it, and that it has seen.
<1>5. ASSUME NEW s \in Servers, ClearOwnedSocket(s) PROVE SocketInv'
  <2>1. /\ socketPc[s] = "judged" /\ socketPc' = [socketPc EXCEPT ![s] = "closed"]
        /\ atTarget' = (IF ownedSocket[s] # 0 /\ judgedSocket[s] = ownedSocket[s] THEN 0 ELSE atTarget)
        /\ UNCHANGED <<lastNamed, ownedSocket, judgedSocket, besideCalls>>
    BY <1>5 DEF ClearOwnedSocket
  <2>2. SocketTyped'
    BY <1>0, <2>1 DEF SocketTyped, SocketPlaces
  <2>3. socketPc'[s] = "closed" /\ \A q \in Servers \ {s} : socketPc'[q] = socketPc[q]
    BY <1>0, <2>1 DEF SocketTyped
  <2>4. ASSUME NEW r \in Servers PROVE NotYetNamed(r)' /\ KeepsTheName(r)'
    <3>1. NotYetNamed(r)'
      BY <1>0, <2>1, <2>3 DEF NotYetNamed
    <3>2. Newest(r)' => Newest(r) /\ r # s
      BY <2>1, <2>3 DEF Newest
    <3>3. Newest(r) /\ r # s => atTarget' = atTarget
      <4>1. Newest(r) /\ r # s => judgedSocket[s] = r /\ ownedSocket[s] # r
        BY <1>0, <2>1 DEF KeepsTheName
      <4> QED BY <4>1, <2>1
    <3>4. KeepsTheName(r)'
      BY <1>0, <2>1, <2>3, <3>2, <3>3 DEF KeepsTheName
    <3> QED BY <3>1, <3>4
  <2> QED BY <2>2, <2>4 DEF SocketInv
<1>6. CASE UNCHANGED socketVars
  BY <1>0, <1>6 DEF SocketInv, SocketTyped, NotYetNamed, KeepsTheName, Newest, socketVars
<1> QED BY <1>1, <1>2, <1>3, <1>4, <1>5, <1>6 DEF SocketNext

LEMMA SocketSays == SocketInv => NewestIsReached
BY DEF SocketInv, KeepsTheName, Newest, NewestIsReached
=============================================================================
