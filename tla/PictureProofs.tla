--------------------------- MODULE PictureProofs ----------------------------
(* Lemmas about how an engine shows its pages: a page at rest is sharp in the end, a recording has a   *)
(* picture of each event it says it has, and a page that floats fits where it is shown.               *)
EXTENDS ChromeCapture, Recorder, FloatDisplay, SequenceTheorems, FiniteSetTheorems, TLAPS

CapFields ==
  [dirty : BOOLEAN, timer : BOOLEAN, cast : {"none", "waits", "ripe"}, pending : Pictures \cup {None},
   inCapture : BOOLEAN, settle : BOOLEAN, grace : BOOLEAN, fresh : BOOLEAN, force : BOOLEAN, soft : BOOLEAN,
   expedite : BOOLEAN, behind : BOOLEAN, fits : Nat, due : BOOLEAN]
ShotFields == [stage : {"none", "waits", "begun", "done"}, began : Nat, pic : Pictures \cup {None}, stale : BOOLEAN]
Attempts == [cap : CapFields, grab : [Shots -> ShotFields], sent : Seq(Nat)]
HeardTypes == [signal : Pictures \cup {None}, cast : Pictures \cup {None}, bitmap : Pictures \cup {None}]

\* Of those the slot is for: a shot under way.
IsUp(g, s) == g[s].stage \in {"begun", "done"}
AnyUp(g) == IsUp(g, "pump") \/ IsUp(g, "page")
\* The size Chrome lays the page out at when it has done what it was sent.
EndSize(cmds, ap) == IF cmds = <<>> THEN ap ELSE Last(cmds)
LastHeard(cs, told) == IF cs = <<>> THEN told.signal ELSE Last(cs)
NewsComes(cs, told) == \E i \in DOMAIN cs : cs[i] # told.signal
NoSlip(sl) == "stale" \notin sl /\ "late" \notin sl
SharpPane(pn, pg, wt) == pn = [look |-> pg, size |-> wt, soft |-> FALSE]

SizesKnown(b, wt, ap, told) ==
  /\ ap <= wt /\ (\A i \in DOMAIN b.sent : b.sent[i] <= wt) /\ told.bitmap.size <= wt
  /\ \A s \in Shots : b.grab[s].began <= wt /\ b.grab[s].pic.size <= wt
SizeComes(b, wt, ap, sl) == "late" \notin sl /\ ~b.cap.behind =>
  EndSize(b.sent, ap) = wt /\ \A s \in {"pump", "page"} : b.grab[s].stage = "begun" => b.grab[s].began = wt
PageIsHeard(pg, ap, cs, told, on) == on => LastHeard(cs, told).look = pg /\ LastHeard(cs, told).size = ap
DrawnIsPane(b, wt, told, pn) ==
  told.bitmap # None /\ told.bitmap.size = wt /\ ~b.cap.soft /\ ~b.cap.force => SharpPane(pn, told.bitmap.look, wt)
StaleIsFollowed(b, sl, on) ==
  on /\ NoSlip(sl) /\ IsUp(b.grab, "pump") /\ b.grab["pump"].stale => b.cap.settle \/ b.cap.dirty
OldIsFollowed(b, pg, cs, told, on) ==
  on /\ b.grab["pump"].stage = "done" /\ b.grab["pump"].pic.look # pg => NewsComes(cs, told) \/ b.cap.settle \/ b.cap.dirty
\* What is still to make the pane right.
Promised(b, pg, wt, ap, cs, told) ==
  \/ NewsComes(cs, told) \/ b.cap.settle \/ b.cap.dirty \/ ap # wt
  \/ \E s \in {"pump", "page"} : b.grab[s].stage = "begun" /\ b.grab[s].began # wt
  \/ b.grab["pump"].stage = "begun"
  \/ b.grab["pump"].stage = "done" /\ b.grab["pump"].pic.look = pg /\ b.grab["pump"].pic.size = wt
SharpOrPromised(b, pg, wt, ap, cs, told, pn, sl, on) ==
  on /\ NoSlip(sl) => SharpPane(pn, pg, wt) \/ Promised(b, pg, wt, ap, cs, told)
OneUp(b, sl) == "two" \notin sl => ~(IsUp(b.grab, "pump") /\ IsUp(b.grab, "page"))
\* What an attempt keeps, its slot and its pump aside.
Sits(b, pg, wt, ap, cs, told, pn, sl, on) ==
  /\ SizesKnown(b, wt, ap, told) /\ SizeComes(b, wt, ap, sl) /\ PageIsHeard(pg, ap, cs, told, on)
  /\ DrawnIsPane(b, wt, told, pn) /\ StaleIsFollowed(b, sl, on) /\ OldIsFollowed(b, pg, cs, told, on)
  /\ SharpOrPromised(b, pg, wt, ap, cs, told, pn, sl, on) /\ OneUp(b, sl)
BehindIsUp(b) == b.cap.behind => AnyUp(b.grab)
DirtyIsHeard(b, on) == on /\ b.cap.dirty => b.cap.timer \/ AnyUp(b.grab)

CapTyped ==
  /\ page \in Looks /\ want \in Nat /\ applied \in Nat /\ casts \in Seq(Pictures) /\ AtOnce \in Attempts
  /\ shotSeen \in HeardTypes /\ warm \in BOOLEAN /\ screencast = painting /\ painting \in BOOLEAN
CapInv ==
  /\ CapTyped /\ Sits(AtOnce, page, want, applied, casts, shotSeen, pane, slips, painting)
  /\ BehindIsUp(AtOnce) /\ DirtyIsHeard(AtOnce, painting)

LEMMA FlyingIs ==
  ASSUME NEW g
  PROVE  /\ Flying(g) \in Nat /\ (Flying(g) = 0 <=> ~AnyUp(g))
         /\ Flying(g) <= 1 <=> ~(IsUp(g, "pump") /\ IsUp(g, "page"))
<1>1. PICK up : up = {s \in {"pump", "page"} : g[s].stage \in {"begun", "done"}}
  OBVIOUS
<1>2. Flying(g) = Cardinality(up) /\ ("pump" \in up <=> IsUp(g, "pump")) /\ ("page" \in up <=> IsUp(g, "page"))
  BY <1>1 DEF Flying, IsUp
<1>3. CASE "pump" \in up /\ "page" \in up
  <2>1. up = {"pump"} \cup {"page"} /\ "page" \notin {"pump"}
    BY <1>1, <1>3
  <2>2. IsFiniteSet({"pump"}) /\ Cardinality({"pump"}) = 1
    BY FS_Singleton
  <2>3. Cardinality({"pump"} \cup {"page"}) = 1 + 1
    BY <2>1, <2>2, FS_AddElement
  <2> QED BY <2>1, <2>3, <1>2, <1>3 DEF AnyUp
<1>4. CASE "pump" \in up /\ "page" \notin up
  <2>1. up = {"pump"}
    BY <1>1, <1>4
  <2>2. Cardinality(up) = 1
    BY <2>1, FS_Singleton
  <2> QED BY <2>2, <1>2, <1>4 DEF AnyUp
<1>5. CASE "pump" \notin up /\ "page" \in up
  <2>1. up = {"page"}
    BY <1>1, <1>5
  <2>2. Cardinality(up) = 1
    BY <2>1, FS_Singleton
  <2> QED BY <2>2, <1>2, <1>5 DEF AnyUp
<1>6. CASE "pump" \notin up /\ "page" \notin up
  <2>1. up = {}
    BY <1>1, <1>6
  <2>2. Cardinality(up) = 0
    BY <2>1, FS_EmptySet
  <2> QED BY <2>2, <1>2, <1>6 DEF AnyUp
<1> QED BY <1>3, <1>4, <1>5, <1>6

\* What the pump makes of an attempt: nothing, or a shot.
SameWork(b, p) ==
  /\ p.sent = b.sent /\ p.cap.settle = b.cap.settle /\ p.cap.force = b.cap.force /\ p.cap.soft = b.cap.soft
  /\ p.cap.behind = b.cap.behind
Begins(b, p) ==
  /\ b.cap.dirty /\ ~p.cap.dirty /\ ~AnyUp(b.grab) /\ p.grab["page"] = b.grab["page"] /\ p.grab["late"] = b.grab["late"]
  /\ p.grab["pump"].stage = "begun" /\ p.grab["pump"].began = EndSize(b.sent, applied)
  /\ p.grab["pump"].pic = None /\ ~p.grab["pump"].stale
Pumps(b, p, on) ==
  /\ p \in Attempts /\ SameWork(b, p) /\ DirtyIsHeard(p, on)
  /\ \/ p.grab = b.grab /\ p.cap.dirty = b.cap.dirty
     \/ Begins(b, p)

LEMMA AskedIs ==
  ASSUME NEW cmds \in Seq(Nat), applied \in Nat
  PROVE  /\ Asked(cmds) \in ShotFields /\ Asked(cmds).stage = "begun" /\ Asked(cmds).began = EndSize(cmds, applied)
         /\ Asked(cmds).pic = None /\ Asked(cmds).stale = FALSE
<1>1. EndSize(cmds, applied) \in Nat
  <2>1. CASE cmds = <<>>
    BY <2>1 DEF EndSize
  <2>2. CASE cmds # <<>>
    <3>1. Last(cmds) = cmds[Len(cmds)] /\ Len(cmds) \in DOMAIN cmds
      BY <2>2 DEF Last
    <3>2. Last(cmds) \in Nat
      BY <3>1
    <3> QED BY <2>2, <3>2 DEF EndSize
  <2> QED BY <2>1, <2>2
<1>2. Asked(cmds) = [NoShot EXCEPT !.stage = "begun", !.began = EndSize(cmds, applied)]
  BY DEF Asked, EndSize
<1> QED BY <1>1, <1>2 DEF NoShot, ShotFields

LEMMA PumpedPumps ==
  ASSUME NEW b \in Attempts, NEW on \in BOOLEAN, applied \in Nat
  PROVE  Pumps(b, Pumped(b, on), on)
<1>1. /\ b.cap \in CapFields /\ b.grab \in [Shots -> ShotFields] /\ b.sent \in Seq(Nat)
      /\ b = [cap |-> b.cap, grab |-> b.grab, sent |-> b.sent]
  BY DEF Attempts
<1>2. CASE ~b.cap.dirty \/ b.cap.timer \/ Flying(b.grab) >= 1 \/ ~on
  <2>1. Pumped(b, on) = b
    BY <1>2 DEF Pumped
  <2>2. DirtyIsHeard(b, on)
    BY <1>2, FlyingIs DEF DirtyIsHeard
  <2> QED BY <2>1, <2>2 DEF Pumps, SameWork
<1>3. CASE /\ b.cap.dirty /\ ~b.cap.timer /\ ~(Flying(b.grab) >= 1) /\ on /\ ~Ready(b.cap)
  <2>1. Pumped(b, on) = [b EXCEPT !.cap.timer = TRUE]
    BY <1>3 DEF Pumped
  <2>2. PICK c : c = [b.cap EXCEPT !.timer = TRUE]
    OBVIOUS
  <2>3. /\ c \in CapFields /\ c.timer = TRUE /\ c.dirty = b.cap.dirty /\ c.settle = b.cap.settle /\ c.force = b.cap.force
        /\ c.soft = b.cap.soft /\ c.behind = b.cap.behind
    BY <1>1, <2>2 DEF CapFields
  <2>4. Pumped(b, on) = [cap |-> c, grab |-> b.grab, sent |-> b.sent]
    BY <1>1, <2>1, <2>2
  <2> QED BY <1>1, <2>3, <2>4 DEF Pumps, SameWork, DirtyIsHeard, Attempts
<1>4. CASE /\ b.cap.dirty /\ ~b.cap.timer /\ ~(Flying(b.grab) >= 1) /\ on /\ Ready(b.cap)
  <2>1. Pumped(b, on) = [b EXCEPT !.cap.dirty = FALSE, !.cap.due = FALSE,
                 !.cap.cast = IF @ = "waits" THEN "ripe" ELSE @, !.grab["pump"] = Asked(b.sent)]
    BY <1>4 DEF Pumped
  <2>2. PICK c : c = [b.cap EXCEPT !.dirty = FALSE, !.due = FALSE, !.cast = IF @ = "waits" THEN "ripe" ELSE @]
    OBVIOUS
  <2>3. /\ c \in CapFields /\ c.dirty = FALSE /\ c.settle = b.cap.settle /\ c.force = b.cap.force
        /\ c.soft = b.cap.soft /\ c.behind = b.cap.behind
    BY <1>1, <2>2 DEF CapFields
  <2>4. PICK snap : snap = Asked(b.sent)
    OBVIOUS
  <2>5. PICK g : g = [b.grab EXCEPT !["pump"] = snap]
    OBVIOUS
  <2>6. snap \in ShotFields /\ snap.stage = "begun" /\ snap.began = EndSize(b.sent, applied) /\ snap.pic = None /\ ~snap.stale
    BY <1>1, <2>4, AskedIs
  <2>7. g \in [Shots -> ShotFields] /\ g["pump"] = snap /\ g["page"] = b.grab["page"] /\ g["late"] = b.grab["late"]
    BY <1>1, <2>5, <2>6 DEF Shots
  <2>8. Pumped(b, on) = [cap |-> c, grab |-> g, sent |-> b.sent]
    BY <1>1, <2>1, <2>2, <2>4, <2>5
  <2>9. ~AnyUp(b.grab)
    <3>1. Flying(b.grab) \in Nat /\ (Flying(b.grab) = 0 <=> ~AnyUp(b.grab))
      BY FlyingIs
    <3>2. ~(Flying(b.grab) >= 1)
      BY <1>4
    <3>3. \A n \in Nat : ~(n >= 1) => n = 0
      OBVIOUS
    <3>4. Flying(b.grab) = 0
      BY <3>1, <3>2, <3>3
    <3> QED BY <3>1, <3>4
  <2>10. PICK p : p = Pumped(b, on)
    OBVIOUS
  <2>11. p.cap = c /\ p.grab = g /\ p.sent = b.sent /\ p \in Attempts
    BY <1>1, <2>3, <2>7, <2>8, <2>10 DEF Attempts
  <2>12. SameWork(b, p) /\ DirtyIsHeard(p, on)
    BY <2>3, <2>11 DEF SameWork, DirtyIsHeard
  <2>13. Begins(b, p)
    BY <1>4, <2>3, <2>6, <2>7, <2>9, <2>11 DEF Begins
  <2> QED BY <2>10, <2>11, <2>12, <2>13 DEF Pumps
<1> QED BY <1>2, <1>3, <1>4

\* What an attempt keeps is kept by the pump.
LEMMA PumpKeeps ==
  ASSUME NEW b \in Attempts, NEW p, NEW on \in BOOLEAN, Pumps(b, p, on), NEW pg, NEW wt \in Nat, NEW cs,
         NEW told, NEW pn, NEW sl, applied \in Nat, BehindIsUp(b),
         Sits(b, pg, wt, applied, cs, told, pn, sl, on)
  PROVE  Sits(p, pg, wt, applied, cs, told, pn, sl, on) /\ BehindIsUp(p) /\ DirtyIsHeard(p, on) /\ p \in Attempts
<1>1. p \in Attempts /\ SameWork(b, p) /\ DirtyIsHeard(p, on)
  BY DEF Pumps
<1>2. /\ SizesKnown(b, wt, applied, told) /\ SizeComes(b, wt, applied, sl) /\ PageIsHeard(pg, applied, cs, told, on)
      /\ DrawnIsPane(b, wt, told, pn) /\ StaleIsFollowed(b, sl, on) /\ OldIsFollowed(b, pg, cs, told, on)
      /\ SharpOrPromised(b, pg, wt, applied, cs, told, pn, sl, on) /\ OneUp(b, sl)
  BY DEF Sits
<1>3. DrawnIsPane(p, wt, told, pn)
  BY <1>1, <1>2 DEF DrawnIsPane, SameWork
<1>4. CASE p.grab = b.grab /\ p.cap.dirty = b.cap.dirty
  <2>1. SizesKnown(p, wt, applied, told) /\ SizeComes(p, wt, applied, sl)
    BY <1>1, <1>2, <1>4 DEF SizesKnown, SizeComes, SameWork
  <2>2. StaleIsFollowed(p, sl, on) /\ OldIsFollowed(p, pg, cs, told, on)
    BY <1>1, <1>2, <1>4 DEF StaleIsFollowed, OldIsFollowed, SameWork
  <2>3. SharpOrPromised(p, pg, wt, applied, cs, told, pn, sl, on) /\ OneUp(p, sl) /\ BehindIsUp(p)
    BY <1>1, <1>2, <1>4 DEF SharpOrPromised, Promised, SameWork, OneUp, BehindIsUp
  <2> QED BY <1>1, <1>2, <1>3, <2>1, <2>2, <2>3 DEF Sits
<1>5. CASE Begins(b, p)
  <2>1. ~b.cap.behind /\ ~p.cap.behind
    BY <1>1, <1>5 DEF BehindIsUp, Begins, SameWork
  <2>2. EndSize(b.sent, applied) <= wt
    <3>1. b.sent \in Seq(Nat)
      BY DEF Attempts
    <3>2. CASE b.sent = <<>>
      BY <3>2, <1>2 DEF EndSize, SizesKnown
    <3>3. CASE b.sent # <<>>
      <4>1. Last(b.sent) = b.sent[Len(b.sent)] /\ Len(b.sent) \in DOMAIN b.sent
        BY <3>1, <3>3 DEF Last
      <4> QED BY <3>3, <4>1, <1>2 DEF EndSize, SizesKnown
    <3> QED BY <3>2, <3>3
  <2>3. SizesKnown(p, wt, applied, told)
    <3>1. p.grab["pump"].began <= wt /\ p.grab["pump"].pic.size <= wt
      BY <1>5, <2>2 DEF Begins, None
    <3> QED BY <1>1, <1>2, <1>5, <3>1 DEF SizesKnown, SameWork, Begins, Shots
  <2>4. SizeComes(p, wt, applied, sl)
    BY <1>1, <1>2, <1>5, <2>1 DEF SizeComes, SameWork, Begins
  <2>5. StaleIsFollowed(p, sl, on) /\ OldIsFollowed(p, pg, cs, told, on) /\ BehindIsUp(p)
    BY <1>5, <2>1 DEF StaleIsFollowed, OldIsFollowed, Begins, BehindIsUp
  <2>6. SharpOrPromised(p, pg, wt, applied, cs, told, pn, sl, on)
    BY <1>5 DEF SharpOrPromised, Promised, Begins
  <2>7. OneUp(p, sl)
    BY <1>5 DEF OneUp, Begins, AnyUp, IsUp
  <2> QED BY <1>1, <1>2, <1>3, <2>3, <2>4, <2>5, <2>6, <2>7 DEF Sits
<1> QED BY <1>4, <1>5 DEF Pumps

\* An attempt as the invariant wants it.
Good(b, pg, wt, cs, told, pn, sl, on) ==
  b \in Attempts /\ Sits(b, pg, wt, applied, cs, told, pn, sl, on) /\ BehindIsUp(b) /\ DirtyIsHeard(b, on)

\* Work that is put off or brought forward, of the same shots.
Defers(b, c, on) ==
  /\ c.sent = b.sent /\ c.grab = b.grab /\ c.cap.behind = b.cap.behind /\ c.cap.soft = b.cap.soft
  /\ b.cap.force => c.cap.force
  /\ on /\ (b.cap.dirty \/ b.cap.settle) => c.cap.dirty \/ c.cap.settle

LEMMA DeferKeeps ==
  ASSUME NEW b \in Attempts, NEW c \in Attempts, NEW on \in BOOLEAN, Defers(b, c, on), NEW pg, NEW wt, NEW ap, NEW cs, NEW told,
         NEW pn, NEW sl, Sits(b, pg, wt, ap, cs, told, pn, sl, on)
  PROVE  Sits(c, pg, wt, ap, cs, told, pn, sl, on) /\ (BehindIsUp(b) => BehindIsUp(c))
<1>1. /\ SizesKnown(b, wt, ap, told) /\ SizeComes(b, wt, ap, sl) /\ PageIsHeard(pg, ap, cs, told, on)
      /\ DrawnIsPane(b, wt, told, pn) /\ StaleIsFollowed(b, sl, on) /\ OldIsFollowed(b, pg, cs, told, on)
      /\ SharpOrPromised(b, pg, wt, ap, cs, told, pn, sl, on) /\ OneUp(b, sl)
  BY DEF Sits
<1>2. SizesKnown(c, wt, ap, told) /\ SizeComes(c, wt, ap, sl)
  BY <1>1 DEF SizesKnown, SizeComes, Defers
<1>3. DrawnIsPane(c, wt, told, pn) /\ OneUp(c, sl) /\ (BehindIsUp(b) => BehindIsUp(c))
  BY <1>1 DEF DrawnIsPane, OneUp, BehindIsUp, Defers
<1>4. StaleIsFollowed(c, sl, on) /\ OldIsFollowed(c, pg, cs, told, on)
  BY <1>1 DEF StaleIsFollowed, OldIsFollowed, Defers
<1>5. SharpOrPromised(c, pg, wt, ap, cs, told, pn, sl, on)
  BY <1>1 DEF SharpOrPromised, Promised, Defers
<1> QED BY <1>1, <1>2, <1>3, <1>4, <1>5 DEF Sits

\* The capture fields may be anything else.
LEMMA FieldsOf ==
  ASSUME NEW b \in Attempts
  PROVE  /\ b.cap \in CapFields /\ b.grab \in [Shots -> ShotFields] /\ b.sent \in Seq(Nat)
         /\ b = [cap |-> b.cap, grab |-> b.grab, sent |-> b.sent]
BY DEF Attempts

LEMMA AttemptOf ==
  ASSUME NEW c \in CapFields, NEW g \in [Shots -> ShotFields], NEW cmds \in Seq(Nat)
  PROVE  /\ [cap |-> c, grab |-> g, sent |-> cmds] \in Attempts
         /\ [cap |-> c, grab |-> g, sent |-> cmds].cap = c /\ [cap |-> c, grab |-> g, sent |-> cmds].grab = g
         /\ [cap |-> c, grab |-> g, sent |-> cmds].sent = cmds
BY DEF Attempts

LEMMA PumpedIsGood ==
  ASSUME NEW b \in Attempts, NEW on \in BOOLEAN, NEW pg, NEW wt \in Nat, NEW cs, NEW told, NEW pn, NEW sl,
         applied \in Nat, BehindIsUp(b), Sits(b, pg, wt, applied, cs, told, pn, sl, on)
  PROVE  Good(Pumped(b, on), pg, wt, cs, told, pn, sl, on)
<1>1. PICK p : p = Pumped(b, on)
  OBVIOUS
<1>2. Pumps(b, p, on)
  BY <1>1, PumpedPumps
<1>3. Good(p, pg, wt, cs, told, pn, sl, on)
  BY <1>2, PumpKeeps DEF Good
<1> QED BY <1>1, <1>3

LEMMA RequestedIsGood ==
  ASSUME NEW b, NEW on \in BOOLEAN, NEW pg, NEW wt \in Nat, NEW cs, NEW told, NEW pn, NEW sl,
         applied \in Nat, b \in Attempts, BehindIsUp(b), Sits(b, pg, wt, applied, cs, told, pn, sl, on)
  PROVE  Good(Requested(b, on), pg, wt, cs, told, pn, sl, on)
<1>3. /\ b.cap \in CapFields /\ b.grab \in [Shots -> ShotFields] /\ b.sent \in Seq(Nat)
      /\ b = [cap |-> b.cap, grab |-> b.grab, sent |-> b.sent]
  BY FieldsOf
<1>1. CASE on
  <2>1. PICK c : c = [b.cap EXCEPT !.dirty = TRUE]
    OBVIOUS
  <2>2. /\ c \in CapFields /\ c.dirty /\ c.behind = b.cap.behind /\ c.soft = b.cap.soft /\ c.force = b.cap.force
    BY <2>1, FieldsOf DEF CapFields
  <2>3. PICK d : d = [cap |-> c, grab |-> b.grab, sent |-> b.sent]
    OBVIOUS
  <2>4. d \in Attempts /\ d.cap = c /\ d.grab = b.grab /\ d.sent = b.sent
    BY <2>2, <2>3, FieldsOf, AttemptOf
  <2>5. Requested(b, on) = Pumped(d, on)
    <3>1. PICK e : e = [b EXCEPT !.cap.dirty = TRUE]
      OBVIOUS
    <3>2. e = [cap |-> c, grab |-> b.grab, sent |-> b.sent]
      BY <1>3, <2>1, <3>1
    <3> QED BY <3>1, <3>2, <2>3, <1>1 DEF Requested
  <2>6. Defers(b, d, on)
    BY <2>2, <2>4 DEF Defers
  <2>7. Sits(d, pg, wt, applied, cs, told, pn, sl, on) /\ BehindIsUp(d)
    BY <2>4, <2>6, DeferKeeps
  <2> QED BY <2>4, <2>5, <2>7, PumpedIsGood
<1>2. CASE ~on
  BY <1>2 DEF Requested, Good, DirtyIsHeard
<1> QED BY <1>1, <1>2

LEMMA RearmedIsGood ==
  ASSUME NEW b, NEW pg, NEW wt \in Nat, NEW cs, NEW told, NEW pn, NEW sl,
         applied \in Nat, painting \in BOOLEAN, Good(b, pg, wt, cs, told, pn, sl, painting)
  PROVE  Good(Rearmed(b), pg, wt, cs, told, pn, sl, painting)
<1>1. /\ b \in Attempts /\ Sits(b, pg, wt, applied, cs, told, pn, sl, painting) /\ BehindIsUp(b)
      /\ DirtyIsHeard(b, painting)
  BY DEF Good
<1>0. /\ b.cap \in CapFields /\ b.grab \in [Shots -> ShotFields] /\ b.sent \in Seq(Nat)
      /\ b = [cap |-> b.cap, grab |-> b.grab, sent |-> b.sent]
  BY <1>1, FieldsOf
<1>2. PICK p : p = IF b.cap.timer THEN Pumped([b EXCEPT !.cap.timer = FALSE], painting) ELSE b
  OBVIOUS
<1>3. Good(p, pg, wt, cs, told, pn, sl, painting)
  <2>1. CASE b.cap.timer
    <3>1. PICK c : c = [b.cap EXCEPT !.timer = FALSE]
      OBVIOUS
    <3>2. /\ c \in CapFields /\ c.behind = b.cap.behind /\ c.soft = b.cap.soft /\ c.force = b.cap.force
          /\ c.dirty = b.cap.dirty /\ c.settle = b.cap.settle
      BY <1>1, <3>1, FieldsOf DEF CapFields
    <3>3. PICK d : d = [cap |-> c, grab |-> b.grab, sent |-> b.sent]
      OBVIOUS
    <3>4. d \in Attempts /\ d.cap = c /\ d.grab = b.grab /\ d.sent = b.sent
      BY <1>1, <3>2, <3>3, FieldsOf, AttemptOf
    <3>5. p = Pumped(d, painting)
      <4>1. PICK e : e = [b EXCEPT !.cap.timer = FALSE]
        OBVIOUS
      <4>2. e = [cap |-> c, grab |-> b.grab, sent |-> b.sent]
        BY <1>0, <3>1, <4>1
      <4> QED BY <4>1, <4>2, <3>3, <2>1, <1>2
    <3>6. Defers(b, d, painting)
      BY <3>2, <3>4 DEF Defers
    <3>7. Sits(d, pg, wt, applied, cs, told, pn, sl, painting) /\ BehindIsUp(d)
      BY <1>1, <3>4, <3>6, DeferKeeps
    <3> QED BY <3>4, <3>5, <3>7, PumpedIsGood
  <2>2. CASE ~b.cap.timer
    BY <2>2, <1>2
  <2> QED BY <2>1, <2>2
<1>4. /\ p \in Attempts /\ Sits(p, pg, wt, applied, cs, told, pn, sl, painting) /\ BehindIsUp(p)
      /\ DirtyIsHeard(p, painting)
  BY <1>3 DEF Good
<1>5. PICK turn \in {"none", "waits", "ripe"} :
        Rearmed(b) = [p EXCEPT !.cap.cast = turn]
  <2>1. Rearmed(b) = [p EXCEPT !.cap.cast = IF p.cap.cast = "none" THEN p.cap.cast ELSE IF Ready(p.cap) THEN "ripe" ELSE "waits"]
    BY <1>2 DEF Rearmed
  <2>2. (IF p.cap.cast = "none" THEN p.cap.cast ELSE IF Ready(p.cap) THEN "ripe" ELSE "waits") \in {"none", "waits", "ripe"}
    OBVIOUS
  <2> QED BY <2>1, <2>2
<1>6. PICK c : c = [p.cap EXCEPT !.cast = turn]
  OBVIOUS
<1>7. /\ c \in CapFields /\ c.behind = p.cap.behind /\ c.soft = p.cap.soft /\ c.force = p.cap.force
      /\ c.dirty = p.cap.dirty /\ c.settle = p.cap.settle /\ c.timer = p.cap.timer
  BY <1>4, <1>6, FieldsOf DEF CapFields
<1>8. PICK d : d = [cap |-> c, grab |-> p.grab, sent |-> p.sent]
  OBVIOUS
<1>9. d \in Attempts /\ d.cap = c /\ d.grab = p.grab /\ d.sent = p.sent
  BY <1>4, <1>7, <1>8, FieldsOf, AttemptOf
<1>10. Rearmed(b) = d
  BY <1>4, <1>5, <1>6, <1>8, FieldsOf
<1>11. Defers(p, d, painting)
  BY <1>7, <1>9 DEF Defers
<1>12. Sits(d, pg, wt, applied, cs, told, pn, sl, painting) /\ BehindIsUp(d) /\ DirtyIsHeard(d, painting)
  BY <1>4, <1>7, <1>9, <1>11, DeferKeeps DEF DirtyIsHeard
<1> QED BY <1>9, <1>10, <1>12 DEF Good

LEMMA InvalidatedIsGood ==
  ASSUME NEW b, NEW pg, NEW wt \in Nat, NEW cs, NEW told, NEW pn, NEW sl,
         applied \in Nat, painting \in BOOLEAN, screencast = painting, Good(b, pg, wt, cs, told, pn, sl, painting)
  PROVE  Good(Invalidated(b), pg, wt, cs, told, pn, sl, painting)
<1>1. /\ b \in Attempts /\ Sits(b, pg, wt, applied, cs, told, pn, sl, painting) /\ BehindIsUp(b)
      /\ DirtyIsHeard(b, painting)
  BY DEF Good
<1>0. /\ b.cap \in CapFields /\ b.grab \in [Shots -> ShotFields] /\ b.sent \in Seq(Nat)
      /\ b = [cap |-> b.cap, grab |-> b.grab, sent |-> b.sent]
  BY <1>1, FieldsOf
<1>2. CASE ~painting
  BY <1>2 DEF Invalidated
<1>3. CASE painting
  <2>1. PICK c : c = [b.cap EXCEPT !.force = TRUE, !.expedite = TRUE]
    OBVIOUS
  <2>2. /\ c \in CapFields /\ c.behind = b.cap.behind /\ c.soft = b.cap.soft /\ c.force = TRUE
        /\ c.dirty = b.cap.dirty /\ c.settle = b.cap.settle /\ c.timer = b.cap.timer
    BY <1>1, <2>1, FieldsOf DEF CapFields
  <2>3. PICK d : d = [cap |-> c, grab |-> b.grab, sent |-> b.sent]
    OBVIOUS
  <2>4. d \in Attempts /\ d.cap = c /\ d.grab = b.grab /\ d.sent = b.sent
    BY <1>1, <2>2, <2>3, FieldsOf, AttemptOf
  <2>5. d = [b EXCEPT !.cap.force = TRUE, !.cap.expedite = TRUE]
    <3>1. PICK e : e = [b EXCEPT !.cap.force = TRUE, !.cap.expedite = TRUE]
      OBVIOUS
    <3>2. e = [cap |-> c, grab |-> b.grab, sent |-> b.sent]
      BY <1>0, <2>1, <3>1
    <3> QED BY <3>1, <3>2, <2>3
  <2>6. Defers(b, d, painting)
    BY <2>2, <2>4 DEF Defers
  <2>7. Good(d, pg, wt, cs, told, pn, sl, painting)
    BY <1>1, <2>2, <2>4, <2>6, DeferKeeps DEF Good, DirtyIsHeard
  <2>8. PICK r : r = Rearmed(d)
    OBVIOUS
  <2>9. /\ r \in Attempts /\ Sits(r, pg, wt, applied, cs, told, pn, sl, painting) /\ BehindIsUp(r)
        /\ DirtyIsHeard(r, painting)
    BY <2>7, <2>8, RearmedIsGood DEF Good
  <2>10. PICK newly : newly = (b.cap.grace /\ r.cap.fresh)
    OBVIOUS
  <2>11. Invalidated(b) = [r EXCEPT !.cap.grace = TRUE, !.cap.fresh = newly]
    BY <1>3, <2>5, <2>8, <2>10 DEF Invalidated
  <2>12. newly \in BOOLEAN
    BY <2>10
  <2>13. PICK e : e = [r.cap EXCEPT !.grace = TRUE, !.fresh = newly]
    OBVIOUS
  <2>14. /\ e \in CapFields /\ e.behind = r.cap.behind /\ e.soft = r.cap.soft /\ e.force = r.cap.force
         /\ e.dirty = r.cap.dirty /\ e.settle = r.cap.settle /\ e.timer = r.cap.timer
    BY <2>9, <2>12, <2>13, FieldsOf DEF CapFields
  <2>15. PICK f : f = [cap |-> e, grab |-> r.grab, sent |-> r.sent]
    OBVIOUS
  <2>16. f \in Attempts /\ f.cap = e /\ f.grab = r.grab /\ f.sent = r.sent
    BY <2>9, <2>14, <2>15, FieldsOf, AttemptOf
  <2>17. Invalidated(b) = f
    <3>1. /\ r.cap \in CapFields /\ r.grab \in [Shots -> ShotFields] /\ r.sent \in Seq(Nat)
          /\ r = [cap |-> r.cap, grab |-> r.grab, sent |-> r.sent]
      BY <2>9, FieldsOf
    <3> QED BY <3>1, <2>11, <2>13, <2>15
  <2>18. Defers(r, f, painting)
    BY <2>14, <2>16 DEF Defers
  <2>19. Sits(f, pg, wt, applied, cs, told, pn, sl, painting) /\ BehindIsUp(f) /\ DirtyIsHeard(f, painting)
    BY <2>9, <2>14, <2>16, <2>18, DeferKeeps DEF DirtyIsHeard
  <2> QED BY <2>16, <2>17, <2>19 DEF Good
<1> QED BY <1>2, <1>3

LEMMA LastAppended ==
  ASSUME NEW S, NEW s \in Seq(S), NEW x \in S
  PROVE  /\ Append(s, x) \in Seq(S) /\ Append(s, x) # <<>> /\ Last(Append(s, x)) = x
         /\ \A i \in DOMAIN s : i \in DOMAIN Append(s, x) /\ Append(s, x)[i] = s[i]
         /\ \A i \in DOMAIN Append(s, x) : i \in DOMAIN s \/ Append(s, x)[i] = x
         /\ Len(s) + 1 \in DOMAIN Append(s, x) /\ Append(s, x)[Len(s) + 1] = x
BY DEF Last

\* The slot is given back: it does not matter that metrics were waiting for it.
LEMMA GivenBackIsGood ==
  ASSUME NEW b \in Attempts, NEW pg, NEW cs, NEW told, NEW pn, NEW sl, want \in Nat, applied \in Nat,
         painting \in BOOLEAN, Sits(b, pg, want, applied, cs, told, pn, sl, painting)
  PROVE  Good(GivenBack(b), pg, want, cs, told, pn, sl, painting)
<1>1. Flying(b.grab) \in Nat /\ (Flying(b.grab) = 0 <=> ~AnyUp(b.grab))
  BY FlyingIs
<1>4. /\ b.cap \in CapFields /\ b.grab \in [Shots -> ShotFields] /\ b.sent \in Seq(Nat)
      /\ b = [cap |-> b.cap, grab |-> b.grab, sent |-> b.sent]
  BY FieldsOf
<1>2. CASE ~(b.cap.behind /\ Flying(b.grab) = 0)
  <2>1. GivenBack(b) = Pumped(b, painting)
    BY <1>2 DEF GivenBack
  <2>2. BehindIsUp(b)
    BY <1>1, <1>2 DEF BehindIsUp
  <2> QED BY <2>1, <2>2, PumpedIsGood
<1>3. CASE b.cap.behind /\ Flying(b.grab) = 0
  <2>1. PICK c : c = [b.cap EXCEPT !.behind = FALSE, !.fits = @ + 1]
    OBVIOUS
  <2>2. /\ c \in CapFields /\ c.behind = FALSE /\ c.soft = b.cap.soft /\ c.force = b.cap.force
        /\ c.dirty = b.cap.dirty /\ c.settle = b.cap.settle /\ c.fits = b.cap.fits + 1
    <3>1. b.cap.fits + 1 \in Nat
      BY <1>4 DEF CapFields
    <3>2. c = [b.cap EXCEPT !.behind = FALSE, !.fits = b.cap.fits + 1]
      BY <2>1
    <3> QED BY <1>4, <3>1, <3>2 DEF CapFields
  <2>3. PICK cmds : cmds = Append(b.sent, want)
    OBVIOUS
  <2>4. /\ cmds \in Seq(Nat) /\ cmds # <<>> /\ Last(cmds) = want
        /\ \A i \in DOMAIN cmds : (i \in DOMAIN b.sent /\ cmds[i] = b.sent[i]) \/ cmds[i] = want
    BY <2>3, FieldsOf, LastAppended
  <2>5. PICK d : d = [cap |-> c, grab |-> b.grab, sent |-> cmds]
    OBVIOUS
  <2>6. d \in Attempts /\ d.cap = c /\ d.grab = b.grab /\ d.sent = cmds
    BY <2>2, <2>4, <2>5, FieldsOf, AttemptOf
  <2>7. GivenBack(b) = Pumped(d, painting)
    <3>1. PICK h : h = [b.cap EXCEPT !.behind = FALSE]
      OBVIOUS
    <3>2. h.behind = FALSE /\ h.fits = b.cap.fits /\ h \in CapFields /\ c = [h EXCEPT !.behind = FALSE, !.fits = @ + 1]
      BY <1>4, <2>1, <3>1 DEF CapFields
    <3>3. PICK e : e = [b EXCEPT !.cap.behind = FALSE]
      OBVIOUS
    <3>4. e = [cap |-> h, grab |-> b.grab, sent |-> b.sent]
      BY <1>4, <3>1, <3>3
    <3>5. (e.cap.behind \/ Flying(e.grab) > 0) = FALSE
      <4>1. e.cap = h /\ e.grab = b.grab
        BY <3>4
      <4>2. Flying(e.grab) = 0
        BY <4>1, <1>3
      <4> QED BY <4>1, <4>2, <3>2
    <3>6. MetricsSent(e, want) = [e EXCEPT !.sent = Append(@, want), !.cap.behind = FALSE, !.cap.fits = @ + 1]
      BY <3>5 DEF MetricsSent
    <3>7. [e EXCEPT !.sent = Append(@, want), !.cap.behind = FALSE, !.cap.fits = @ + 1] = d
      <4>1. PICK f : f = [e EXCEPT !.sent = Append(@, want), !.cap.behind = FALSE, !.cap.fits = @ + 1]
        OBVIOUS
      <4>2. PICK m : m = [h EXCEPT !.behind = FALSE, !.fits = @ + 1]
        OBVIOUS
      <4>3. f = [cap |-> m, grab |-> b.grab, sent |-> Append(b.sent, want)]
        BY <3>4, <4>1, <4>2
      <4> QED BY <3>2, <4>1, <4>2, <4>3, <2>3, <2>5
    <3> QED BY <3>3, <3>6, <3>7, <1>3 DEF GivenBack
  <2>8. /\ SizesKnown(b, want, applied, told) /\ PageIsHeard(pg, applied, cs, told, painting)
        /\ DrawnIsPane(b, want, told, pn) /\ StaleIsFollowed(b, sl, painting) /\ OldIsFollowed(b, pg, cs, told, painting)
        /\ SharpOrPromised(b, pg, want, applied, cs, told, pn, sl, painting) /\ OneUp(b, sl)
    BY DEF Sits
  <2>9. SizesKnown(d, want, applied, told)
    BY <2>4, <2>6, <2>8 DEF SizesKnown
  <2>10. SizeComes(d, want, applied, sl)
    BY <1>1, <1>3, <2>4, <2>6 DEF SizeComes, EndSize, AnyUp, IsUp
  <2>11. DrawnIsPane(d, want, told, pn) /\ StaleIsFollowed(d, sl, painting) /\ OldIsFollowed(d, pg, cs, told, painting)
    BY <2>2, <2>6, <2>8 DEF DrawnIsPane, StaleIsFollowed, OldIsFollowed
  <2>12. SharpOrPromised(d, pg, want, applied, cs, told, pn, sl, painting) /\ OneUp(d, sl) /\ BehindIsUp(d)
    BY <2>2, <2>6, <2>8 DEF SharpOrPromised, Promised, OneUp, BehindIsUp
  <2>13. Sits(d, pg, want, applied, cs, told, pn, sl, painting)
    BY <2>8, <2>9, <2>10, <2>11, <2>12 DEF Sits
  <2> QED BY <2>6, <2>7, <2>12, <2>13, PumpedIsGood
<1> QED BY <1>2, <1>3

LEMMA NowSits ==
  ASSUME CapInv
  PROVE  /\ AtOnce \in Attempts /\ AtOnce.cap = cap /\ AtOnce.grab = grab /\ AtOnce.sent = override
         /\ cap \in CapFields /\ grab \in [Shots -> ShotFields] /\ override \in Seq(Nat)
         /\ Good(AtOnce, page, want, casts, shotSeen, pane, slips, painting)
         /\ page \in Looks /\ want \in Nat /\ applied \in Nat /\ casts \in Seq(Pictures) /\ shotSeen \in HeardTypes
         /\ warm \in BOOLEAN /\ screencast = painting /\ painting \in BOOLEAN
<1>1. CapTyped /\ AtOnce \in Attempts /\ AtOnce.cap = cap /\ AtOnce.grab = grab /\ AtOnce.sent = override
  BY DEF CapInv, CapTyped, AtOnce
<1>2. cap \in CapFields /\ grab \in [Shots -> ShotFields] /\ override \in Seq(Nat)
  BY <1>1 DEF AtOnce, Attempts
<1> QED BY <1>1, <1>2 DEF CapInv, CapTyped, Good

\* The same, of what a step leaves.
LEMMA Then ==
  ASSUME NEW p \in Attempts, cap' = p.cap, grab' = p.grab, override' = p.sent,
         Sits(p, page', want', applied', casts', shotSeen', pane', slips', painting'), BehindIsUp(p),
         DirtyIsHeard(p, painting'),
         page' \in Looks, want' \in Nat, applied' \in Nat, casts' \in Seq(Pictures), shotSeen' \in HeardTypes,
         warm' \in BOOLEAN, screencast' = painting', painting' \in BOOLEAN
  PROVE  CapInv'
<1>1. p = [cap |-> cap', grab |-> grab', sent |-> override']
  BY DEF Attempts
<1>2. CapTyped'
  BY <1>1 DEF CapTyped, AtOnce
<1>3. SizesKnown(AtOnce, want, applied, shotSeen)' /\ SizeComes(AtOnce, want, applied, slips)'
  BY <1>1 DEF AtOnce, Sits, SizesKnown, SizeComes, EndSize
<1>4. PageIsHeard(page, applied, casts, shotSeen, painting)' /\ DrawnIsPane(AtOnce, want, shotSeen, pane)'
  BY <1>1 DEF AtOnce, Sits, PageIsHeard, LastHeard, DrawnIsPane, SharpPane
<1>5. StaleIsFollowed(AtOnce, slips, painting)' /\ OldIsFollowed(AtOnce, page, casts, shotSeen, painting)'
  BY <1>1 DEF AtOnce, Sits, StaleIsFollowed, OldIsFollowed, NoSlip, NewsComes, IsUp
<1>6. SharpOrPromised(AtOnce, page, want, applied, casts, shotSeen, pane, slips, painting)'
  BY <1>1 DEF AtOnce, Sits, SharpOrPromised, Promised, NoSlip, NewsComes, SharpPane
<1>7. OneUp(AtOnce, slips)' /\ BehindIsUp(AtOnce)' /\ DirtyIsHeard(AtOnce, painting)'
  BY <1>1 DEF AtOnce, Sits, OneUp, BehindIsUp, DirtyIsHeard, AnyUp, IsUp
<1>8. Sits(AtOnce, page, want, applied, casts, shotSeen, pane, slips, painting)'
  BY <1>3, <1>4, <1>5, <1>6, <1>7 DEF Sits
<1> QED BY <1>2, <1>7, <1>8 DEF CapInv

LEMMA NewsGoOn ==
  ASSUME NEW cs \in Seq(Pictures), NEW f \in Pictures, NEW told
  PROVE  /\ Append(cs, f) \in Seq(Pictures) /\ LastHeard(Append(cs, f), told) = f
         /\ NewsComes(cs, told) => NewsComes(Append(cs, f), told)
         /\ f # LastHeard(cs, told) => NewsComes(Append(cs, f), told)
<1>1. /\ Append(cs, f) \in Seq(Pictures) /\ Append(cs, f) # <<>> /\ Last(Append(cs, f)) = f
      /\ \A i \in DOMAIN cs : i \in DOMAIN Append(cs, f) /\ Append(cs, f)[i] = cs[i]
      /\ Len(cs) + 1 \in DOMAIN Append(cs, f) /\ Append(cs, f)[Len(cs) + 1] = f
  BY LastAppended
<1>2. LastHeard(Append(cs, f), told) = f
  BY <1>1 DEF LastHeard
<1>3. NewsComes(cs, told) => NewsComes(Append(cs, f), told)
  BY <1>1 DEF NewsComes
<1>4. ASSUME f # LastHeard(cs, told) PROVE NewsComes(Append(cs, f), told)
  <2>1. CASE f # told.signal
    BY <2>1, <1>1 DEF NewsComes
  <2>2. CASE f = told.signal
    <3>1. cs # <<>>
      BY <2>2, <1>4 DEF LastHeard
    <3>2. Last(cs) = cs[Len(cs)] /\ Len(cs) \in DOMAIN cs
      BY <3>1 DEF Last
    <3>3. cs[Len(cs)] # told.signal
      BY <3>1, <3>2, <2>2, <1>4 DEF LastHeard
    <3> QED BY <3>2, <3>3, <1>3 DEF NewsComes
  <2> QED BY <2>1, <2>2
<1> QED BY <1>1, <1>2, <1>3, <1>4

LEMMA CastIs ==
  ASSUME NEW look \in Looks, NEW size \in Nat
  PROVE  Cast(look, size) \in Pictures /\ Cast(look, size).look = look /\ Cast(look, size).size = size
BY DEF Cast, Pictures

LEMMA LaidOutIs ==
  ASSUME CapInv, NEW size \in Nat, LaidOut(size)
  PROVE  /\ applied' = size /\ casts' \in Seq(Pictures)
         /\ NewsComes(casts, shotSeen) => NewsComes(casts', shotSeen)
         /\ painting /\ applied # size => NewsComes(casts', shotSeen)
         /\ PageIsHeard(page, size, casts', shotSeen, painting)
<1>1. /\ page \in Looks /\ casts \in Seq(Pictures) /\ screencast = painting
      /\ PageIsHeard(page, applied, casts, shotSeen, painting)
  BY DEF CapInv, CapTyped, Sits
<1>2. PICK f : f = Cast(page, size)
  OBVIOUS
<1>3. f \in Pictures /\ f.look = page /\ f.size = size
  BY <1>1, <1>2, CastIs
<1>4. CASE screencast /\ applied # size
  <2>1. applied' = size /\ casts' = Append(casts, f)
    BY <1>2, <1>4 DEF LaidOut
  <2>2. f # LastHeard(casts, shotSeen)
    BY <1>1, <1>3, <1>4 DEF PageIsHeard
  <2>3. /\ casts' \in Seq(Pictures) /\ LastHeard(casts', shotSeen) = f
        /\ NewsComes(casts', shotSeen)
    BY <1>1, <1>3, <2>1, <2>2, NewsGoOn
  <2> QED BY <2>1, <2>3, <1>3 DEF PageIsHeard
<1>5. CASE ~(screencast /\ applied # size)
  <2>1. applied' = size /\ casts' = casts
    BY <1>5 DEF LaidOut
  <2> QED BY <2>1, <1>1, <1>5 DEF PageIsHeard
<1> QED BY <1>4, <1>5

LEMMA ChangeStep == ASSUME CapInv, PageChanges PROVE CapInv'
<1>1. /\ AtOnce \in Attempts /\ AtOnce.cap = cap /\ AtOnce.grab = grab /\ AtOnce.sent = override
      /\ page \in Looks /\ want \in Nat /\ applied \in Nat /\ casts \in Seq(Pictures) /\ shotSeen \in HeardTypes
      /\ warm \in BOOLEAN /\ screencast = painting /\ painting \in BOOLEAN
      /\ BehindIsUp(AtOnce) /\ DirtyIsHeard(AtOnce, painting)
      /\ Sits(AtOnce, page, want, applied, casts, shotSeen, pane, slips, painting)
  BY NowSits DEF Good
<1>2. PICK b : b = AtOnce
  OBVIOUS
<1>3. PICK l \in Looks \ {page} :
        page' = l /\ casts' = IF screencast THEN Append(casts, Cast(l, applied)) ELSE casts
  BY DEF PageChanges
<1>4. UNCHANGED <<want, painting, applied, override, warm, grab, screencast, cap, shotSeen, pane, slips>>
  BY DEF PageChanges, wishes
<1>5. PICK f : f = Cast(l, applied)
  OBVIOUS
<1>6. f \in Pictures /\ f.look = l /\ f.size = applied
  BY <1>1, <1>3, <1>5, CastIs
<1>7. /\ SizesKnown(b, want, applied, shotSeen) /\ SizeComes(b, want, applied, slips)
      /\ PageIsHeard(page, applied, casts, shotSeen, painting)
      /\ DrawnIsPane(b, want, shotSeen, pane) /\ StaleIsFollowed(b, slips, painting) /\ OneUp(b, slips)
  BY <1>1, <1>2 DEF Sits
<1>8. painting => /\ casts' \in Seq(Pictures) /\ LastHeard(casts', shotSeen) = f /\ NewsComes(casts', shotSeen)
  <2> SUFFICES ASSUME painting PROVE casts' \in Seq(Pictures) /\ LastHeard(casts', shotSeen) = f /\ NewsComes(casts', shotSeen)
    OBVIOUS
  <2>1. casts' = Append(casts, f)
    BY <1>1, <1>3, <1>5
  <2>2. f # LastHeard(casts, shotSeen)
    BY <1>3, <1>6, <1>7 DEF PageIsHeard
  <2> QED BY <1>1, <1>6, <2>1, <2>2, NewsGoOn
<1>9. casts' \in Seq(Pictures)
  BY <1>1, <1>3, <1>8
<1>10. PageIsHeard(l, applied, casts', shotSeen, painting)
  BY <1>6, <1>8 DEF PageIsHeard
<1>11. /\ OldIsFollowed(b, l, casts', shotSeen, painting)
       /\ SharpOrPromised(b, l, want, applied, casts', shotSeen, pane, slips, painting)
  BY <1>8 DEF OldIsFollowed, SharpOrPromised, Promised
<1>12. Sits(b, l, want, applied, casts', shotSeen, pane, slips, painting)
  BY <1>7, <1>10, <1>11 DEF Sits
<1> QED BY <1>1, <1>2, <1>3, <1>4, <1>9, <1>12, Then

LEMMA TailIs ==
  ASSUME NEW S, NEW s \in Seq(S), s # <<>>
  PROVE  /\ Tail(s) \in Seq(S) /\ Head(s) \in S /\ Head(s) = s[1] /\ 1 \in DOMAIN s
         /\ Tail(s) = <<>> => Last(s) = Head(s)
         /\ Tail(s) # <<>> => Last(Tail(s)) = Last(s)
         /\ \A i \in DOMAIN Tail(s) : i + 1 \in DOMAIN s /\ Tail(s)[i] = s[i + 1]
         /\ \A j \in DOMAIN s : j # 1 => j - 1 \in DOMAIN Tail(s) /\ Tail(s)[j - 1] = s[j]
<1>1. /\ Tail(s) \in Seq(S) /\ Len(Tail(s)) = Len(s) - 1 /\ Head(s) = s[1] /\ 1 \in DOMAIN s
      /\ Len(s) \in Nat /\ Len(s) # 0 /\ DOMAIN s = 1..Len(s) /\ DOMAIN Tail(s) = 1..Len(s) - 1
      /\ \A i \in 1..Len(s) - 1 : Tail(s)[i] = s[i + 1]
  OBVIOUS
<1>2. Tail(s) = <<>> <=> Len(s) = 1
  <2>1. \A t \in Seq(S) : t = <<>> <=> Len(t) = 0
    <3>1. <<>> \in Seq(S) /\ \A seq \in Seq(S) : (seq = <<>>) <=> (Len(seq) = 0)
      BY EmptySeq
    <3> QED BY <3>1
  <2>2. Tail(s) \in Seq(S)
    BY <1>1
  <2>3. Tail(s) = <<>> <=> Len(Tail(s)) = 0
    BY <2>1, <2>2
  <2>4. Len(Tail(s)) = 0 <=> Len(s) = 1
    BY <1>1
  <2> QED BY <2>3, <2>4
<1>3. Head(s) \in S
  BY <1>1
<1>4. Last(s) = s[Len(s)] /\ Last(Tail(s)) = Tail(s)[Len(s) - 1]
  BY <1>1 DEF Last
<1>5. Tail(s) # <<>> => Last(Tail(s)) = Last(s)
  BY <1>1, <1>2, <1>4
<1>6. \A j \in DOMAIN s : j # 1 => j - 1 \in DOMAIN Tail(s) /\ Tail(s)[j - 1] = s[j]
  BY <1>1
<1> QED BY <1>1, <1>2, <1>3, <1>4, <1>5, <1>6

LEMMA ApplyStep == ASSUME CapInv, ChromeApplies PROVE CapInv'
<1>1. /\ AtOnce \in Attempts /\ AtOnce.cap = cap /\ AtOnce.grab = grab /\ AtOnce.sent = override
      /\ page \in Looks /\ want \in Nat /\ applied \in Nat /\ casts \in Seq(Pictures) /\ shotSeen \in HeardTypes
      /\ warm \in BOOLEAN /\ screencast = painting /\ painting \in BOOLEAN
      /\ cap \in CapFields /\ grab \in [Shots -> ShotFields] /\ override \in Seq(Nat)
      /\ BehindIsUp(AtOnce) /\ DirtyIsHeard(AtOnce, painting)
      /\ Sits(AtOnce, page, want, applied, casts, shotSeen, pane, slips, painting)
  BY NowSits DEF Good
<1>2. PICK b : b = AtOnce
  OBVIOUS
<1>3. /\ override # <<>> /\ override' = Tail(override) /\ LaidOut(Head(override)) /\ warm' \in BOOLEAN
      /\ UNCHANGED <<page, want, painting, grab, screencast, cap, shotSeen, pane, slips>>
  BY <1>1 DEF ChromeApplies, wishes
<1>4. PICK rest : rest = Tail(override)
  OBVIOUS
<1>5. PICK size : size = Head(override)
  OBVIOUS
<1>6. /\ rest \in Seq(Nat) /\ size \in Nat /\ size = override[1] /\ 1 \in DOMAIN override
      /\ rest = <<>> => Last(override) = size
      /\ rest # <<>> => Last(rest) = Last(override)
      /\ \A i \in DOMAIN rest : i + 1 \in DOMAIN override /\ rest[i] = override[i + 1]
  BY <1>1, <1>3, <1>4, <1>5, TailIs
<1>7. /\ applied' = size /\ casts' \in Seq(Pictures)
      /\ NewsComes(casts, shotSeen) => NewsComes(casts', shotSeen)
      /\ painting /\ applied # size => NewsComes(casts', shotSeen)
      /\ PageIsHeard(page, size, casts', shotSeen, painting)
  BY <1>3, <1>5, <1>6, LaidOutIs
<1>8. PICK d : d = [cap |-> cap, grab |-> grab, sent |-> rest]
  OBVIOUS
<1>9. d \in Attempts /\ d.cap = cap /\ d.grab = grab /\ d.sent = rest
  BY <1>1, <1>6, <1>8, AttemptOf
<1>10. /\ SizesKnown(b, want, applied, shotSeen) /\ SizeComes(b, want, applied, slips)
       /\ DrawnIsPane(b, want, shotSeen, pane) /\ StaleIsFollowed(b, slips, painting) /\ OneUp(b, slips)
       /\ OldIsFollowed(b, page, casts, shotSeen, painting) /\ BehindIsUp(b) /\ DirtyIsHeard(b, painting)
       /\ SharpOrPromised(b, page, want, applied, casts, shotSeen, pane, slips, painting)
       /\ b.cap = cap /\ b.grab = grab /\ b.sent = override
  BY <1>1, <1>2 DEF Sits
<1>11. SizesKnown(d, want, size, shotSeen)
  BY <1>6, <1>9, <1>10 DEF SizesKnown
<1>12. SizeComes(d, want, size, slips)
  BY <1>3, <1>6, <1>9, <1>10 DEF SizeComes, EndSize
<1>13. /\ DrawnIsPane(d, want, shotSeen, pane) /\ StaleIsFollowed(d, slips, painting) /\ OneUp(d, slips)
       /\ BehindIsUp(d) /\ DirtyIsHeard(d, painting)
  BY <1>9, <1>10 DEF DrawnIsPane, StaleIsFollowed, OneUp, BehindIsUp, DirtyIsHeard
<1>14. OldIsFollowed(d, page, casts', shotSeen, painting)
  BY <1>7, <1>9, <1>10 DEF OldIsFollowed
<1>15. SharpOrPromised(d, page, want, size, casts', shotSeen, pane, slips, painting)
  BY <1>7, <1>9, <1>10 DEF SharpOrPromised, Promised
<1>16. Sits(d, page, want, size, casts', shotSeen, pane, slips, painting)
  BY <1>7, <1>11, <1>12, <1>13, <1>14, <1>15 DEF Sits
<1> QED BY <1>1, <1>3, <1>4, <1>6, <1>7, <1>9, <1>13, <1>16, Then

LEMMA EndStep == ASSUME CapInv, NEW s \in Shots, ChromeEnds(s) PROVE CapInv'
<1>1. /\ AtOnce \in Attempts /\ AtOnce.cap = cap /\ AtOnce.grab = grab /\ AtOnce.sent = override
      /\ page \in Looks /\ want \in Nat /\ applied \in Nat /\ casts \in Seq(Pictures) /\ shotSeen \in HeardTypes
      /\ warm \in BOOLEAN /\ screencast = painting /\ painting \in BOOLEAN
      /\ cap \in CapFields /\ grab \in [Shots -> ShotFields] /\ override \in Seq(Nat)
      /\ BehindIsUp(AtOnce) /\ DirtyIsHeard(AtOnce, painting)
      /\ Sits(AtOnce, page, want, applied, casts, shotSeen, pane, slips, painting)
  BY NowSits DEF Good
<1>2. PICK b : b = AtOnce
  OBVIOUS
<1>3. PICK size : size = grab[s].began
  OBVIOUS
<1>4. grab[s] \in ShotFields /\ size \in Nat
  BY <1>1, <1>3 DEF ShotFields
<1>5. PICK snap : snap = IF s = "late" THEN NoShot
                         ELSE [grab[s] EXCEPT !.stage = "done", !.pic = [look |-> page, size |-> size, kind |-> "shot"]]
  OBVIOUS
<1>6. /\ grab[s].stage = "begun" /\ size \notin Range(override) /\ grab' = [grab EXCEPT ![s] = snap]
      /\ slips' = IF s = "late" /\ applied # size THEN slips \cup {"late"} ELSE slips
      /\ LaidOut(size) /\ warm' = TRUE
      /\ UNCHANGED <<page, override, want, painting, screencast, cap, shotSeen, pane>>
  BY <1>3, <1>5 DEF ChromeEnds, wishes
<1>7. /\ snap \in ShotFields
      /\ s = "late" => snap.stage = "none" /\ snap.began = 0 /\ snap.pic = None
      /\ s # "late" => /\ snap.stage = "done" /\ snap.began = size /\ snap.pic.look = page /\ snap.pic.size = size
                       /\ snap.stale = grab[s].stale
  <2>1. CASE s = "late"
    BY <2>1, <1>5 DEF NoShot, ShotFields
  <2>2. CASE s # "late"
    <3>1. PICK pic : pic = [look |-> page, size |-> size, kind |-> "shot"]
      OBVIOUS
    <3>2. pic \in Pictures /\ pic.look = page /\ pic.size = size
      BY <1>1, <1>4, <3>1 DEF Pictures
    <3>3. snap = [grab[s] EXCEPT !.stage = "done", !.pic = pic]
      BY <2>2, <3>1, <1>5
    <3> QED BY <2>2, <3>2, <3>3, <1>3, <1>4 DEF ShotFields
  <2> QED BY <2>1, <2>2
<1>8. /\ applied' = size /\ casts' \in Seq(Pictures)
      /\ NewsComes(casts, shotSeen) => NewsComes(casts', shotSeen)
      /\ painting /\ applied # size => NewsComes(casts', shotSeen)
      /\ PageIsHeard(page, size, casts', shotSeen, painting)
  BY <1>4, <1>6, LaidOutIs
<1>9. PICK d : d = [cap |-> cap, grab |-> grab', sent |-> override]
  OBVIOUS
<1>10. grab' \in [Shots -> ShotFields] /\ grab'[s] = snap /\ \A q \in Shots : q # s => grab'[q] = grab[q]
  BY <1>1, <1>6, <1>7
<1>11. d \in Attempts /\ d.cap = cap /\ d.grab = grab' /\ d.sent = override
  BY <1>1, <1>9, <1>10, AttemptOf
<1>12. /\ SizesKnown(b, want, applied, shotSeen) /\ SizeComes(b, want, applied, slips)
       /\ DrawnIsPane(b, want, shotSeen, pane) /\ StaleIsFollowed(b, slips, painting) /\ OneUp(b, slips)
       /\ OldIsFollowed(b, page, casts, shotSeen, painting) /\ BehindIsUp(b) /\ DirtyIsHeard(b, painting)
       /\ SharpOrPromised(b, page, want, applied, casts, shotSeen, pane, slips, painting)
       /\ b.cap = cap /\ b.grab = grab /\ b.sent = override
  BY <1>1, <1>2 DEF Sits
<1>13. Shots = {"pump", "page", "late"}
  BY DEF Shots
\* The shots that are up are the same.
<1>14. /\ \A q \in {"pump", "page"} : IsUp(grab', q) <=> IsUp(grab, q)
       /\ grab'["pump"].stale = grab["pump"].stale
  BY <1>6, <1>7, <1>10, <1>13 DEF IsUp
<1>15. /\ DrawnIsPane(d, want, shotSeen, pane) /\ OneUp(d, slips') /\ BehindIsUp(d) /\ DirtyIsHeard(d, painting)
  BY <1>6, <1>11, <1>12, <1>14 DEF DrawnIsPane, OneUp, BehindIsUp, DirtyIsHeard, AnyUp
<1>16. "late" \in slips' \/ slips' = slips
  BY <1>6
<1>17. "late" \notin slips' => ~(s = "late" /\ applied # size)
  BY <1>6
<1>18. StaleIsFollowed(d, slips', painting)
  BY <1>11, <1>12, <1>14, <1>16 DEF StaleIsFollowed, NoSlip
<1>19. SizesKnown(d, want, size, shotSeen)
  <2>1. size <= want
    BY <1>3, <1>12 DEF SizesKnown
  <2>2. snap.began <= want /\ snap.pic.size <= want
    BY <2>1, <1>1, <1>7 DEF None
  <2> QED BY <2>1, <2>2, <1>10, <1>11, <1>12 DEF SizesKnown
<1>20. SizeComes(d, want, size, slips')
  <2> SUFFICES ASSUME "late" \notin slips', ~cap.behind
               PROVE  EndSize(override, size) = want /\ \A q \in {"pump", "page"} : grab'[q].stage = "begun" => grab'[q].began = want
    BY <1>11 DEF SizeComes
  <2>1. EndSize(override, applied) = want /\ \A q \in {"pump", "page"} : grab[q].stage = "begun" => grab[q].began = want
    BY <1>12, <1>16 DEF SizeComes
  <2>2. \A q \in {"pump", "page"} : grab'[q].stage = "begun" => grab'[q].began = want
    BY <2>1, <1>7, <1>10, <1>13
  <2>3. CASE override # <<>>
    BY <2>1, <2>2, <2>3 DEF EndSize
  <2>4. CASE override = <<>>
    <3>1. CASE s = "late"
      BY <2>1, <2>2, <2>4, <3>1, <1>17 DEF EndSize
    <3>2. CASE s # "late"
      <4>1. size = want
        BY <2>1, <3>2, <1>3, <1>6, <1>13
      <4> QED BY <2>2, <2>4, <4>1 DEF EndSize
    <3> QED BY <3>1, <3>2
  <2> QED BY <2>3, <2>4
<1>21. OldIsFollowed(d, page, casts', shotSeen, painting)
  BY <1>7, <1>8, <1>10, <1>11, <1>12, <1>13 DEF OldIsFollowed
<1>22. SharpOrPromised(d, page, want, size, casts', shotSeen, pane, slips', painting)
  <2> SUFFICES ASSUME painting, NoSlip(slips'), ~SharpPane(pane, page, want)
               PROVE  Promised(d, page, want, size, casts', shotSeen)
    BY DEF SharpOrPromised
  <2>1. Promised(b, page, want, applied, casts, shotSeen)
    BY <1>12, <1>16 DEF SharpOrPromised, NoSlip
  <2>2. CASE NewsComes(casts, shotSeen) \/ cap.settle \/ cap.dirty
    BY <2>2, <1>8, <1>11 DEF Promised
  <2>3. CASE applied # want
    BY <2>3, <1>8, <1>11 DEF Promised
  <2>4. CASE s = "late" /\ ~(applied # want)
    <3>1. grab'["pump"] = grab["pump"] /\ grab'["page"] = grab["page"]
      BY <2>4, <1>10, <1>13
    <3>2. size = applied
      BY <2>4, <1>17 DEF NoSlip
    <3> QED BY <2>1, <3>1, <3>2, <1>8, <1>11, <1>12 DEF Promised
  <2>5. CASE s = "page"
    <3>1. grab'["pump"] = grab["pump"]
      BY <2>5, <1>10, <1>13
    <3>2. grab["page"].stage = "begun" /\ grab["page"].began = size
      BY <2>5, <1>3, <1>6
    <3> QED BY <2>1, <3>1, <3>2, <1>8, <1>11, <1>12 DEF Promised
  <2>6. CASE s = "pump"
    <3>1. d.grab["pump"] = snap
      BY <2>6, <1>10, <1>11
    <3>2. size = want => Promised(d, page, want, size, casts', shotSeen)
      BY <2>6, <3>1, <1>7 DEF Promised
    <3>3. size # want => Promised(d, page, want, size, casts', shotSeen)
      BY DEF Promised
    <3> QED BY <3>2, <3>3
  <2> QED BY <2>1, <2>2, <2>3, <2>4, <2>5, <2>6, <1>12, <1>13 DEF Promised
<1>23. Sits(d, page, want, size, casts', shotSeen, pane, slips', painting)
  BY <1>8, <1>15, <1>18, <1>19, <1>20, <1>21, <1>22 DEF Sits
<1> QED BY <1>1, <1>4, <1>6, <1>8, <1>11, <1>15, <1>23, Then

LEMMA HearStep == ASSUME CapInv, CastArrives PROVE CapInv'
<1>1. /\ AtOnce \in Attempts /\ AtOnce.cap = cap /\ AtOnce.grab = grab /\ AtOnce.sent = override
      /\ page \in Looks /\ want \in Nat /\ applied \in Nat /\ casts \in Seq(Pictures) /\ shotSeen \in HeardTypes
      /\ warm \in BOOLEAN /\ screencast = painting /\ painting \in BOOLEAN
      /\ cap \in CapFields /\ grab \in [Shots -> ShotFields] /\ override \in Seq(Nat)
      /\ BehindIsUp(AtOnce) /\ DirtyIsHeard(AtOnce, painting)
      /\ Sits(AtOnce, page, want, applied, casts, shotSeen, pane, slips, painting)
  BY NowSits DEF Good
<1>2. PICK b : b = AtOnce
  OBVIOUS
<1>3. PICK f : f = Head(casts)
  OBVIOUS
<1>4. PICK rest : rest = Tail(casts)
  OBVIOUS
<1>5. /\ casts # <<>> /\ casts' = rest
      /\ UNCHANGED <<page, applied, override, warm, want, painting, grab, screencast, pane, slips>>
  BY <1>4 DEF CastArrives, wishes
<1>6. /\ rest \in Seq(Pictures) /\ f \in Pictures /\ f = casts[1] /\ 1 \in DOMAIN casts
      /\ rest = <<>> => Last(casts) = f
      /\ rest # <<>> => Last(rest) = Last(casts)
      /\ \A i \in DOMAIN rest : i + 1 \in DOMAIN casts /\ rest[i] = casts[i + 1]
      /\ \A j \in DOMAIN casts : j # 1 => j - 1 \in DOMAIN rest /\ rest[j - 1] = casts[j]
  BY <1>1, <1>3, <1>4, <1>5, TailIs
<1>7. /\ SizesKnown(b, want, applied, shotSeen) /\ SizeComes(b, want, applied, slips)
      /\ PageIsHeard(page, applied, casts, shotSeen, painting)
      /\ DrawnIsPane(b, want, shotSeen, pane) /\ StaleIsFollowed(b, slips, painting) /\ OneUp(b, slips)
      /\ OldIsFollowed(b, page, casts, shotSeen, painting) /\ BehindIsUp(b) /\ DirtyIsHeard(b, painting)
      /\ SharpOrPromised(b, page, want, applied, casts, shotSeen, pane, slips, painting)
      /\ b.cap = cap /\ b.grab = grab /\ b.sent = override /\ b \in Attempts
  BY <1>1, <1>2 DEF Sits
<1>8. CASE f = shotSeen.signal
  <2>1. UNCHANGED <<cap, shotSeen>>
    BY <1>3, <1>8 DEF CastArrives
  <2>2. NewsComes(casts, shotSeen) => NewsComes(rest, shotSeen)
    <3> SUFFICES ASSUME NEW j \in DOMAIN casts, casts[j] # shotSeen.signal PROVE NewsComes(rest, shotSeen)
      BY DEF NewsComes
    <3>1. j # 1
      BY <1>6, <1>8
    <3> QED BY <3>1, <1>6 DEF NewsComes
  <2>3. LastHeard(rest, shotSeen) = LastHeard(casts, shotSeen)
    BY <1>5, <1>6, <1>8 DEF LastHeard
  <2>4. PageIsHeard(page, applied, rest, shotSeen, painting)
    BY <2>3, <1>7 DEF PageIsHeard
  <2>5. /\ OldIsFollowed(b, page, rest, shotSeen, painting)
        /\ SharpOrPromised(b, page, want, applied, rest, shotSeen, pane, slips, painting)
    BY <2>2, <1>7 DEF OldIsFollowed, SharpOrPromised, Promised
  <2>6. Sits(b, page, want, applied, rest, shotSeen, pane, slips, painting)
    BY <2>4, <2>5, <1>7 DEF Sits
  <2> QED BY <2>1, <2>6, <1>1, <1>5, <1>6, <1>7, Then
<1>9. CASE f # shotSeen.signal
  <2>1. PICK told : told = [shotSeen EXCEPT !.signal = f]
    OBVIOUS
  <2>2. told \in HeardTypes /\ told.signal = f /\ told.bitmap = shotSeen.bitmap
    BY <2>1, <1>1, <1>6 DEF HeardTypes
  <2>3. shotSeen' = told
    BY <2>1, <1>3, <1>9 DEF CastArrives
  <2>4. /\ cap' \in CapFields /\ cap'.settle = TRUE /\ cap'.dirty = cap.dirty /\ cap'.timer = cap.timer
        /\ cap'.force = cap.force /\ cap'.soft = cap.soft /\ cap'.behind = cap.behind
    <3>1. cap' = [cap EXCEPT !.fresh = @ \/ cap.grace, !.settle = TRUE,
                             !.inCapture = ~ScalesAgree /\ Flying(grab) > 0,
                             !.pending = f,
                             !.cast = IF @ # "none" \/ ~painting THEN @ ELSE IF Ready(cap) THEN "ripe" ELSE "waits"]
      BY <1>3, <1>9 DEF CastArrives
    <3>2. PICK inCapture \in BOOLEAN : inCapture = (~ScalesAgree /\ Flying(grab) > 0)
      OBVIOUS
    <3>4. PICK cast \in {"none", "waits", "ripe"} :
            cast = IF cap.cast # "none" \/ ~painting THEN cap.cast ELSE IF Ready(cap) THEN "ripe" ELSE "waits"
      BY <1>1 DEF CapFields
    <3>5. PICK newly \in BOOLEAN : newly = (cap.fresh \/ cap.grace)
      BY <1>1 DEF CapFields
    <3>6. cap' = [cap EXCEPT !.fresh = newly, !.settle = TRUE, !.inCapture = inCapture, !.pending = f, !.cast = cast]
      <4>1. cap' = [cap EXCEPT !.fresh = (cap.fresh \/ cap.grace), !.settle = TRUE,
                              !.inCapture = (~ScalesAgree /\ Flying(grab) > 0),
                              !.pending = f,
                              !.cast = IF cap.cast # "none" \/ ~painting THEN cap.cast
                                       ELSE IF Ready(cap) THEN "ripe" ELSE "waits"]
        BY <3>1
      <4> QED BY <4>1, <3>2, <3>4, <3>5
    <3>7. PICK c : c = [cap EXCEPT !.fresh = newly, !.settle = TRUE]
      OBVIOUS
    <3>8. /\ c \in CapFields /\ c.settle = TRUE /\ c.dirty = cap.dirty /\ c.timer = cap.timer
          /\ c.force = cap.force /\ c.soft = cap.soft /\ c.behind = cap.behind
      BY <3>7, <1>1 DEF CapFields
    <3>9. cap' = [c EXCEPT !.inCapture = inCapture, !.pending = f, !.cast = cast]
      BY <3>6, <3>7
    <3> QED BY <1>6, <3>8, <3>9 DEF CapFields
  <2>5. PICK d : d = [cap |-> cap', grab |-> grab, sent |-> override]
    OBVIOUS
  <2>6. d \in Attempts /\ d.cap = cap' /\ d.grab = grab /\ d.sent = override
    BY <1>1, <2>4, <2>5, AttemptOf
  <2>7. Defers(b, d, painting)
    BY <2>4, <2>6, <1>7 DEF Defers
  <2>8. /\ SizesKnown(d, want, applied, told) /\ SizeComes(d, want, applied, slips)
        /\ DrawnIsPane(d, want, told, pane) /\ StaleIsFollowed(d, slips, painting) /\ OneUp(d, slips)
    <3>1. Sits(d, page, want, applied, casts, shotSeen, pane, slips, painting)
      BY <1>1, <1>2, <1>7, <2>6, <2>7, DeferKeeps
    <3> QED BY <3>1, <2>2 DEF Sits, SizesKnown, DrawnIsPane
  <2>9. LastHeard(rest, told) = LastHeard(casts, shotSeen)
    BY <1>5, <1>6, <2>2 DEF LastHeard
  <2>10. PageIsHeard(page, applied, rest, told, painting)
    BY <2>9, <1>7 DEF PageIsHeard
  <2>11. /\ OldIsFollowed(d, page, rest, told, painting)
         /\ SharpOrPromised(d, page, want, applied, rest, told, pane, slips, painting)
         /\ BehindIsUp(d) /\ DirtyIsHeard(d, painting)
    BY <1>7, <2>4, <2>6 DEF OldIsFollowed, SharpOrPromised, Promised, BehindIsUp, DirtyIsHeard
  <2>12. Sits(d, page, want, applied, rest, told, pane, slips, painting)
    BY <2>8, <2>10, <2>11 DEF Sits
  <2> QED BY <2>2, <2>3, <2>6, <2>11, <2>12, <1>1, <1>5, <1>6, Then
<1> QED BY <1>8, <1>9

\* The turn of a frame is over.
LEMMA TakenIs ==
  ASSUME CapInv
  PROVE  /\ Taken \in Attempts /\ Good(Taken, page, want, casts, shotSeen, pane, slips, painting)
         /\ Taken.grab = grab /\ Taken.sent = override
         /\ Taken.cap.settle = cap.settle /\ Taken.cap.dirty = cap.dirty /\ Taken.cap.behind = cap.behind
         /\ Taken.cap.timer = cap.timer
<1>1. /\ AtOnce \in Attempts /\ AtOnce.cap = cap /\ AtOnce.grab = grab /\ AtOnce.sent = override
      /\ cap \in CapFields /\ grab \in [Shots -> ShotFields] /\ override \in Seq(Nat) /\ painting \in BOOLEAN
      /\ Good(AtOnce, page, want, casts, shotSeen, pane, slips, painting)
  BY NowSits
<1>2. PICK b : b = AtOnce
  OBVIOUS
<1>3. PICK c : c = [cap EXCEPT !.cast = "none", !.pending = None]
  OBVIOUS
<1>4. /\ c \in CapFields /\ c.settle = cap.settle /\ c.dirty = cap.dirty /\ c.timer = cap.timer /\ c.force = cap.force
      /\ c.soft = cap.soft /\ c.behind = cap.behind
  BY <1>1, <1>3 DEF CapFields
<1>5. PICK d : d = Taken
  OBVIOUS
<1>6. d = [cap |-> c, grab |-> grab, sent |-> override]
  BY <1>3, <1>5 DEF Taken, AtOnce
<1>7. d \in Attempts /\ d.cap = c /\ d.grab = grab /\ d.sent = override
  BY <1>1, <1>4, <1>6, AttemptOf
<1>8. Defers(b, d, painting)
  BY <1>1, <1>2, <1>4, <1>7 DEF Defers
<1>9. Sits(d, page, want, applied, casts, shotSeen, pane, slips, painting) /\ BehindIsUp(d)
  BY <1>1, <1>2, <1>7, <1>8, DeferKeeps DEF Good
<1>10. DirtyIsHeard(d, painting)
  BY <1>1, <1>4, <1>7 DEF Good, DirtyIsHeard
<1> QED BY <1>4, <1>5, <1>7, <1>9, <1>10 DEF Good

\* A step that leaves an attempt as good, all else standing.
LEMMA GoodStep ==
  ASSUME CapInv, NEW p, Leaves(p), Good(p, page, want, casts, shotSeen, pane, slips, painting),
         UNCHANGED <<page, applied, casts, warm, want, painting, screencast, shotSeen, pane, slips>>
  PROVE  CapInv'
<1>1. /\ page \in Looks /\ want \in Nat /\ applied \in Nat /\ casts \in Seq(Pictures) /\ shotSeen \in HeardTypes
      /\ warm \in BOOLEAN /\ screencast = painting /\ painting \in BOOLEAN
  BY NowSits
<1>2. /\ p \in Attempts /\ Sits(p, page, want, applied, casts, shotSeen, pane, slips, painting) /\ BehindIsUp(p)
      /\ DirtyIsHeard(p, painting) /\ cap' = p.cap /\ grab' = p.grab /\ override' = p.sent
  BY DEF Good, Leaves
<1> QED BY <1>1, <1>2, Then

LEMMA AsksStep == ASSUME CapInv, CastAsks PROVE CapInv'
<1>1. /\ want \in Nat /\ applied \in Nat /\ painting = TRUE
  BY NowSits DEF CastAsks
<1>2. PICK b : b = Taken
  OBVIOUS
<1>3. b \in Attempts /\ BehindIsUp(b) /\ Sits(b, page, want, applied, casts, shotSeen, pane, slips, painting)
  BY <1>2, TakenIs DEF Good
<1>4. PICK p : p = Requested(b, TRUE)
  OBVIOUS
<1>5. Good(p, page, want, casts, shotSeen, pane, slips, painting)
  BY <1>1, <1>3, <1>4, RequestedIsGood
<1>6. Leaves(p)
  BY <1>2, <1>4 DEF CastAsks
<1>7. UNCHANGED <<page, applied, casts, warm, want, painting, screencast, shotSeen, pane, slips>>
  <2>1. UNCHANGED <<warm, page, casts, screencast, shotSeen, pane, slips, wishes>> /\ applied' = applied
    BY DEF CastAsks, CastTurn, chromeState
  <2> QED BY <2>1 DEF wishes
<1> QED BY <1>5, <1>6, <1>7, GoodStep

LEMMA DropsStep == ASSUME CapInv, CastDrops PROVE CapInv'
<1>1. PICK p : p = Taken
  OBVIOUS
<1>2. Good(p, page, want, casts, shotSeen, pane, slips, painting)
  BY <1>1, TakenIs
<1>3. Leaves(p)
  BY <1>1 DEF CastDrops
<1>4. UNCHANGED <<page, applied, casts, warm, want, painting, screencast, shotSeen, pane, slips>>
  BY DEF CastDrops, CastTurn, chromeState, wishes
<1> QED BY <1>2, <1>3, <1>4, GoodStep
\* What an attempt keeps does not depend on the frame drawn last.
LEMMA SeenAlike ==
  ASSUME NEW b, NEW pg, NEW wt, NEW ap, NEW cs, NEW told, NEW seen2, NEW pn, NEW sl, NEW on,
         seen2.signal = told.signal, seen2.bitmap = told.bitmap,
         Sits(b, pg, wt, ap, cs, told, pn, sl, on)
  PROVE  Sits(b, pg, wt, ap, cs, seen2, pn, sl, on)
<1>1. SizesKnown(b, wt, ap, seen2) /\ SizeComes(b, wt, ap, sl) /\ OneUp(b, sl) /\ StaleIsFollowed(b, sl, on)
  BY DEF Sits, SizesKnown
<1>2. PageIsHeard(pg, ap, cs, seen2, on) /\ DrawnIsPane(b, wt, seen2, pn)
  BY DEF Sits, PageIsHeard, LastHeard, DrawnIsPane
<1>3. NewsComes(cs, seen2) <=> NewsComes(cs, told)
  BY DEF NewsComes
<1>4. OldIsFollowed(b, pg, cs, seen2, on) /\ SharpOrPromised(b, pg, wt, ap, cs, seen2, pn, sl, on)
  BY <1>3 DEF Sits, OldIsFollowed, SharpOrPromised, Promised
<1> QED BY <1>1, <1>2, <1>4 DEF Sits

\* Other capture fields over the same shots and metrics.
LEMMA Adjusted ==
  ASSUME CapInv, NEW c \in CapFields, c.behind = cap.behind, c.soft = cap.soft, cap.force => c.force,
         painting /\ (cap.dirty \/ cap.settle) => c.dirty \/ c.settle
  PROVE  LET d == [cap |-> c, grab |-> grab, sent |-> override] IN
         /\ d \in Attempts /\ d.cap = c /\ d.grab = grab /\ d.sent = override
         /\ Sits(d, page, want, applied, casts, shotSeen, pane, slips, painting) /\ BehindIsUp(d)
         /\ c.dirty = cap.dirty /\ c.timer = cap.timer => DirtyIsHeard(d, painting)
<1>1. /\ AtOnce \in Attempts /\ AtOnce.cap = cap /\ AtOnce.grab = grab /\ AtOnce.sent = override
      /\ cap \in CapFields /\ grab \in [Shots -> ShotFields] /\ override \in Seq(Nat) /\ painting \in BOOLEAN
      /\ Good(AtOnce, page, want, casts, shotSeen, pane, slips, painting)
  BY NowSits
<1>2. PICK d : d = [cap |-> c, grab |-> grab, sent |-> override]
  OBVIOUS
<1>3. PICK b : b = AtOnce
  OBVIOUS
<1>4. d \in Attempts /\ d.cap = c /\ d.grab = grab /\ d.sent = override
  BY <1>1, <1>2, AttemptOf
<1>5. Defers(b, d, painting)
  BY <1>1, <1>3, <1>4 DEF Defers
<1>6. Sits(d, page, want, applied, casts, shotSeen, pane, slips, painting) /\ BehindIsUp(d)
  BY <1>1, <1>3, <1>4, <1>5, DeferKeeps DEF Good
<1>7. c.dirty = cap.dirty /\ c.timer = cap.timer => DirtyIsHeard(d, painting)
  BY <1>1, <1>4 DEF Good, DirtyIsHeard
<1> QED BY <1>2, <1>4, <1>6, <1>7

LEMMA TimerIs ==
  ASSUME NEW timed, NEW b, Timer(timed, b)
  PROVE  /\ timed /\ Leaves(b)
         /\ UNCHANGED <<page, applied, casts, warm, want, painting, screencast, shotSeen, pane, slips>>
BY DEF Timer, chromeState, wishes

LEMMA IntervalStep == ASSUME CapInv, IntervalPasses PROVE CapInv'
<1>b. PICK b : b = AtOnce
  OBVIOUS
<1>f. /\ b.cap = cap /\ b.grab = grab /\ b.sent = override
      /\ b = [cap |-> b.cap, grab |-> b.grab, sent |-> b.sent]
      /\ b.cap \in CapFields /\ b.grab \in [Shots -> ShotFields] /\ b.sent \in Seq(Nat)
  BY <1>b, NowSits, FieldsOf
<1>1. cap \in CapFields
  BY NowSits
<1>2. PICK turn \in {"none", "waits", "ripe"} : turn = IF cap.cast = "waits" THEN "ripe" ELSE cap.cast
  BY <1>1 DEF CapFields
<1>3. PICK c : c = [cap EXCEPT !.due = TRUE, !.cast = turn]
  OBVIOUS
<1>4. /\ c \in CapFields /\ c.behind = cap.behind /\ c.soft = cap.soft /\ c.force = cap.force
      /\ c.dirty = cap.dirty /\ c.settle = cap.settle /\ c.timer = cap.timer
  BY <1>1, <1>3 DEF CapFields
<1>5. PICK d : d = [cap |-> c, grab |-> grab, sent |-> override]
  OBVIOUS
<1>6. PICK p : p = [b EXCEPT !.cap.due = TRUE, !.cap.cast = IF @ = "waits" THEN "ripe" ELSE @]
  OBVIOUS
<1>7. p = d
  <2>1. PICK k : k = [b.cap EXCEPT !.due = TRUE, !.cast = IF @ = "waits" THEN "ripe" ELSE @]
    OBVIOUS
  <2>2. p = [cap |-> k, grab |-> b.grab, sent |-> b.sent]
    BY <1>f, <1>6, <2>1
  <2>3. k = [cap EXCEPT !.due = TRUE, !.cast = IF cap.cast = "waits" THEN "ripe" ELSE cap.cast]
    BY <1>f, <2>1 DEF CapFields
  <2>4. k = c
    BY <2>3, <1>2, <1>3
  <2> QED BY <1>f, <2>2, <2>4, <1>5
<1>8. Good(d, page, want, casts, shotSeen, pane, slips, painting)
  BY <1>4, <1>5, Adjusted DEF Good
<1>9. Timer(~cap.due /\ NoneRipe, p)
  BY <1>b, <1>6 DEF IntervalPasses
<1> QED BY <1>7, <1>8, <1>9, TimerIs, GoodStep

LEMMA FiresStep == ASSUME CapInv, TimerFires PROVE CapInv'
<1>b. PICK b : b = AtOnce
  OBVIOUS
<1>f. /\ b.cap = cap /\ b.grab = grab /\ b.sent = override
      /\ b = [cap |-> b.cap, grab |-> b.grab, sent |-> b.sent]
      /\ b.cap \in CapFields /\ b.grab \in [Shots -> ShotFields] /\ b.sent \in Seq(Nat)
  BY <1>b, NowSits, FieldsOf
<1>1. cap \in CapFields /\ painting \in BOOLEAN /\ want \in Nat /\ applied \in Nat
  BY NowSits
<1>3. PICK c : c = [cap EXCEPT !.timer = FALSE]
  OBVIOUS
<1>4. /\ c \in CapFields /\ c.behind = cap.behind /\ c.soft = cap.soft /\ c.force = cap.force
      /\ c.dirty = cap.dirty /\ c.settle = cap.settle
  BY <1>1, <1>3 DEF CapFields
<1>5. PICK d : d = [cap |-> c, grab |-> grab, sent |-> override]
  OBVIOUS
<1>6. d = [AtOnce EXCEPT !.cap.timer = FALSE]
  <2>1. PICK e : e = [b EXCEPT !.cap.timer = FALSE]
    OBVIOUS
  <2>2. b.cap = cap /\ b.grab = grab /\ b.sent = override
    BY <1>f
  <2>3. PICK k : k = [b.cap EXCEPT !.timer = FALSE]
    OBVIOUS
  <2>4. e = [cap |-> k, grab |-> b.grab, sent |-> b.sent]
    BY <1>f, <2>1, <2>3
  <2>5. k = c
    BY <2>2, <2>3, <1>3
  <2>6. e = d
    BY <2>2, <2>4, <2>5, <1>5
  <2> QED BY <1>b, <2>1, <2>6
<1>7. d \in Attempts /\ Sits(d, page, want, applied, casts, shotSeen, pane, slips, painting) /\ BehindIsUp(d)
  BY <1>4, <1>5, Adjusted
<1>8. PICK p : p = Pumped(d, painting)
  OBVIOUS
<1>9. Good(p, page, want, casts, shotSeen, pane, slips, painting)
  BY <1>1, <1>7, <1>8, PumpedIsGood
<1>10. Timer(cap.timer /\ cap.due, p)
  BY <1>6, <1>8 DEF TimerFires
<1> QED BY <1>9, <1>10, TimerIs, GoodStep

\* The page has settled: what is drawn then is drawn whatever it shows.
LEMMA SettleStep == ASSUME CapInv, SettleFires PROVE CapInv'
<1>b. PICK b : b = AtOnce
  OBVIOUS
<1>f. /\ b.cap = cap /\ b.grab = grab /\ b.sent = override
      /\ b = [cap |-> b.cap, grab |-> b.grab, sent |-> b.sent]
      /\ b.cap \in CapFields /\ b.grab \in [Shots -> ShotFields] /\ b.sent \in Seq(Nat)
  BY <1>b, NowSits, FieldsOf
<1>1. /\ cap \in CapFields /\ grab \in [Shots -> ShotFields] /\ override \in Seq(Nat)
      /\ painting \in BOOLEAN /\ want \in Nat /\ applied \in Nat
  BY NowSits
<1>2. PICK a : a = [cap EXCEPT !.settle = FALSE, !.force = TRUE]
  OBVIOUS
<1>3. /\ a \in CapFields /\ a.behind = cap.behind /\ a.soft = cap.soft /\ a.force = TRUE /\ a.dirty = cap.dirty
      /\ a.timer = cap.timer
  BY <1>1, <1>2 DEF CapFields
<1>4. PICK e : e = [cap |-> a, grab |-> grab, sent |-> override]
  OBVIOUS
<1>5. e = [AtOnce EXCEPT !.cap.settle = FALSE, !.cap.force = TRUE]
  <2>1. PICK x : x = [b EXCEPT !.cap.settle = FALSE, !.cap.force = TRUE]
    OBVIOUS
  <2>2. b.cap = cap /\ b.grab = grab /\ b.sent = override
    BY <1>f
  <2>3. PICK k : k = [b.cap EXCEPT !.settle = FALSE, !.force = TRUE]
    OBVIOUS
  <2>4. x = [cap |-> k, grab |-> b.grab, sent |-> b.sent]
    BY <1>f, <2>1, <2>3
  <2>5. k = a
    BY <2>2, <2>3, <1>2
  <2>6. x = e
    BY <2>2, <2>4, <2>5, <1>4
  <2> QED BY <1>b, <2>1, <2>6
<1>6. PICK p : p = Requested(e, painting)
  OBVIOUS
<1>7. Timer(cap.settle /\ NoneRipe, p)
  BY <1>5, <1>6 DEF SettleFires
<1>8. CASE painting
  <2>1. PICK c : c = [a EXCEPT !.dirty = TRUE]
    OBVIOUS
  <2>2. c \in CapFields /\ c.behind = cap.behind /\ c.soft = cap.soft /\ c.force = TRUE /\ c.dirty = TRUE
    BY <1>3, <2>1 DEF CapFields
  <2>3. PICK d : d = [cap |-> c, grab |-> grab, sent |-> override]
    OBVIOUS
  <2>4. d \in Attempts /\ Sits(d, page, want, applied, casts, shotSeen, pane, slips, painting) /\ BehindIsUp(d)
    BY <2>2, <2>3, Adjusted
  <2>5. p = Pumped(d, painting)
    <3>1. PICK x : x = [e EXCEPT !.cap.dirty = TRUE]
      OBVIOUS
    <3>2. e = [cap |-> e.cap, grab |-> e.grab, sent |-> e.sent] /\ e.cap = a /\ e.grab = grab /\ e.sent = override
      BY <1>4
    <3>3. PICK k : k = [e.cap EXCEPT !.dirty = TRUE]
      OBVIOUS
    <3>4. x = [cap |-> k, grab |-> e.grab, sent |-> e.sent]
      BY <3>1, <3>2, <3>3
    <3>5. k = c
      BY <2>1, <3>2, <3>3
    <3>6. x = d
      BY <2>3, <3>2, <3>4, <3>5
    <3> QED BY <1>6, <1>8, <3>1, <3>6 DEF Requested
  <2> QED BY <1>1, <1>7, <2>4, <2>5, PumpedIsGood, TimerIs, GoodStep
<1>9. CASE ~painting
  <2>1. p = e
    BY <1>6, <1>9 DEF Requested
  <2>2. Good(e, page, want, casts, shotSeen, pane, slips, painting)
    BY <1>3, <1>4, <1>9, Adjusted DEF Good
  <2> QED BY <1>7, <2>1, <2>2, TimerIs, GoodStep
<1> QED BY <1>1, <1>8, <1>9

LEMMA GraceStep == ASSUME CapInv, GraceEnds PROVE CapInv'
<1>b. PICK b : b = AtOnce
  OBVIOUS
<1>f. /\ b.cap = cap /\ b.grab = grab /\ b.sent = override
      /\ b = [cap |-> b.cap, grab |-> b.grab, sent |-> b.sent]
      /\ b.cap \in CapFields /\ b.grab \in [Shots -> ShotFields] /\ b.sent \in Seq(Nat)
  BY <1>b, NowSits, FieldsOf
<1>1. /\ cap \in CapFields /\ painting \in BOOLEAN /\ want \in Nat /\ applied \in Nat
  BY NowSits
<1>2. PICK c : c = [cap EXCEPT !.grace = FALSE, !.fresh = FALSE]
  OBVIOUS
<1>3. /\ c \in CapFields /\ c.behind = cap.behind /\ c.soft = cap.soft /\ c.force = cap.force
      /\ c.dirty = cap.dirty /\ c.settle = cap.settle /\ c.timer = cap.timer
  BY <1>1, <1>2 DEF CapFields
<1>4. PICK d : d = [cap |-> c, grab |-> grab, sent |-> override]
  OBVIOUS
<1>5. d = [AtOnce EXCEPT !.cap.grace = FALSE, !.cap.fresh = FALSE]
  <2>1. PICK x : x = [b EXCEPT !.cap.grace = FALSE, !.cap.fresh = FALSE]
    OBVIOUS
  <2>2. b.cap = cap /\ b.grab = grab /\ b.sent = override
    BY <1>f
  <2>3. PICK k : k = [b.cap EXCEPT !.grace = FALSE, !.fresh = FALSE]
    OBVIOUS
  <2>4. x = [cap |-> k, grab |-> b.grab, sent |-> b.sent]
    BY <1>f, <2>1, <2>3
  <2>5. k = c
    BY <2>2, <2>3, <1>2
  <2>6. x = d
    BY <2>2, <2>4, <2>5, <1>4
  <2> QED BY <1>b, <2>1, <2>6
<1>6. Good(d, page, want, casts, shotSeen, pane, slips, painting)
  BY <1>3, <1>4, Adjusted DEF Good
<1>7. PICK p : p = IF cap.fresh THEN d ELSE Requested(d, painting)
  OBVIOUS
<1>8. Good(p, page, want, casts, shotSeen, pane, slips, painting)
  <2>1. Good(Requested(d, painting), page, want, casts, shotSeen, pane, slips, painting)
    BY <1>1, <1>6, RequestedIsGood DEF Good
  <2> QED BY <1>6, <1>7, <2>1
<1>9. Timer(cap.grace /\ NoneRipe, p)
  BY <1>5, <1>7 DEF GraceEnds
<1> QED BY <1>8, <1>9, TimerIs, GoodStep

LEMMA FittedStep == ASSUME CapInv, MetricsFitted PROVE CapInv'
<1>b. PICK b : b = AtOnce
  OBVIOUS
<1>f. /\ b.cap = cap /\ b.grab = grab /\ b.sent = override
      /\ b = [cap |-> b.cap, grab |-> b.grab, sent |-> b.sent]
      /\ b.cap \in CapFields /\ b.grab \in [Shots -> ShotFields] /\ b.sent \in Seq(Nat)
  BY <1>b, NowSits, FieldsOf
<1>1. /\ cap \in CapFields /\ painting \in BOOLEAN /\ screencast = painting /\ want \in Nat /\ applied \in Nat
      /\ override \in Seq(Nat)
  BY NowSits
<1>2. cap.fits - 1 \in Nat
  BY <1>1 DEF MetricsFitted, CapFields
<1>3. PICK c : c = [cap EXCEPT !.fits = cap.fits - 1]
  OBVIOUS
<1>4. /\ c \in CapFields /\ c.behind = cap.behind /\ c.soft = cap.soft /\ c.force = cap.force
      /\ c.dirty = cap.dirty /\ c.settle = cap.settle /\ c.timer = cap.timer
  BY <1>1, <1>2, <1>3 DEF CapFields
<1>5. PICK d : d = [cap |-> c, grab |-> grab, sent |-> override]
  OBVIOUS
<1>6. d = [AtOnce EXCEPT !.cap.fits = @ - 1]
  <2>1. PICK x : x = [b EXCEPT !.cap.fits = @ - 1]
    OBVIOUS
  <2>2. b.cap = cap /\ b.grab = grab /\ b.sent = override
    BY <1>f
  <2>3. PICK k : k = [b.cap EXCEPT !.fits = @ - 1]
    OBVIOUS
  <2>4. x = [cap |-> k, grab |-> b.grab, sent |-> b.sent]
    BY <1>f, <2>1, <2>3
  <2>5. k = c
    BY <2>2, <2>3, <1>3
  <2>6. x = d
    BY <2>2, <2>4, <2>5, <1>5
  <2> QED BY <1>b, <2>1, <2>6
<1>7. Good(d, page, want, casts, shotSeen, pane, slips, painting)
  BY <1>4, <1>5, Adjusted DEF Good
<1>8. PICK p : p = Invalidated(d)
  OBVIOUS
<1>9. Good(p, page, want, casts, shotSeen, pane, slips, painting)
  BY <1>1, <1>7, <1>8, InvalidatedIsGood
<1>10. Leaves(p)
  BY <1>6, <1>8 DEF MetricsFitted
<1>11. UNCHANGED <<page, applied, casts, warm, want, painting, screencast, shotSeen, pane, slips>>
  BY DEF MetricsFitted, chromeState, wishes
<1> QED BY <1>9, <1>10, <1>11, GoodStep

LEMMA AskPaintStep == ASSUME CapInv, AskPaint PROVE CapInv'
<1>1. /\ painting \in BOOLEAN /\ screencast = painting /\ want \in Nat /\ applied \in Nat
      /\ Good(AtOnce, page, want, casts, shotSeen, pane, slips, painting)
  BY NowSits
<1>2. PICK b : b = AtOnce
  OBVIOUS
<1>3. PICK p : p = Invalidated(b)
  OBVIOUS
<1>4. Good(p, page, want, casts, shotSeen, pane, slips, painting)
  BY <1>1, <1>2, <1>3, InvalidatedIsGood
<1>5. Leaves(p)
  BY <1>2, <1>3 DEF AskPaint
<1>6. UNCHANGED <<page, applied, casts, warm, want, painting, screencast, shotSeen, pane, slips>>
  BY DEF AskPaint, chromeState, wishes
<1> QED BY <1>4, <1>5, <1>6, GoodStep

LEMMA RaiseStep == ASSUME CapInv, RaiseFrameRate PROVE CapInv'
<1>b. PICK b : b = AtOnce
  OBVIOUS
<1>f. /\ b.cap = cap /\ b.grab = grab /\ b.sent = override
      /\ b = [cap |-> b.cap, grab |-> b.grab, sent |-> b.sent]
      /\ b.cap \in CapFields /\ b.grab \in [Shots -> ShotFields] /\ b.sent \in Seq(Nat)
  BY <1>b, NowSits, FieldsOf
<1>1. cap \in CapFields /\ painting \in BOOLEAN /\ want \in Nat /\ applied \in Nat
  BY NowSits
<1>3. PICK c : c = [cap EXCEPT !.due = TRUE]
  OBVIOUS
<1>4. /\ c \in CapFields /\ c.behind = cap.behind /\ c.soft = cap.soft /\ c.force = cap.force
      /\ c.dirty = cap.dirty /\ c.settle = cap.settle /\ c.timer = cap.timer
  BY <1>1, <1>3 DEF CapFields
<1>5. PICK d : d = [cap |-> c, grab |-> grab, sent |-> override]
  OBVIOUS
<1>6. d = [AtOnce EXCEPT !.cap.due = TRUE]
  <2>1. PICK x : x = [b EXCEPT !.cap.due = TRUE]
    OBVIOUS
  <2>2. b.cap = cap /\ b.grab = grab /\ b.sent = override
    BY <1>f
  <2>3. PICK k : k = [b.cap EXCEPT !.due = TRUE]
    OBVIOUS
  <2>4. x = [cap |-> k, grab |-> b.grab, sent |-> b.sent]
    BY <1>f, <2>1, <2>3
  <2>5. k = c
    BY <2>2, <2>3, <1>3
  <2>6. x = d
    BY <2>2, <2>4, <2>5, <1>5
  <2> QED BY <1>b, <2>1, <2>6
<1>7. Good(d, page, want, casts, shotSeen, pane, slips, painting)
  BY <1>4, <1>5, Adjusted DEF Good
<1>8. PICK p : p = Rearmed(d)
  OBVIOUS
<1>9. Good(p, page, want, casts, shotSeen, pane, slips, painting)
  BY <1>1, <1>7, <1>8, RearmedIsGood
<1>10. Leaves(p)
  BY <1>6, <1>8 DEF RaiseFrameRate
<1>11. UNCHANGED <<page, applied, casts, warm, want, painting, screencast, shotSeen, pane, slips>>
  BY DEF RaiseFrameRate, chromeState, wishes
<1> QED BY <1>9, <1>10, <1>11, GoodStep

\* The attempt as it stands, part by part.
LEMMA Stands ==
  ASSUME CapInv
  PROVE  LET b == AtOnce IN
         /\ SizesKnown(b, want, applied, shotSeen) /\ SizeComes(b, want, applied, slips)
         /\ PageIsHeard(page, applied, casts, shotSeen, painting)
         /\ DrawnIsPane(b, want, shotSeen, pane) /\ StaleIsFollowed(b, slips, painting) /\ OneUp(b, slips)
         /\ OldIsFollowed(b, page, casts, shotSeen, painting)
         /\ SharpOrPromised(b, page, want, applied, casts, shotSeen, pane, slips, painting)
         /\ BehindIsUp(b) /\ DirtyIsHeard(b, painting)
         /\ b \in Attempts /\ b.cap = cap /\ b.grab = grab /\ b.sent = override
         /\ b = [cap |-> b.cap, grab |-> b.grab, sent |-> b.sent]
<1>1. AtOnce = [cap |-> cap, grab |-> grab, sent |-> override]
  BY DEF AtOnce
<1>2. AtOnce \in Attempts /\ AtOnce.cap = cap /\ AtOnce.grab = grab /\ AtOnce.sent = override
  BY NowSits
<1>3. AtOnce = [cap |-> AtOnce.cap, grab |-> AtOnce.grab, sent |-> AtOnce.sent]
  BY <1>2, FieldsOf
<1>4. /\ SizesKnown(AtOnce, want, applied, shotSeen) /\ SizeComes(AtOnce, want, applied, slips)
      /\ PageIsHeard(page, applied, casts, shotSeen, painting)
      /\ DrawnIsPane(AtOnce, want, shotSeen, pane) /\ StaleIsFollowed(AtOnce, slips, painting)
      /\ OneUp(AtOnce, slips) /\ OldIsFollowed(AtOnce, page, casts, shotSeen, painting)
      /\ SharpOrPromised(AtOnce, page, want, applied, casts, shotSeen, pane, slips, painting)
      /\ BehindIsUp(AtOnce) /\ DirtyIsHeard(AtOnce, painting)
  BY DEF CapInv, Sits
<1> QED BY <1>2, <1>3, <1>4

\* A frame is drawn; a shot begun before it is stale, and the settle or the pump will follow it.
LEMMA DrawStep == ASSUME CapInv, CastDraws PROVE CapInv'
<1>1. /\ page \in Looks /\ want \in Nat /\ applied \in Nat /\ casts \in Seq(Pictures) /\ shotSeen \in HeardTypes
      /\ warm \in BOOLEAN /\ screencast = painting /\ painting \in BOOLEAN
      /\ cap \in CapFields /\ grab \in [Shots -> ShotFields] /\ override \in Seq(Nat)
  BY NowSits
<1>2. PICK f : f = cap.pending
  OBVIOUS
<1>3. f \in Pictures \cup {None} /\ f.size = want
  BY <1>1, <1>2 DEF CapFields, CastDraws, Drawable
<1>4. PICK told : told = [shotSeen EXCEPT !.cast = f]
  OBVIOUS
<1>5. told \in HeardTypes /\ told.signal = shotSeen.signal /\ told.bitmap = shotSeen.bitmap
  BY <1>1, <1>3, <1>4 DEF HeardTypes
<1>6. /\ shotSeen' = told /\ painting = TRUE
      /\ UNCHANGED <<page, applied, casts, warm, want, painting, screencast>>
  BY <1>2, <1>4 DEF CastDraws, CastTurn, chromeState, wishes
<1>7. PICK b : b = Taken
  OBVIOUS
<1>8. /\ b \in Attempts /\ Sits(b, page, want, applied, casts, shotSeen, pane, slips, painting) /\ BehindIsUp(b)
      /\ DirtyIsHeard(b, painting) /\ b.grab = grab /\ b.sent = override
      /\ b.cap.settle = cap.settle /\ b.cap.dirty = cap.dirty /\ b.cap.behind = cap.behind /\ b.cap.timer = cap.timer
  BY <1>7, TakenIs DEF Good
<1>9. Sits(b, page, want, applied, casts, told, pane, slips, painting)
  BY <1>5, <1>8, SeenAlike
<1>10. CASE shotSeen.cast # None /\ shotSeen.cast.size = want /\ shotSeen.cast.look # f.look
  <2>1. PICK old \in BOOLEAN : old = (grab["pump"] # NoShot)
    OBVIOUS
  <2>2. PICK p : p = [b EXCEPT !.cap.soft = TRUE, !.cap.force = FALSE, !.cap.due = FALSE,
                               !.cap.expedite = FALSE, !.grab["pump"].stale = old]
    OBVIOUS
  <2>3. /\ Leaves(p)
        /\ slips' = IF ~cap.settle /\ ~cap.dirty THEN slips \cup {"stale"} ELSE slips
        /\ Painted(f, TRUE)
    <3>1. Leaves([b EXCEPT !.cap.soft = TRUE, !.cap.force = FALSE, !.cap.due = FALSE,
                           !.cap.expedite = FALSE, !.grab["pump"].stale = (grab["pump"] # NoShot)])
      BY <1>2, <1>7, <1>10 DEF CastDraws
    <3>2. Leaves(p)
      BY <2>1, <2>2, <3>1
    <3> QED BY <3>2, <1>2, <1>10 DEF CastDraws
  <2>4. PICK c : c = [b.cap EXCEPT !.soft = TRUE, !.force = FALSE, !.due = FALSE, !.expedite = FALSE]
    OBVIOUS
  <2>5. /\ b.cap \in CapFields /\ b.grab \in [Shots -> ShotFields] /\ b.sent \in Seq(Nat)
        /\ b = [cap |-> b.cap, grab |-> b.grab, sent |-> b.sent]
    BY <1>8, FieldsOf
  <2>6. /\ c \in CapFields /\ c.soft = TRUE /\ c.settle = cap.settle /\ c.dirty = cap.dirty
        /\ c.behind = cap.behind /\ c.timer = cap.timer
    <3>1. PICK h : h = [b.cap EXCEPT !.soft = TRUE, !.force = FALSE]
      OBVIOUS
    <3>2. /\ h \in CapFields /\ h.soft = TRUE /\ h.settle = cap.settle /\ h.dirty = cap.dirty
          /\ h.behind = cap.behind /\ h.timer = cap.timer
      BY <1>8, <2>5, <3>1 DEF CapFields
    <3>3. c = [h EXCEPT !.due = FALSE, !.expedite = FALSE]
      BY <2>4, <3>1
    <3> QED BY <3>2, <3>3 DEF CapFields
  <2>7. PICK snap : snap = [grab["pump"] EXCEPT !.stale = old]
    OBVIOUS
  <2>8. /\ snap \in ShotFields /\ snap.stage = grab["pump"].stage /\ snap.began = grab["pump"].began
        /\ snap.pic = grab["pump"].pic
    BY <1>1, <2>1, <2>7 DEF ShotFields, Shots
  <2>9. PICK g : g = [b.grab EXCEPT !["pump"] = snap]
    OBVIOUS
  <2>10. /\ g \in [Shots -> ShotFields] /\ g["pump"] = snap /\ g["page"] = grab["page"] /\ g["late"] = grab["late"]
    BY <1>1, <1>8, <2>8, <2>9 DEF Shots
  <2>11. PICK d : d = [cap |-> c, grab |-> g, sent |-> b.sent]
    OBVIOUS
  <2>12. d \in Attempts /\ d.cap = c /\ d.grab = g /\ d.sent = override
    BY <1>8, <2>5, <2>6, <2>10, <2>11, AttemptOf
  <2>13. p = d
    <3>1. PICK g2 : g2 = [b.grab EXCEPT !["pump"].stale = old]
      OBVIOUS
    <3>2. g2 = g
      BY <1>8, <2>7, <2>9, <3>1
    <3>3. p = [cap |-> c, grab |-> g2, sent |-> b.sent]
      BY <2>2, <2>4, <2>5, <3>1
    <3> QED BY <2>11, <3>2, <3>3
  <2>14. /\ SizesKnown(b, want, applied, told) /\ SizeComes(b, want, applied, slips)
         /\ PageIsHeard(page, applied, casts, told, painting)
         /\ OldIsFollowed(b, page, casts, told, painting) /\ OneUp(b, slips)
    BY <1>9 DEF Sits
  <2>15. SizesKnown(d, want, applied, told)
    <3>1. \A s \in Shots : d.grab[s].began = b.grab[s].began /\ d.grab[s].pic = b.grab[s].pic
      BY <1>8, <2>8, <2>10, <2>12 DEF Shots
    <3> QED BY <1>8, <2>12, <2>14, <3>1 DEF SizesKnown
  <2>16. SizeComes(d, want, applied, slips')
    BY <1>8, <2>3, <2>6, <2>8, <2>10, <2>12, <2>14 DEF SizeComes
  <2>17. \A s \in {"pump", "page"} : d.grab[s].stage = b.grab[s].stage
    BY <1>8, <2>8, <2>10, <2>12
  <2>18. DrawnIsPane(d, want, told, pane') /\ OneUp(d, slips') /\ BehindIsUp(d) /\ DirtyIsHeard(d, painting)
    BY <1>8, <2>3, <2>6, <2>12, <2>14, <2>17 DEF DrawnIsPane, OneUp, BehindIsUp, DirtyIsHeard, AnyUp, IsUp
  <2>19. OldIsFollowed(d, page, casts, told, painting)
    BY <1>8, <2>6, <2>8, <2>10, <2>12, <2>14 DEF OldIsFollowed
  <2>20. NoSlip(slips') => d.cap.settle \/ d.cap.dirty
    BY <2>3, <2>6, <2>12 DEF NoSlip
  <2>21. /\ StaleIsFollowed(d, slips', painting)
         /\ SharpOrPromised(d, page, want, applied, casts, told, pane', slips', painting)
    BY <2>20 DEF StaleIsFollowed, SharpOrPromised, Promised
  <2>22. Sits(d, page, want, applied, casts, told, pane', slips', painting)
    BY <2>14, <2>15, <2>16, <2>18, <2>19, <2>21 DEF Sits
  <2>23. cap' = d.cap /\ grab' = d.grab /\ override' = d.sent
    BY <2>3, <2>13 DEF Leaves
  <2> QED BY <1>1, <1>5, <1>6, <2>12, <2>18, <2>22, <2>23, Then
<1>11. CASE ~(shotSeen.cast # None /\ shotSeen.cast.size = want /\ shotSeen.cast.look # f.look)
  <2>1. Leaves(b) /\ UNCHANGED <<slips, pane>>
    BY <1>2, <1>7, <1>11 DEF CastDraws
  <2>2. cap' = b.cap /\ grab' = b.grab /\ override' = b.sent
    BY <2>1 DEF Leaves
  <2> QED BY <1>1, <1>5, <1>6, <1>8, <1>9, <2>1, <2>2, Then
<1> QED BY <1>10, <1>11

\* A step that leaves an attempt as good, where what was shown or let through may differ.
LEMMA GoodLeft ==
  ASSUME CapInv, NEW p, Leaves(p), Good(p, page, want, casts, shotSeen', pane', slips', painting),
         shotSeen' \in HeardTypes,
         UNCHANGED <<page, applied, casts, warm, want, painting, screencast>>
  PROVE  CapInv'
<1>1. /\ page \in Looks /\ want \in Nat /\ applied \in Nat /\ casts \in Seq(Pictures)
      /\ warm \in BOOLEAN /\ screencast = painting /\ painting \in BOOLEAN
  BY NowSits
<1>2. /\ p \in Attempts /\ Sits(p, page, want, applied, casts, shotSeen', pane', slips', painting) /\ BehindIsUp(p)
      /\ DirtyIsHeard(p, painting) /\ cap' = p.cap /\ grab' = p.grab /\ override' = p.sent
  BY DEF Good, Leaves
<1> QED BY <1>1, <1>2, Then

\* A screenshot has come: it is drawn, or nothing of it is needed.
LEMMA ShotStep1 == ASSUME CapInv, ShotDraws, CaptureAssumption PROVE CapInv'
<1>1. /\ page \in Looks /\ want \in Nat /\ applied \in Nat /\ casts \in Seq(Pictures) /\ shotSeen \in HeardTypes
      /\ warm \in BOOLEAN /\ screencast = painting /\ painting \in BOOLEAN
      /\ cap \in CapFields /\ grab \in [Shots -> ShotFields] /\ override \in Seq(Nat)
  BY NowSits
<1>2. PICK b : b = AtOnce
  OBVIOUS
<1>3. /\ SizesKnown(b, want, applied, shotSeen) /\ SizeComes(b, want, applied, slips)
      /\ PageIsHeard(page, applied, casts, shotSeen, painting)
      /\ DrawnIsPane(b, want, shotSeen, pane) /\ StaleIsFollowed(b, slips, painting) /\ OneUp(b, slips)
      /\ OldIsFollowed(b, page, casts, shotSeen, painting)
      /\ SharpOrPromised(b, page, want, applied, casts, shotSeen, pane, slips, painting)
      /\ b \in Attempts /\ b.cap = cap /\ b.grab = grab /\ b.sent = override
      /\ b = [cap |-> b.cap, grab |-> b.grab, sent |-> b.sent]
  BY <1>2, Stands
<1>4. PICK pic : pic = grab["pump"].pic
  OBVIOUS
<1>5. PICK used \in BOOLEAN : used = (~grab["pump"].stale \/ cap.force)
  OBVIOUS
<1>6. PICK drawn \in BOOLEAN : drawn = (used /\ (shotSeen.bitmap # pic \/ cap.soft \/ cap.force))
  OBVIOUS
<1>7. PICK told : told = IF used THEN [shotSeen EXCEPT !.bitmap = pic] ELSE shotSeen
  OBVIOUS
<1>8. PICK soft \in BOOLEAN : soft = (cap.soft /\ ~used)
  OBVIOUS
<1>9. PICK force \in BOOLEAN : force = (cap.force /\ ~drawn)
  OBVIOUS
<1>10. PICK hurry \in BOOLEAN : hurry = (cap.expedite /\ ~drawn)
  OBVIOUS
<1>11. PICK c : c = [cap EXCEPT !.soft = soft, !.force = force, !.expedite = hurry]
  OBVIOUS
<1>12. /\ c \in CapFields /\ c.soft = soft /\ c.force = force /\ c.settle = cap.settle /\ c.dirty = cap.dirty
       /\ c.behind = cap.behind /\ c.timer = cap.timer
  BY <1>1, <1>11 DEF CapFields
<1>13. PICK g : g = [grab EXCEPT !["pump"] = NoShot]
  OBVIOUS
<1>14. NoShot \in ShotFields /\ NoShot.stage = "none" /\ NoShot.began = 0 /\ NoShot.pic = None /\ None.size = 0
  BY DEF NoShot, ShotFields, None
<1>15. /\ g \in [Shots -> ShotFields] /\ g["pump"] = NoShot /\ g["page"] = grab["page"] /\ g["late"] = grab["late"]
  BY <1>1, <1>13, <1>14 DEF Shots
<1>16. PICK d : d = [cap |-> c, grab |-> g, sent |-> override]
  OBVIOUS
<1>17. d \in Attempts /\ d.cap = c /\ d.grab = g /\ d.sent = override
  BY <1>1, <1>12, <1>15, <1>16, AttemptOf
<1>18. PICK e : e = [b EXCEPT !.grab["pump"] = NoShot, !.cap.soft = soft, !.cap.force = force, !.cap.expedite = hurry]
  OBVIOUS
<1>19. e = d
  <2>1. PICK g2 : g2 = [b.grab EXCEPT !["pump"] = NoShot]
    OBVIOUS
  <2>2. PICK c2 : c2 = [b.cap EXCEPT !.soft = soft, !.force = force, !.expedite = hurry]
    OBVIOUS
  <2>3. g2 = g /\ c2 = c
    BY <1>3, <1>11, <1>13, <2>1, <2>2
  <2>4. e = [cap |-> c2, grab |-> g2, sent |-> b.sent]
    BY <1>3, <1>18, <2>1, <2>2
  <2> QED BY <1>3, <1>16, <2>3, <2>4
<1>20. /\ grab["pump"].stage = "done" /\ Leaves(GivenBack(d)) /\ shotSeen' = told
       /\ IF drawn THEN Painted(pic, FALSE) ELSE UNCHANGED pane
       /\ UNCHANGED <<page, applied, casts, warm, want, painting, screencast, slips>>
  <2>1. [AtOnce EXCEPT !.grab["pump"] = NoShot, !.cap.soft = @ /\ ~used, !.cap.force = @ /\ ~drawn,
                       !.cap.expedite = @ /\ ~drawn] = e
    <3>1. [b EXCEPT !.grab["pump"] = NoShot, !.cap.soft = @ /\ ~used, !.cap.force = @ /\ ~drawn,
                    !.cap.expedite = @ /\ ~drawn]
          = [b EXCEPT !.grab["pump"] = NoShot, !.cap.soft = (cap.soft /\ ~used), !.cap.force = (cap.force /\ ~drawn),
                      !.cap.expedite = (cap.expedite /\ ~drawn)]
      BY <1>3
    <3> QED BY <3>1, <1>2, <1>8, <1>9, <1>10, <1>18
  <2>2. Leaves(GivenBack(d))
    BY <2>1, <1>4, <1>5, <1>6, <1>19 DEF ShotDraws
  <2>3. shotSeen' = told
    BY <1>4, <1>5, <1>7 DEF ShotDraws
  <2>4. IF drawn THEN Painted(pic, FALSE) ELSE UNCHANGED pane
    BY <1>4, <1>5, <1>6 DEF ShotDraws
  <2> QED BY <2>2, <2>3, <2>4 DEF ShotDraws, wishes
<1>21. grab["pump"] \in ShotFields /\ pic \in Pictures \cup {None}
  BY <1>1, <1>4 DEF ShotFields, Shots
<1>22. /\ told \in HeardTypes /\ told.signal = shotSeen.signal
       /\ used => told.bitmap = pic
       /\ ~used => told.bitmap = shotSeen.bitmap
  BY <1>1, <1>7, <1>21 DEF HeardTypes
<1>23. SizesKnown(d, want, applied, told)
  <2>1. told.bitmap.size <= want
    BY <1>3, <1>4, <1>22 DEF SizesKnown, Shots
  <2>2. 0 <= want
    BY <1>1
  <2>3. \A s \in Shots : d.grab[s].began <= want /\ d.grab[s].pic.size <= want
    BY <1>3, <1>14, <1>15, <1>17, <2>2 DEF SizesKnown, Shots
  <2> QED BY <1>3, <1>17, <2>1, <2>3 DEF SizesKnown
<1>24. SizeComes(d, want, applied, slips) /\ OneUp(d, slips)
  BY <1>3, <1>12, <1>14, <1>15, <1>17 DEF SizeComes, OneUp, IsUp
<1>25. PageIsHeard(page, applied, casts, told, painting)
  BY <1>3, <1>22 DEF PageIsHeard, LastHeard
<1>26. StaleIsFollowed(d, slips, painting) /\ OldIsFollowed(d, page, casts, told, painting)
  BY <1>14, <1>15, <1>17 DEF StaleIsFollowed, OldIsFollowed, IsUp
<1>27. drawn => pane' = IF pic.size = want THEN [look |-> pic.look, size |-> want, soft |-> FALSE] ELSE pane
  BY <1>20 DEF Painted
<1>28. DrawnIsPane(d, want, told, pane')
  <2> SUFFICES ASSUME told.bitmap # None, told.bitmap.size = want, ~soft, ~force
               PROVE  SharpPane(pane', told.bitmap.look, want)
    BY <1>12, <1>17 DEF DrawnIsPane
  <2>1. CASE drawn
    BY <2>1, <1>6, <1>22, <1>27 DEF SharpPane
  <2>2. CASE ~drawn
    <3>1. pane' = pane
      BY <2>2, <1>20
    <3>2. ~cap.force
      BY <2>2, <1>9
    <3>3. CASE used
      <4>1. shotSeen.bitmap = pic /\ ~cap.soft
        BY <2>2, <3>3, <1>6
      <4> QED BY <3>1, <3>2, <3>3, <4>1, <1>3, <1>22 DEF DrawnIsPane
    <3>4. CASE ~used
      <4>1. ~cap.soft
        BY <3>4, <1>8
      <4> QED BY <3>1, <3>2, <3>4, <4>1, <1>3, <1>22 DEF DrawnIsPane
    <3> QED BY <3>3, <3>4
  <2> QED BY <2>1, <2>2
<1>29. NewsComes(casts, told) <=> NewsComes(casts, shotSeen)
  BY <1>22 DEF NewsComes
<1>30. SharpOrPromised(d, page, want, applied, casts, told, pane', slips, painting)
  <2> SUFFICES ASSUME painting, NoSlip(slips), ~Promised(d, page, want, applied, casts, told)
               PROVE  SharpPane(pane', page, want)
    BY DEF SharpOrPromised
  <2>1. /\ ~NewsComes(casts, shotSeen) /\ ~cap.settle /\ ~cap.dirty /\ applied = want
        /\ grab["page"].stage = "begun" => grab["page"].began = want
    BY <1>12, <1>15, <1>17, <1>29 DEF Promised
  <2>2. SharpPane(pane, page, want) \/ (pic.look = page /\ pic.size = want)
    <3>1. SharpPane(pane, page, want) \/ Promised(b, page, want, applied, casts, shotSeen)
      BY <1>3 DEF SharpOrPromised
    <3>2. Promised(b, page, want, applied, casts, shotSeen) => pic.look = page /\ pic.size = want
      <4>1. /\ grab["pump"].stage = "done" /\ b.grab = grab /\ pic = grab["pump"].pic
        BY <1>3, <1>4, <1>20
      <4>3. ~b.cap.settle /\ ~b.cap.dirty
        BY <2>1, <1>3
      <4>4. b.grab["pump"].stage # "begun"
        BY <4>1
      <4>2. ~(\E s \in {"pump", "page"} : b.grab[s].stage = "begun" /\ b.grab[s].began # want)
        BY <2>1, <4>1
      <4> QED BY <2>1, <4>1, <4>2, <4>3, <4>4 DEF Promised
    <3> QED BY <3>1, <3>2
  <2>3. ~grab["pump"].stale
    BY <2>1, <1>3, <1>20 DEF StaleIsFollowed, IsUp
  <2>4. pic.look = page
    BY <2>1, <1>3, <1>4, <1>20 DEF OldIsFollowed
  <2>5. used
    BY <2>3, <1>5
  <2>6. CASE pic.size = want
    <3>1. CASE drawn
      BY <3>1, <2>4, <2>6, <1>27 DEF SharpPane
    <3>2. CASE ~drawn
      <4>1. shotSeen.bitmap = pic /\ ~cap.soft /\ ~cap.force
        BY <2>5, <3>2, <1>6
      <4>2. pic # None
        BY <2>4, <1>1 DEF None, CaptureAssumption
      <4>3. SharpPane(pane, pic.look, want)
        BY <4>1, <4>2, <2>6, <1>3 DEF DrawnIsPane
      <4> QED BY <4>3, <2>4, <3>2, <1>20
    <3> QED BY <3>1, <3>2
  <2>7. CASE pic.size # want
    <3>1. pane' = pane
      BY <2>7, <1>20, <1>27
    <3> QED BY <3>1, <2>2, <2>7
  <2> QED BY <2>6, <2>7
<1>31. Sits(d, page, want, applied, casts, told, pane', slips, painting)
  BY <1>23, <1>24, <1>25, <1>26, <1>28, <1>30 DEF Sits
<1>32. PICK p : p = GivenBack(d)
  OBVIOUS
<1>33. Good(p, page, want, casts, told, pane', slips, painting)
  BY <1>1, <1>17, <1>31, <1>32, GivenBackIsGood
<1>34. Good(p, page, want, casts, shotSeen', pane', slips', painting) /\ Leaves(p) /\ shotSeen' \in HeardTypes
  BY <1>20, <1>22, <1>32, <1>33
<1> QED BY <1>20, <1>34, GoodLeft

\* A shot has not come in time: what changed is still to be painted.
LEMMA TimeoutStep == ASSUME CapInv, ShotTimesOut PROVE CapInv'
<1>1. /\ want \in Nat /\ applied \in Nat /\ painting \in BOOLEAN /\ shotSeen \in HeardTypes
      /\ cap \in CapFields /\ grab \in [Shots -> ShotFields] /\ override \in Seq(Nat)
  BY NowSits
<1>2. PICK b : b = AtOnce
  OBVIOUS
<1>3. /\ SizesKnown(b, want, applied, shotSeen) /\ SizeComes(b, want, applied, slips)
      /\ PageIsHeard(page, applied, casts, shotSeen, painting)
      /\ DrawnIsPane(b, want, shotSeen, pane) /\ OneUp(b, slips)
      /\ b \in Attempts /\ b.cap = cap /\ b.grab = grab /\ b.sent = override
      /\ b = [cap |-> b.cap, grab |-> b.grab, sent |-> b.sent]
  BY <1>2, Stands
<1>4. PICK s \in {NoShot, grab["pump"]} :
        Leaves(GivenBack([b EXCEPT !.cap.dirty = TRUE, !.grab["pump"] = NoShot, !.grab["late"] = s]))
  BY <1>2 DEF ShotTimesOut
<1>5. UNCHANGED <<page, applied, casts, warm, want, painting, screencast, shotSeen, pane, slips>>
  BY DEF ShotTimesOut, wishes
<1>6. PICK c : c = [cap EXCEPT !.dirty = TRUE]
  OBVIOUS
<1>7. /\ c \in CapFields /\ c.dirty = TRUE /\ c.soft = cap.soft /\ c.force = cap.force /\ c.behind = cap.behind
  BY <1>1, <1>6 DEF CapFields
<1>8. /\ NoShot \in ShotFields /\ NoShot.stage = "none" /\ NoShot.began = 0 /\ NoShot.pic = None /\ None.size = 0
      /\ grab["pump"] \in ShotFields /\ s \in ShotFields
  <2>1. /\ NoShot \in ShotFields /\ NoShot.stage = "none" /\ NoShot.began = 0 /\ NoShot.pic = None /\ None.size = 0
    BY DEF NoShot, ShotFields, None
  <2>2. grab["pump"] \in ShotFields
    BY <1>1 DEF Shots
  <2> QED BY <2>1, <2>2, <1>4
<1>9. PICK g : g = [grab EXCEPT !["pump"] = NoShot, !["late"] = s]
  OBVIOUS
<1>10. g \in [Shots -> ShotFields] /\ g["pump"] = NoShot /\ g["page"] = grab["page"] /\ g["late"] = s
  BY <1>1, <1>8, <1>9 DEF Shots
<1>11. PICK d : d = [cap |-> c, grab |-> g, sent |-> override]
  OBVIOUS
<1>12. d \in Attempts /\ d.cap = c /\ d.grab = g /\ d.sent = override
  BY <1>1, <1>7, <1>10, <1>11, AttemptOf
<1>13. PICK e : e = [b EXCEPT !.cap.dirty = TRUE, !.grab["pump"] = NoShot, !.grab["late"] = s]
  OBVIOUS
<1>14. e = d
  <2>1. PICK c2 : c2 = [b.cap EXCEPT !.dirty = TRUE]
    OBVIOUS
  <2>2. PICK g2 : g2 = [b.grab EXCEPT !["pump"] = NoShot, !["late"] = s]
    OBVIOUS
  <2>3. g2 = g /\ c2 = c
    BY <1>3, <1>6, <1>9, <2>1, <2>2
  <2>4. e = [cap |-> c2, grab |-> g2, sent |-> b.sent]
    BY <1>3, <1>13, <2>1, <2>2
  <2> QED BY <1>3, <1>11, <2>3, <2>4
<1>15. SizesKnown(d, want, applied, shotSeen)
  <2>1. 0 <= want
    BY <1>1
  <2>2. \A q \in Shots : d.grab[q].began <= want /\ d.grab[q].pic.size <= want
    BY <1>3, <1>4, <1>8, <1>10, <1>12, <2>1 DEF SizesKnown, Shots
  <2> QED BY <1>3, <1>12, <2>2 DEF SizesKnown
<1>16. /\ SizeComes(d, want, applied, slips) /\ DrawnIsPane(d, want, shotSeen, pane) /\ OneUp(d, slips)
  BY <1>3, <1>7, <1>8, <1>10, <1>12 DEF SizeComes, DrawnIsPane, OneUp, IsUp
<1>17. /\ StaleIsFollowed(d, slips, painting) /\ OldIsFollowed(d, page, casts, shotSeen, painting)
       /\ SharpOrPromised(d, page, want, applied, casts, shotSeen, pane, slips, painting)
  BY <1>7, <1>12 DEF StaleIsFollowed, OldIsFollowed, SharpOrPromised, Promised
<1>18. Sits(d, page, want, applied, casts, shotSeen, pane, slips, painting)
  BY <1>3, <1>15, <1>16, <1>17 DEF Sits
<1>19. PICK p : p = GivenBack(d)
  OBVIOUS
<1>20. Good(p, page, want, casts, shotSeen, pane, slips, painting)
  BY <1>1, <1>12, <1>18, <1>19, GivenBackIsGood
<1>21. Leaves(p)
  BY <1>4, <1>13, <1>14, <1>19
<1> QED BY <1>5, <1>20, <1>21, GoodStep

\* A shot is asked for from outside.
LEMMA AskPageStep == ASSUME CapInv, AskPage PROVE CapInv'
<1>1. /\ page \in Looks /\ want \in Nat /\ applied \in Nat /\ painting \in BOOLEAN /\ shotSeen \in HeardTypes
      /\ cap \in CapFields /\ grab \in [Shots -> ShotFields] /\ override \in Seq(Nat)
  BY NowSits
<1>2. PICK b : b = AtOnce
  OBVIOUS
<1>3. /\ SizesKnown(b, want, applied, shotSeen) /\ SizeComes(b, want, applied, slips)
      /\ PageIsHeard(page, applied, casts, shotSeen, painting)
      /\ DrawnIsPane(b, want, shotSeen, pane) /\ StaleIsFollowed(b, slips, painting) /\ OneUp(b, slips)
      /\ OldIsFollowed(b, page, casts, shotSeen, painting)
      /\ SharpOrPromised(b, page, want, applied, casts, shotSeen, pane, slips, painting)
      /\ BehindIsUp(b) /\ DirtyIsHeard(b, painting) /\ b.cap = cap /\ b.grab = grab /\ b.sent = override
  BY <1>2, Stands
<1>4. /\ grab["page"] = NoShot /\ grab' = [grab EXCEPT !["page"].stage = "waits"]
      /\ UNCHANGED <<page, applied, override, casts, warm, want, painting, screencast, cap, shotSeen, pane, slips>>
  BY DEF AskPage, chromeState, wishes
<1>5. NoShot.stage = "none"
  BY DEF NoShot
<1>6. PICK snap : snap = [grab["page"] EXCEPT !.stage = "waits"]
  OBVIOUS
<1>7. /\ snap \in ShotFields /\ snap.stage = "waits" /\ snap.began = grab["page"].began /\ snap.pic = grab["page"].pic
  BY <1>1, <1>6 DEF ShotFields, Shots
<1>8. PICK g : g = [grab EXCEPT !["page"] = snap]
  OBVIOUS
<1>9. g \in [Shots -> ShotFields] /\ g["page"] = snap /\ g["pump"] = grab["pump"] /\ g["late"] = grab["late"] /\ g = grab'
  BY <1>1, <1>4, <1>6, <1>7, <1>8 DEF Shots
<1>10. PICK d : d = [cap |-> cap, grab |-> g, sent |-> override]
  OBVIOUS
<1>11. d \in Attempts /\ d.cap = cap /\ d.grab = g /\ d.sent = override
  BY <1>1, <1>9, <1>10, AttemptOf
<1>12. SizesKnown(d, want, applied, shotSeen)
  <2>1. \A s \in Shots : g[s].began = grab[s].began /\ g[s].pic = grab[s].pic
    BY <1>7, <1>9 DEF Shots
  <2> QED BY <2>1, <1>3, <1>11 DEF SizesKnown
<1>13. IsUp(g, "pump") = IsUp(grab, "pump") /\ ~IsUp(g, "page") /\ ~IsUp(grab, "page")
  BY <1>4, <1>5, <1>7, <1>9 DEF IsUp
<1>14. SizeComes(d, want, applied, slips)
  BY <1>3, <1>7, <1>9, <1>11 DEF SizeComes
<1>15. /\ DrawnIsPane(d, want, shotSeen, pane) /\ StaleIsFollowed(d, slips, painting) /\ OneUp(d, slips)
       /\ OldIsFollowed(d, page, casts, shotSeen, painting) /\ BehindIsUp(d) /\ DirtyIsHeard(d, painting)
  BY <1>3, <1>9, <1>11, <1>13 DEF DrawnIsPane, StaleIsFollowed, OneUp, OldIsFollowed, BehindIsUp, DirtyIsHeard, AnyUp
<1>16. grab["page"].stage # "begun"
  BY <1>4, <1>5
<1>17. SharpOrPromised(d, page, want, applied, casts, shotSeen, pane, slips, painting)
  BY <1>3, <1>9, <1>11, <1>16 DEF SharpOrPromised, Promised
<1>18. Good(d, page, want, casts, shotSeen, pane, slips, painting)
  BY <1>3, <1>11, <1>12, <1>14, <1>15, <1>17 DEF Good, Sits
<1>19. Leaves(d)
  BY <1>4, <1>9, <1>11 DEF Leaves
<1>20. UNCHANGED <<page, applied, casts, warm, want, painting, screencast, shotSeen, pane, slips>>
  BY <1>4
<1> QED BY <1>18, <1>19, <1>20, GoodStep

\* It begins: with the slot, or because its wait is over.
LEMMA PageBegins ==
  ASSUME CapInv, grab["page"].stage = "waits", grab' = [grab EXCEPT !["page"] = Asked(override)],
         (~IsUp(grab, "pump") /\ slips' = slips) \/ slips' = slips \cup {"two"},
         UNCHANGED <<page, applied, override, casts, warm, want, painting, screencast, cap, shotSeen, pane>>
  PROVE  CapInv'
<1>1. /\ page \in Looks /\ want \in Nat /\ applied \in Nat /\ painting \in BOOLEAN /\ shotSeen \in HeardTypes
      /\ cap \in CapFields /\ grab \in [Shots -> ShotFields] /\ override \in Seq(Nat)
  BY NowSits
<1>2. PICK b : b = AtOnce
  OBVIOUS
<1>3. /\ SizesKnown(b, want, applied, shotSeen) /\ SizeComes(b, want, applied, slips)
      /\ PageIsHeard(page, applied, casts, shotSeen, painting)
      /\ DrawnIsPane(b, want, shotSeen, pane) /\ StaleIsFollowed(b, slips, painting) /\ OneUp(b, slips)
      /\ OldIsFollowed(b, page, casts, shotSeen, painting)
      /\ SharpOrPromised(b, page, want, applied, casts, shotSeen, pane, slips, painting)
      /\ BehindIsUp(b) /\ DirtyIsHeard(b, painting) /\ b.cap = cap /\ b.grab = grab /\ b.sent = override
  BY <1>2, Stands
<1>4. PICK snap : snap = Asked(override)
  OBVIOUS
<1>5. /\ snap \in ShotFields /\ snap.stage = "begun" /\ snap.began = EndSize(override, applied)
      /\ snap.pic = None /\ None.size = 0
  <2>1. None.size = 0
    BY DEF None
  <2> QED BY <1>1, <1>4, <2>1, AskedIs
<1>6. /\ grab' \in [Shots -> ShotFields] /\ grab'["page"] = snap /\ grab'["pump"] = grab["pump"]
      /\ grab'["late"] = grab["late"]
  BY <1>1, <1>4, <1>5 DEF Shots
<1>7. PICK d : d = [cap |-> cap, grab |-> grab', sent |-> override]
  OBVIOUS
<1>8. d \in Attempts /\ d.cap = cap /\ d.grab = grab' /\ d.sent = override
  BY <1>1, <1>6, <1>7, AttemptOf
<1>9. EndSize(override, applied) <= want
  <2>1. CASE override = <<>>
    BY <2>1, <1>3 DEF EndSize, SizesKnown
  <2>2. CASE override # <<>>
    <3>1. Last(override) = override[Len(override)] /\ Len(override) \in DOMAIN override
      BY <2>2, <1>1 DEF Last
    <3> QED BY <2>2, <3>1, <1>3 DEF EndSize, SizesKnown
  <2> QED BY <2>1, <2>2
<1>10. SizesKnown(d, want, applied, shotSeen)
  <2>1. 0 <= want
    BY <1>1
  <2>2. \A s \in Shots : d.grab[s].began <= want /\ d.grab[s].pic.size <= want
    BY <1>3, <1>5, <1>6, <1>8, <1>9, <2>1 DEF SizesKnown, Shots
  <2> QED BY <1>3, <1>8, <2>2 DEF SizesKnown
<1>11. "late" \in slips' <=> "late" \in slips
  OBVIOUS
<1>12. "stale" \in slips' <=> "stale" \in slips
  OBVIOUS
<1>13. SizeComes(d, want, applied, slips')
  BY <1>3, <1>5, <1>6, <1>8, <1>11 DEF SizeComes
<1>14. NoSlip(slips') <=> NoSlip(slips)
  BY <1>11, <1>12 DEF NoSlip
<1>15. DrawnIsPane(d, want, shotSeen, pane) /\ OldIsFollowed(d, page, casts, shotSeen, painting)
  BY <1>3, <1>6, <1>8 DEF DrawnIsPane, OldIsFollowed
<1>16. StaleIsFollowed(d, slips', painting) /\ BehindIsUp(d) /\ DirtyIsHeard(d, painting)
  BY <1>3, <1>5, <1>6, <1>8, <1>14 DEF StaleIsFollowed, BehindIsUp, DirtyIsHeard, AnyUp, IsUp
<1>17. OneUp(d, slips')
  BY <1>6, <1>8 DEF OneUp, IsUp
<1>18. SharpOrPromised(d, page, want, applied, casts, shotSeen, pane, slips', painting)
  <2> SUFFICES ASSUME painting, NoSlip(slips), ~SharpPane(pane, page, want),
                      Promised(b, page, want, applied, casts, shotSeen)
               PROVE  Promised(d, page, want, applied, casts, shotSeen)
    BY <1>3, <1>14 DEF SharpOrPromised
  <2>1. CASE \E s \in {"pump", "page"} : b.grab[s].stage = "begun" /\ b.grab[s].began # want
    <3>1. grab["pump"].stage = "begun"
      BY <2>1, <1>3
    <3> QED BY <3>1, <1>6, <1>8 DEF Promised
  <2> QED BY <2>1, <1>3, <1>6, <1>8 DEF Promised
<1>19. Sits(d, page, want, applied, casts, shotSeen, pane, slips', painting)
  BY <1>3, <1>10, <1>13, <1>15, <1>16, <1>17, <1>18 DEF Sits
<1>20. Good(d, page, want, casts, shotSeen', pane', slips', painting) /\ Leaves(d) /\ shotSeen' \in HeardTypes
  BY <1>1, <1>8, <1>16, <1>19 DEF Good, Leaves
<1> QED BY <1>20, GoodLeft

LEMMA TakesSlotStep == ASSUME CapInv, PageTakesSlot PROVE CapInv'
<1>1. ~AnyUp(grab)
  BY FlyingIs DEF PageTakesSlot, SlotFree
<1>2. /\ grab["page"].stage = "waits" /\ grab' = [grab EXCEPT !["page"] = Asked(override)]
      /\ ~IsUp(grab, "pump") /\ slips' = slips
      /\ UNCHANGED <<page, applied, override, casts, warm, want, painting, screencast, cap, shotSeen, pane>>
  BY <1>1 DEF PageTakesSlot, chromeState, wishes, AnyUp
<1> QED BY <1>2, PageBegins

LEMMA WaitsNoLongerStep == ASSUME CapInv, PageWaitsNoLonger PROVE CapInv'
<1>2. /\ grab["page"].stage = "waits" /\ grab' = [grab EXCEPT !["page"] = Asked(override)]
      /\ slips' = slips \cup {"two"}
      /\ UNCHANGED <<page, applied, override, casts, warm, want, painting, screencast, cap, shotSeen, pane>>
  BY DEF PageWaitsNoLonger, chromeState, wishes
<1> QED BY <1>2, PageBegins

LEMMA AnsweredStep == ASSUME CapInv, PageAnswered PROVE CapInv'
<1>1. /\ want \in Nat /\ applied \in Nat /\ painting \in BOOLEAN /\ shotSeen \in HeardTypes
      /\ cap \in CapFields /\ grab \in [Shots -> ShotFields] /\ override \in Seq(Nat)
  BY NowSits
<1>2. PICK b : b = AtOnce
  OBVIOUS
<1>3. /\ SizesKnown(b, want, applied, shotSeen) /\ SizeComes(b, want, applied, slips)
      /\ PageIsHeard(page, applied, casts, shotSeen, painting)
      /\ DrawnIsPane(b, want, shotSeen, pane) /\ StaleIsFollowed(b, slips, painting) /\ OneUp(b, slips)
      /\ OldIsFollowed(b, page, casts, shotSeen, painting)
      /\ SharpOrPromised(b, page, want, applied, casts, shotSeen, pane, slips, painting)
      /\ b.cap = cap /\ b.grab = grab /\ b.sent = override
      /\ b = [cap |-> b.cap, grab |-> b.grab, sent |-> b.sent]
  BY <1>2, Stands
<1>4. /\ grab["page"].stage = "done" /\ Leaves(GivenBack([b EXCEPT !.grab["page"] = NoShot]))
      /\ UNCHANGED <<page, applied, casts, warm, want, painting, screencast, shotSeen, pane, slips>>
  BY <1>2 DEF PageAnswered, wishes
<1>5. /\ NoShot \in ShotFields /\ NoShot.stage = "none" /\ NoShot.began = 0 /\ NoShot.pic = None /\ None.size = 0
  BY DEF NoShot, ShotFields, None
<1>6. PICK g : g = [grab EXCEPT !["page"] = NoShot]
  OBVIOUS
<1>7. g \in [Shots -> ShotFields] /\ g["page"] = NoShot /\ g["pump"] = grab["pump"] /\ g["late"] = grab["late"]
  BY <1>1, <1>5, <1>6 DEF Shots
<1>8. PICK d : d = [cap |-> cap, grab |-> g, sent |-> override]
  OBVIOUS
<1>9. d \in Attempts /\ d.cap = cap /\ d.grab = g /\ d.sent = override
  BY <1>1, <1>7, <1>8, AttemptOf
<1>10. d = [b EXCEPT !.grab["page"] = NoShot]
  <2>1. PICK e : e = [b EXCEPT !.grab["page"] = NoShot]
    OBVIOUS
  <2>2. PICK g2 : g2 = [b.grab EXCEPT !["page"] = NoShot]
    OBVIOUS
  <2>3. g2 = g
    BY <1>3, <1>6, <2>2
  <2>4. e = [cap |-> b.cap, grab |-> g2, sent |-> b.sent]
    BY <1>3, <2>1, <2>2
  <2> QED BY <1>3, <1>8, <2>1, <2>3, <2>4
<1>11. SizesKnown(d, want, applied, shotSeen)
  <2>1. 0 <= want
    BY <1>1
  <2>2. \A s \in Shots : d.grab[s].began <= want /\ d.grab[s].pic.size <= want
    BY <1>3, <1>5, <1>7, <1>9, <2>1 DEF SizesKnown, Shots
  <2> QED BY <1>3, <1>9, <2>2 DEF SizesKnown
<1>12. SizeComes(d, want, applied, slips) /\ OneUp(d, slips)
  BY <1>3, <1>5, <1>7, <1>9 DEF SizeComes, OneUp, IsUp
<1>13. /\ DrawnIsPane(d, want, shotSeen, pane) /\ StaleIsFollowed(d, slips, painting)
       /\ OldIsFollowed(d, page, casts, shotSeen, painting)
  BY <1>3, <1>7, <1>9 DEF DrawnIsPane, StaleIsFollowed, OldIsFollowed, IsUp
<1>14. SharpOrPromised(d, page, want, applied, casts, shotSeen, pane, slips, painting)
  BY <1>3, <1>4, <1>7, <1>9 DEF SharpOrPromised, Promised
<1>15. Sits(d, page, want, applied, casts, shotSeen, pane, slips, painting)
  BY <1>3, <1>11, <1>12, <1>13, <1>14 DEF Sits
<1>16. PICK p : p = GivenBack(d)
  OBVIOUS
<1>17. Good(p, page, want, casts, shotSeen, pane, slips, painting)
  BY <1>1, <1>9, <1>15, <1>16, GivenBackIsGood
<1>18. Leaves(p)
  BY <1>4, <1>10, <1>16
<1> QED BY <1>4, <1>17, <1>18, GoodStep

\* The pane's size changes: the page is laid out anew, and the frame that shows it is still to come.
LEMMA ResizeStep == ASSUME CapInv, Resize PROVE CapInv'
<1>1. /\ page \in Looks /\ want \in Nat /\ applied \in Nat /\ casts \in Seq(Pictures) /\ shotSeen \in HeardTypes
      /\ warm \in BOOLEAN /\ screencast = painting /\ painting \in BOOLEAN
      /\ cap \in CapFields /\ grab \in [Shots -> ShotFields] /\ override \in Seq(Nat)
  BY NowSits
<1>2. PICK b : b = AtOnce
  OBVIOUS
<1>3. /\ SizesKnown(b, want, applied, shotSeen)
      /\ PageIsHeard(page, applied, casts, shotSeen, painting) /\ StaleIsFollowed(b, slips, painting)
      /\ OldIsFollowed(b, page, casts, shotSeen, painting) /\ OneUp(b, slips) /\ DirtyIsHeard(b, painting)
      /\ BehindIsUp(b) /\ b.cap = cap /\ b.grab = grab /\ b.sent = override
      /\ b = [cap |-> b.cap, grab |-> b.grab, sent |-> b.sent]
  BY <1>2, Stands
<1>4. PICK wt : wt = want + 1
  OBVIOUS
<1>5. /\ want' = wt /\ Leaves(MetricsSent(b, wt))
      /\ UNCHANGED <<page, applied, casts, warm, painting, screencast, shotSeen, pane, slips>>
  BY <1>2, <1>4 DEF Resize
<1>6. wt \in Nat /\ applied < wt /\ shotSeen.bitmap.size # wt
  <2>1. shotSeen.bitmap.size \in Nat
    BY <1>1 DEF HeardTypes, Pictures, None
  <2> QED BY <2>1, <1>1, <1>3, <1>4 DEF SizesKnown
<1>7. PICK late \in BOOLEAN : late = (cap.behind \/ Flying(grab) > 0)
  OBVIOUS
<1>8. late <=> cap.behind \/ AnyUp(grab)
  <2>1. Flying(grab) \in Nat /\ (Flying(grab) = 0 <=> ~AnyUp(grab))
    BY FlyingIs
  <2>2. Flying(grab) > 0 <=> AnyUp(grab)
    BY <2>1
  <2> QED BY <2>2, <1>7
<1>9. PICK c : c = [cap EXCEPT !.behind = late, !.fits = cap.fits + 1]
  OBVIOUS
<1>10. /\ c \in CapFields /\ c.behind = late /\ c.settle = cap.settle /\ c.dirty = cap.dirty /\ c.timer = cap.timer
  <2>1. cap.fits + 1 \in Nat
    BY <1>1 DEF CapFields
  <2> QED BY <2>1, <1>1, <1>9 DEF CapFields
<1>11. PICK cmds : cmds = Append(override, wt)
  OBVIOUS
<1>12. /\ cmds \in Seq(Nat) /\ cmds # <<>> /\ Last(cmds) = wt
       /\ \A i \in DOMAIN cmds : (i \in DOMAIN override /\ cmds[i] = override[i]) \/ cmds[i] = wt
  BY <1>1, <1>6, <1>11, LastAppended
<1>13. PICK d : d = [cap |-> c, grab |-> grab, sent |-> cmds]
  OBVIOUS
<1>14. d \in Attempts /\ d.cap = c /\ d.grab = grab /\ d.sent = cmds
  BY <1>1, <1>10, <1>12, <1>13, AttemptOf
<1>15. MetricsSent(b, wt) = d
  <2>1. PICK e : e = [b EXCEPT !.sent = Append(b.sent, wt), !.cap.behind = late, !.cap.fits = b.cap.fits + 1]
    OBVIOUS
  <2>2. PICK k : k = [b.cap EXCEPT !.behind = late, !.fits = b.cap.fits + 1]
    OBVIOUS
  <2>3. e = [cap |-> k, grab |-> b.grab, sent |-> Append(b.sent, wt)]
    BY <1>3, <2>1, <2>2
  <2>4. k = c
    BY <1>3, <1>9, <2>2
  <2>5. e = d
    BY <1>3, <1>11, <1>13, <2>3, <2>4
  <2>6. MetricsSent(b, wt) = [b EXCEPT !.sent = Append(b.sent, wt), !.cap.behind = (b.cap.behind \/ Flying(b.grab) > 0),
                                       !.cap.fits = b.cap.fits + 1]
    BY <1>3 DEF MetricsSent
  <2>7. late = (b.cap.behind \/ Flying(b.grab) > 0)
    BY <1>3, <1>7
  <2> QED BY <2>1, <2>5, <2>6, <2>7
<1>16. SizesKnown(d, wt, applied, shotSeen)
  <2>1. /\ applied <= wt /\ shotSeen.bitmap.size <= wt
    <3>1. shotSeen.bitmap.size \in Nat
      BY <1>1 DEF HeardTypes, Pictures, None
    <3> QED BY <3>1, <1>1, <1>3, <1>4 DEF SizesKnown
  <2>2. \A i \in DOMAIN cmds : cmds[i] <= wt
    <3> SUFFICES ASSUME NEW i \in DOMAIN cmds, i \in DOMAIN override, cmds[i] = override[i] PROVE cmds[i] <= wt
      BY <1>6, <1>12
    <3>1. override[i] \in Nat /\ override[i] <= want
      BY <1>1, <1>3 DEF SizesKnown
    <3> QED BY <3>1, <1>1, <1>4
  <2>3. \A s \in Shots : grab[s].began <= wt /\ grab[s].pic.size <= wt
    <3> SUFFICES ASSUME NEW s \in Shots PROVE grab[s].began <= wt /\ grab[s].pic.size <= wt
      OBVIOUS
    <3>1. grab[s] \in ShotFields /\ grab[s].began <= want /\ grab[s].pic.size <= want
      BY <1>1, <1>3 DEF SizesKnown
    <3>2. grab[s].began \in Nat /\ grab[s].pic.size \in Nat
      BY <3>1 DEF ShotFields, Pictures, None
    <3> QED BY <3>1, <3>2, <1>1, <1>4
  <2> QED BY <2>1, <2>2, <2>3, <1>14 DEF SizesKnown
<1>17. SizeComes(d, wt, applied, slips)
  BY <1>8, <1>10, <1>12, <1>14 DEF SizeComes, EndSize, AnyUp, IsUp
<1>18. DrawnIsPane(d, wt, shotSeen, pane) /\ StaleIsFollowed(d, slips, painting)
  BY <1>3, <1>6, <1>10, <1>14 DEF DrawnIsPane, StaleIsFollowed
<1>19. OldIsFollowed(d, page, casts, shotSeen, painting) /\ OneUp(d, slips) /\ DirtyIsHeard(d, painting)
  BY <1>3, <1>10, <1>14 DEF OldIsFollowed, OneUp, DirtyIsHeard
<1>20. applied # wt
  BY <1>1, <1>6
<1>21. SharpOrPromised(d, page, wt, applied, casts, shotSeen, pane, slips, painting)
  BY <1>20 DEF SharpOrPromised, Promised
<1>22. BehindIsUp(d)
  BY <1>3, <1>8, <1>10, <1>14 DEF BehindIsUp
<1>23. Sits(d, page, wt, applied, casts, shotSeen, pane, slips, painting)
  BY <1>3, <1>16, <1>17, <1>18, <1>19, <1>21 DEF Sits
<1>24. cap' = d.cap /\ grab' = d.grab /\ override' = d.sent
  BY <1>5, <1>15 DEF Leaves
<1> QED BY <1>1, <1>5, <1>6, <1>14, <1>19, <1>22, <1>23, <1>24, Then

LEMMA StopStep == ASSUME CapInv, StopPainting PROVE CapInv'
<1>1. /\ page \in Looks /\ want \in Nat /\ applied \in Nat /\ casts \in Seq(Pictures) /\ shotSeen \in HeardTypes
      /\ warm \in BOOLEAN
  BY NowSits
<1>2. PICK b : b = AtOnce
  OBVIOUS
<1>3. /\ SizesKnown(b, want, applied, shotSeen) /\ SizeComes(b, want, applied, slips)
      /\ DrawnIsPane(b, want, shotSeen, pane) /\ OneUp(b, slips) /\ BehindIsUp(b)
      /\ b \in Attempts /\ b.cap = cap /\ b.grab = grab /\ b.sent = override
  BY <1>2, Stands
<1>4. /\ painting' = FALSE /\ screencast' = FALSE
      /\ UNCHANGED <<page, want, applied, override, casts, warm, grab, cap, shotSeen, pane, slips>>
  BY DEF StopPainting, chromeState
<1>5. /\ PageIsHeard(page, applied, casts, shotSeen, FALSE) /\ StaleIsFollowed(b, slips, FALSE)
      /\ OldIsFollowed(b, page, casts, shotSeen, FALSE) /\ DirtyIsHeard(b, FALSE)
      /\ SharpOrPromised(b, page, want, applied, casts, shotSeen, pane, slips, FALSE)
  BY DEF PageIsHeard, StaleIsFollowed, OldIsFollowed, DirtyIsHeard, SharpOrPromised
<1>6. Sits(b, page, want, applied, casts, shotSeen, pane, slips, FALSE)
  BY <1>3, <1>5 DEF Sits
<1> QED BY <1>1, <1>3, <1>4, <1>5, <1>6, Then

\* The screencast begins with a frame of the page as it is.
LEMMA StartStep == ASSUME CapInv, StartPainting PROVE CapInv'
<1>1. /\ page \in Looks /\ want \in Nat /\ applied \in Nat /\ casts \in Seq(Pictures) /\ shotSeen \in HeardTypes
      /\ warm \in BOOLEAN /\ screencast = painting /\ painting \in BOOLEAN
      /\ cap \in CapFields /\ grab \in [Shots -> ShotFields] /\ override \in Seq(Nat)
  BY NowSits
<1>2. PICK b : b = AtOnce
  OBVIOUS
<1>3. /\ SizesKnown(b, want, applied, shotSeen) /\ SizeComes(b, want, applied, slips)
      /\ OneUp(b, slips) /\ BehindIsUp(b)
      /\ b \in Attempts /\ b.cap = cap /\ b.grab = grab /\ b.sent = override
      /\ b = [cap |-> b.cap, grab |-> b.grab, sent |-> b.sent]
  BY <1>2, Stands
<1>4. PICK f : f = Cast(page, applied)
  OBVIOUS
<1>5. f \in Pictures /\ f.look = page /\ f.size = applied
  BY <1>1, <1>4, CastIs
<1>6. PICK cs : cs = Append(casts, f)
  OBVIOUS
<1>7. PICK told : told = [shotSeen EXCEPT !.signal = None]
  OBVIOUS
<1>8. told \in HeardTypes /\ told.bitmap = shotSeen.bitmap
  BY <1>1, <1>7 DEF HeardTypes
<1>9. cs \in Seq(Pictures) /\ LastHeard(cs, told) = f
  BY <1>1, <1>5, <1>6, NewsGoOn
<1>10. /\ painting' = TRUE /\ screencast' = TRUE /\ casts' = cs /\ shotSeen' = told
       /\ Leaves(Requested([b EXCEPT !.cap.force = TRUE], TRUE))
       /\ UNCHANGED <<page, applied, warm, want, pane, slips>>
  BY <1>2, <1>4, <1>6, <1>7 DEF StartPainting
<1>11. PICK a : a = [cap EXCEPT !.force = TRUE]
  OBVIOUS
<1>12. a \in CapFields /\ a.force = TRUE /\ a.soft = cap.soft /\ a.behind = cap.behind
  BY <1>1, <1>11 DEF CapFields
<1>13. PICK c : c = [a EXCEPT !.dirty = TRUE]
  OBVIOUS
<1>14. c \in CapFields /\ c.force = TRUE /\ c.dirty = TRUE /\ c.behind = cap.behind
  BY <1>12, <1>13 DEF CapFields
<1>15. PICK e : e = [cap |-> a, grab |-> grab, sent |-> override]
  OBVIOUS
<1>16. PICK d : d = [cap |-> c, grab |-> grab, sent |-> override]
  OBVIOUS
<1>17. d \in Attempts /\ d.cap = c /\ d.grab = grab /\ d.sent = override
  BY <1>1, <1>14, <1>16, AttemptOf
<1>18. e = [b EXCEPT !.cap.force = TRUE]
  <2>1. PICK x : x = [b EXCEPT !.cap.force = TRUE]
    OBVIOUS
  <2>2. PICK k : k = [b.cap EXCEPT !.force = TRUE]
    OBVIOUS
  <2>3. x = [cap |-> k, grab |-> b.grab, sent |-> b.sent]
    BY <1>3, <2>1, <2>2
  <2>4. k = a
    BY <1>3, <1>11, <2>2
  <2> QED BY <1>3, <1>15, <2>1, <2>3, <2>4
<1>19. Requested(e, TRUE) = Pumped(d, TRUE)
  <2>1. PICK x : x = [e EXCEPT !.cap.dirty = TRUE]
    OBVIOUS
  <2>2. e = [cap |-> e.cap, grab |-> e.grab, sent |-> e.sent] /\ e.cap = a /\ e.grab = grab /\ e.sent = override
    BY <1>15
  <2>3. PICK k : k = [e.cap EXCEPT !.dirty = TRUE]
    OBVIOUS
  <2>4. x = [cap |-> k, grab |-> e.grab, sent |-> e.sent]
    BY <2>1, <2>2, <2>3
  <2>5. k = c
    BY <1>13, <2>2, <2>3
  <2>6. x = d
    BY <1>16, <2>2, <2>4, <2>5
  <2> QED BY <2>1, <2>6 DEF Requested
<1>20. SizesKnown(d, want, applied, told) /\ SizeComes(d, want, applied, slips) /\ OneUp(d, slips) /\ BehindIsUp(d)
  BY <1>3, <1>8, <1>14, <1>17 DEF SizesKnown, SizeComes, OneUp, BehindIsUp
<1>21. PageIsHeard(page, applied, cs, told, TRUE) /\ DrawnIsPane(d, want, told, pane)
  BY <1>5, <1>9, <1>14, <1>17 DEF PageIsHeard, DrawnIsPane
<1>22. /\ StaleIsFollowed(d, slips, TRUE) /\ OldIsFollowed(d, page, cs, told, TRUE)
       /\ SharpOrPromised(d, page, want, applied, cs, told, pane, slips, TRUE)
  BY <1>14, <1>17 DEF StaleIsFollowed, OldIsFollowed, SharpOrPromised, Promised
<1>23. Sits(d, page, want, applied, cs, told, pane, slips, TRUE)
  BY <1>20, <1>21, <1>22 DEF Sits
<1>24. PICK p : p = Pumped(d, TRUE)
  OBVIOUS
<1>25. Good(p, page, want, cs, told, pane, slips, TRUE)
  BY <1>1, <1>17, <1>20, <1>23, <1>24, PumpedIsGood
<1>26. /\ p \in Attempts /\ Sits(p, page, want, applied, cs, told, pane, slips, TRUE) /\ BehindIsUp(p)
       /\ DirtyIsHeard(p, TRUE)
  BY <1>25 DEF Good
<1>27. cap' = p.cap /\ grab' = p.grab /\ override' = p.sent
  BY <1>10, <1>18, <1>19, <1>24 DEF Leaves
<1> QED BY <1>1, <1>8, <1>9, <1>10, <1>26, <1>27, Then

LEMMA CapStarts == ASSUME CaptureInit PROVE CapInv
<1>1. PICK f : f = Cast(page, 0)
  OBVIOUS
<1>2. /\ page \in Looks /\ want = 0 /\ applied = 0 /\ override = <<>> /\ painting = TRUE /\ screencast = TRUE
      /\ warm = FALSE /\ casts = <<f>> /\ slips = {}
      /\ shotSeen = [signal |-> None, cast |-> None, bitmap |-> None]
      /\ grab = [s \in Shots |-> IF s = "pump" THEN Asked(<<>>) ELSE NoShot]
      /\ cap = [dirty |-> FALSE, timer |-> FALSE, cast |-> "none", pending |-> None, inCapture |-> FALSE,
                settle |-> FALSE, grace |-> FALSE, fresh |-> FALSE, force |-> TRUE, soft |-> FALSE,
                expedite |-> TRUE, behind |-> FALSE, fits |-> 0, due |-> FALSE]
  BY <1>1 DEF CaptureInit
<1>3. f \in Pictures /\ f.look = page /\ f.size = 0
  BY <1>1, <1>2, CastIs
<1>4. casts \in Seq(Pictures) /\ LastHeard(casts, shotSeen) = f
  BY <1>2, <1>3 DEF LastHeard, Last
<1>5. PICK snap : snap = Asked(<<>>)
  OBVIOUS
<1>6. /\ snap \in ShotFields /\ snap.stage = "begun" /\ snap.began = 0 /\ snap.pic = None /\ snap.stale = FALSE
  <2>1. <<>> \in Seq(Nat) /\ applied \in Nat /\ EndSize(<<>>, applied) = 0
    BY <1>2 DEF EndSize
  <2> QED BY <2>1, <1>5, AskedIs
<1>7. /\ NoShot \in ShotFields /\ NoShot.stage = "none" /\ NoShot.began = 0 /\ NoShot.pic = None /\ None.size = 0
  BY DEF NoShot, ShotFields, None
<1>8. grab \in [Shots -> ShotFields] /\ grab["pump"] = snap /\ grab["page"] = NoShot /\ grab["late"] = NoShot
  BY <1>2, <1>5, <1>6, <1>7 DEF Shots
<1>9. cap \in CapFields /\ shotSeen \in HeardTypes /\ shotSeen.bitmap = None
  BY <1>2 DEF CapFields, HeardTypes
<1>10. PICK b : b = AtOnce
  OBVIOUS
<1>11. b = [cap |-> cap, grab |-> grab, sent |-> override]
  BY <1>10 DEF AtOnce
<1>12. b \in Attempts /\ b.cap = cap /\ b.grab = grab /\ b.sent = override
  <2>1. override \in Seq(Nat)
    BY <1>2
  <2> QED BY <2>1, <1>8, <1>9, <1>11, AttemptOf
<1>13. CapTyped
  BY <1>2, <1>4, <1>9, <1>10, <1>12 DEF CapTyped
<1>14. SizesKnown(b, want, applied, shotSeen)
  <2>1. \A s \in Shots : b.grab[s].began <= want /\ b.grab[s].pic.size <= want
    BY <1>2, <1>6, <1>7, <1>8, <1>12 DEF Shots
  <2>2. \A i \in DOMAIN b.sent : b.sent[i] <= want
    BY <1>2, <1>12
  <2> QED BY <2>1, <2>2, <1>2, <1>7, <1>9 DEF SizesKnown
<1>15. SizeComes(b, want, applied, slips)
  BY <1>2, <1>6, <1>7, <1>8, <1>12 DEF SizeComes, EndSize
<1>16. PageIsHeard(page, applied, casts, shotSeen, painting) /\ DrawnIsPane(b, want, shotSeen, pane)
  BY <1>2, <1>3, <1>4, <1>9, <1>12 DEF PageIsHeard, DrawnIsPane
<1>17. /\ StaleIsFollowed(b, slips, painting) /\ OldIsFollowed(b, page, casts, shotSeen, painting)
       /\ SharpOrPromised(b, page, want, applied, casts, shotSeen, pane, slips, painting) /\ OneUp(b, slips)
  BY <1>6, <1>7, <1>8, <1>12 DEF StaleIsFollowed, OldIsFollowed, SharpOrPromised, Promised, OneUp, IsUp
<1>18. BehindIsUp(b) /\ DirtyIsHeard(b, painting)
  BY <1>2, <1>12 DEF BehindIsUp, DirtyIsHeard
<1> QED BY <1>10, <1>13, <1>14, <1>15, <1>16, <1>17, <1>18 DEF CapInv, Sits

LEMMA CapStands == ASSUME CapInv, UNCHANGED captureVars PROVE CapInv'
<1>1. /\ Good(AtOnce, page, want, casts, shotSeen, pane, slips, painting)
      /\ AtOnce.cap = cap /\ AtOnce.grab = grab /\ AtOnce.sent = override
  BY NowSits
<1>2. PICK p : p = AtOnce
  OBVIOUS
<1>3. /\ Good(p, page, want, casts, shotSeen, pane, slips, painting)
      /\ p.cap = cap /\ p.grab = grab /\ p.sent = override
  BY <1>1, <1>2
<1>4. Leaves(p) /\ UNCHANGED <<page, applied, casts, warm, want, painting, screencast, shotSeen, pane, slips>>
  BY <1>3 DEF Leaves, captureVars
<1> QED BY <1>3, <1>4, GoodStep

LEMMA CapStep == ASSUME CapInv, [CaptureNext]_captureVars, CaptureAssumption PROVE CapInv'
<1>1. CASE PageChanges \/ ChromeStep
  BY <1>1, ChangeStep, ApplyStep, EndStep DEF ChromeStep
<1>2. CASE CastStep
  BY <1>2, HearStep, DrawStep, AsksStep, DropsStep DEF CastStep
<1>3. CASE TimerStep
  BY <1>3, IntervalStep, FiresStep, SettleStep, GraceStep DEF TimerStep
<1>4. CASE ShotStep
  BY <1>4, ShotStep1, TakesSlotStep, AnsweredStep DEF ShotStep
<1>5. CASE MetricsFitted \/ ShotTimesOut \/ AskPage \/ PageWaitsNoLonger
  BY <1>5, FittedStep, TimeoutStep, AskPageStep, WaitsNoLongerStep
<1>6. CASE Resize \/ AskPaint \/ RaiseFrameRate \/ StopPainting \/ StartPainting
  BY <1>6, ResizeStep, AskPaintStep, RaiseStep, StopStep, StartStep
<1>7. CASE UNCHANGED captureVars
  BY <1>7, CapStands
<1> QED BY <1>1, <1>2, <1>3, <1>4, <1>5, <1>6, <1>7 DEF CaptureNext

LEMMA CapSays == ASSUME CapInv PROVE StillIsSharpButSlips /\ OneShot
<1>1. PICK b : b = AtOnce
  OBVIOUS
<1>2. /\ SizeComes(b, want, applied, slips) /\ OneUp(b, slips)
      /\ SharpOrPromised(b, page, want, applied, casts, shotSeen, pane, slips, painting)
      /\ BehindIsUp(b) /\ DirtyIsHeard(b, painting)
      /\ b.cap = cap /\ b.grab = grab /\ b.sent = override
  BY <1>1, Stands
<1>3. OneShot
  BY <1>2, FlyingIs DEF OneShot, OneUp
<1>4. ASSUME PaneRests, slips \cap {"stale", "late"} = {} PROVE RestsSharp
  <2>1. /\ painting /\ casts = <<>> /\ override = <<>> /\ ~cap.timer /\ ~cap.settle
        /\ grab["pump"] = NoShot /\ grab["page"] = NoShot
    BY <1>4 DEF PaneRests, Shots
  <2>2. NoShot.stage = "none"
    BY DEF NoShot
  <2>3. ~AnyUp(grab)
    BY <2>1, <2>2 DEF AnyUp, IsUp
  <2>4. ~cap.behind /\ ~cap.dirty
    BY <1>2, <2>1, <2>3 DEF BehindIsUp, DirtyIsHeard
  <2>5. "late" \notin slips /\ "stale" \notin slips
    BY <1>4
  <2>6. applied = want
    BY <1>2, <2>1, <2>4, <2>5 DEF SizeComes, EndSize
  <2>7. ~NewsComes(casts, shotSeen)
    BY <2>1 DEF NewsComes
  <2>8. ~Promised(b, page, want, applied, casts, shotSeen)
    BY <1>2, <2>1, <2>2, <2>4, <2>6, <2>7 DEF Promised
  <2> QED BY <1>2, <2>1, <2>5, <2>8 DEF SharpOrPromised, NoSlip, SharpPane, RestsSharp
<1> QED BY <1>3, <1>4 DEF StillIsSharpButSlips

-----------------------------------------------------------------------------
(* Recordings: their logs, the pictures linked from them, and who can stop them.                       *)
Reasons == {"start", "click", "navigate", "change", "stop"}
Names == Nat \X Reasons
Events == [kind : Reasons, frame : Names \cup {NoName}]
Recordings ==
  [events : Seq(Events), keyframes : Nat, dirty : BOOLEAN, goal : BOOLEAN, stopped : BOOLEAN,
   ticking : BOOLEAN, navigation : Nat, navTimer : BOOLEAN, beside : BOOLEAN]
Captures == [reason : Reasons, entry : Nat]

RecTyped ==
  /\ logs \in Seq(Recordings) /\ active \in 0..Len(logs)
  /\ captures \in Seq(Seq(Captures)) /\ shot \in Seq(Names \cup {NoName}) /\ timelines \in Seq(Seq(Events))
  /\ Len(captures) = Len(logs) /\ Len(shot) = Len(logs) /\ Len(timelines) = Len(logs)
  /\ delayed \subseteq [rec : Logs, reason : {"click", "navigate"}, entry : Nat \ {0}]
  /\ \A d, x \in delayed : d.rec = x.rec /\ d.entry = x.entry => d = x
  /\ jpegs \subseteq [rec : Logs, name : Names, entry : Nat]
\* The shot under way has the last number there is; every picture has a lower one.
ShotIsLast == \A r \in Logs : shot[r] # NoName => captures[r] # <<>> /\ logs[r].keyframes = shot[r][1] + 1
NamesAreFresh == \A f \in jpegs : /\ f.name[1] < logs[f.rec].keyframes
                                  /\ shot[f.rec] # NoName => f.name[1] < shot[f.rec][1]
LinksHold == \A r \in Logs : \A e \in DOMAIN logs[r].events :
  logs[r].events[e].frame # NoName => [rec |-> r, name |-> logs[r].events[e].frame, entry |-> e] \in jpegs
\* An entry of the log is asked a picture for once: by a capture in the chain, a delayed one, or the
\* navigation that has not settled; and not again when it has one.
EntriesAreThere ==
  /\ \A r \in Logs : \A i \in DOMAIN captures[r] : captures[r][i].entry <= Len(logs[r].events)
  /\ \A r \in Logs : logs[r].navigation <= Len(logs[r].events)
  /\ \A d \in delayed : d.entry <= Len(logs[d.rec].events)
  /\ \A f \in jpegs : f.entry <= Len(logs[f.rec].events)
ChainOnce == \A r \in Logs : \A i, j \in DOMAIN captures[r] :
  captures[r][i].entry # 0 /\ captures[r][i].entry = captures[r][j].entry => i = j
DelayedOnce == \A d \in delayed : /\ \A i \in DOMAIN captures[d.rec] : captures[d.rec][i].entry # d.entry
                                  /\ logs[d.rec].navigation # d.entry
NavigationOnce == \A r \in Logs : \A i \in DOMAIN captures[r] :
  logs[r].navigation # 0 => captures[r][i].entry # logs[r].navigation
TakenOnce == \A f \in jpegs : f.entry # 0 =>
  /\ logs[f.rec].events[f.entry].frame = f.name
  /\ \A i \in DOMAIN captures[f.rec] : captures[f.rec][i].entry # f.entry
  /\ logs[f.rec].navigation # f.entry
  /\ \A d \in delayed : d.rec = f.rec => d.entry # f.entry
AskedOnce == EntriesAreThere /\ ChainOnce /\ DelayedOnce /\ NavigationOnce /\ TakenOnce
LostIsFull == \A f \in jpegs : f.entry = 0 => Len(logs[f.rec].events) >= MaxEvents
\* What is written is what the log says, and no picture is on its way to it.
Stops(r) == \E i \in DOMAIN captures[r] : captures[r][i].reason = "stop"
StopsHaveStopped == \A r \in Logs : Stops(r) \/ timelines[r] # <<>> => logs[r].stopped
WrittenIsOver == \A r \in Logs : timelines[r] # <<>> =>
  active # r /\ (~Stops(r) => timelines[r] = logs[r].events /\ shot[r] = NoName)
RecInv ==
  RecTyped /\ ShotIsLast /\ NamesAreFresh /\ LinksHold /\ AskedOnce /\ LostIsFull /\ StopsHaveStopped /\ WrittenIsOver

\* A log that goes on: what it said stays, what is new has no picture.
Grown(s, t) ==
  /\ Len(s) <= Len(t) /\ DOMAIN s \subseteq DOMAIN t /\ \A i \in DOMAIN s : t[i] = s[i]
  /\ \A i \in DOMAIN t : i \notin DOMAIN s => t[i].frame = NoName

LEMMA LogGrows == ASSUME NEW s \in Seq(Events) PROVE Grown(s, s)
BY DEF Grown

LEMMA Noted ==
  ASSUME NEW log \in Recordings, NEW kind \in Reasons, RecorderAssumption
  PROVE  /\ Record(log, kind) \in Recordings /\ Grown(log.events, Record(log, kind).events)
         /\ Record(log, kind).keyframes = log.keyframes /\ Record(log, kind).stopped = log.stopped
         /\ Record(log, kind).navigation = log.navigation /\ Record(log, kind).beside = log.beside
         /\ Entry(log) \in Nat /\ Entry(log) <= Len(Record(log, kind).events)
         /\ Entry(log) # 0 => Entry(log) > Len(log.events)
         /\ Entry(log) = 0 => Len(log.events) >= MaxEvents
<1>1. log.events \in Seq(Events) /\ Len(log.events) \in Nat /\ MaxEvents \in Nat
  BY DEF Recordings, RecorderAssumption
<1>2. CASE Len(log.events) >= MaxEvents
  <2>1. Record(log, kind) = log /\ Entry(log) = 0
    BY <1>2 DEF Record, Entry
  <2> QED BY <2>1, <1>1, <1>2, LogGrows
<1>3. CASE ~(Len(log.events) >= MaxEvents)
  <2> DEFINE new == [kind |-> kind, frame |-> NoName]
             ev == Append(log.events, new)
  <2>1. new \in Events /\ new.frame = NoName
    BY DEF Events
  <2>2. /\ ev \in Seq(Events) /\ Len(ev) = Len(log.events) + 1 /\ DOMAIN ev = 1..Len(log.events) + 1
        /\ DOMAIN log.events = 1..Len(log.events) /\ \A i \in DOMAIN log.events : ev[i] = log.events[i]
        /\ ev[Len(log.events) + 1] = new
    <3> HIDE DEF new
    <3> QED BY <2>1, <1>1
  <2>3. Record(log, kind) = [log EXCEPT !.events = ev] /\ Entry(log) = Len(log.events) + 1
    BY <1>3 DEF Record, Entry
  <2> HIDE DEF ev, new
  <2>4. /\ Record(log, kind) \in Recordings /\ Record(log, kind).events = ev
        /\ Record(log, kind).keyframes = log.keyframes /\ Record(log, kind).stopped = log.stopped
        /\ Record(log, kind).navigation = log.navigation /\ Record(log, kind).beside = log.beside
    BY <2>2, <2>3 DEF Recordings
  <2>5. Grown(log.events, ev)
    BY <2>1, <2>2, <1>1 DEF Grown
  <2> QED BY <2>2, <2>3, <2>4, <2>5, <1>1
<1> QED BY <1>2, <1>3

LEMMA ChainGrows ==
  ASSUME NEW chain \in Seq(Captures), NEW c \in Captures
  PROVE  /\ Append(chain, c) \in Seq(Captures) /\ Append(chain, c) # <<>>
         /\ DOMAIN Append(chain, c) = DOMAIN chain \cup {Len(chain) + 1} /\ Len(chain) + 1 \notin DOMAIN chain
         /\ \A i \in DOMAIN chain : Append(chain, c)[i] = chain[i]
         /\ Append(chain, c)[Len(chain) + 1] = c
OBVIOUS

LEMMA ChainGoesOn ==
  ASSUME NEW chain \in Seq(Captures), chain # <<>>
  PROVE  /\ Tail(chain) \in Seq(Captures) /\ Head(chain) = chain[1] /\ 1 \in DOMAIN chain
         /\ \A i \in DOMAIN Tail(chain) : i + 1 \in DOMAIN chain /\ i + 1 # 1 /\ i \in Nat
                                          /\ Tail(chain)[i] = chain[i + 1]
         /\ \A j \in DOMAIN chain : j # 1 => j - 1 \in DOMAIN Tail(chain) /\ Tail(chain)[j - 1] = chain[j]
OBVIOUS

LEMMA NamesAreNames == NoName \notin Names /\ \A x \in Names : x[1] \in Nat
<1>1. \A x \in Names : x[1] \in Nat /\ x # <<>>
  BY DEF Names
<1> QED BY <1>1 DEF NoName

\* Of each recording, what RecTyped says.
LEMMA TypeOfEach ==
  ASSUME RecTyped
  PROVE  /\ Len(logs) \in Nat /\ Logs = 1..Len(logs) /\ DOMAIN captures = Logs /\ DOMAIN shot = Logs
         /\ DOMAIN timelines = Logs /\ active \in Nat
         /\ \A r \in Logs : /\ logs[r] \in Recordings /\ logs[r].events \in Seq(Events)
                            /\ logs[r].keyframes \in Nat /\ logs[r].navigation \in Nat
                            /\ Len(logs[r].events) \in Nat
                            /\ captures[r] \in Seq(Captures) /\ shot[r] \in Names \cup {NoName}
                            /\ timelines[r] \in Seq(Events)
         /\ active # 0 => active \in Logs
<1>1. /\ Len(logs) \in Nat /\ Logs = 1..Len(logs) /\ DOMAIN captures = Logs /\ DOMAIN shot = Logs
      /\ DOMAIN timelines = Logs /\ active \in Nat
  BY DEF RecTyped, Logs
<1>2. ASSUME NEW r \in Logs
      PROVE  /\ logs[r] \in Recordings /\ captures[r] \in Seq(Captures) /\ shot[r] \in Names \cup {NoName}
             /\ timelines[r] \in Seq(Events)
  BY <1>1 DEF RecTyped, Logs
<1>3. \A x \in Recordings : x.events \in Seq(Events) /\ x.keyframes \in Nat /\ x.navigation \in Nat
  BY DEF Recordings
<1>4. \A s \in Seq(Events) : Len(s) \in Nat
  OBVIOUS
<1>5. active # 0 => active \in Logs
  BY <1>1 DEF RecTyped
<1> QED BY <1>1, <1>2, <1>3, <1>4, <1>5

-----------------------------------------------------------------------------
\* A step that takes no picture: the logs go on, the chains grow, a stop is asked of the one that has
\* been told.
Quietly ==
  /\ UNCHANGED <<jpegs, shot, timelines, active>> /\ Logs' = Logs
  /\ \A q \in Logs : /\ Grown(logs[q].events, logs'[q].events)
                     /\ q # active => logs'[q].events = logs[q].events
                     /\ logs'[q].keyframes = logs[q].keyframes /\ (logs[q].stopped => logs'[q].stopped)
                     /\ DOMAIN captures[q] \subseteq DOMAIN captures'[q]
                     /\ captures[q] # <<>> => captures'[q] # <<>>
                     /\ \A i \in DOMAIN captures[q] : captures'[q][i] = captures[q][i]
                     /\ \A i \in DOMAIN captures'[q] :
                          i \notin DOMAIN captures[q] /\ captures'[q][i].reason = "stop"
                            => logs'[q].stopped /\ q = active

LEMMA QuietStep ==
  ASSUME RecInv, Quietly, RecTyped', AskedOnce' PROVE RecInv'
<1>1. /\ RecTyped /\ ShotIsLast /\ NamesAreFresh /\ LinksHold /\ AskedOnce /\ LostIsFull /\ StopsHaveStopped
      /\ WrittenIsOver
  BY DEF RecInv
<1>2. /\ UNCHANGED <<jpegs, shot, timelines, active>> /\ Logs' = Logs
      /\ \A q \in Logs : /\ Grown(logs[q].events, logs'[q].events)
                         /\ q # active => logs'[q].events = logs[q].events
                         /\ logs'[q].keyframes = logs[q].keyframes /\ (logs[q].stopped => logs'[q].stopped)
                         /\ captures[q] # <<>> => captures'[q] # <<>>
  BY DEF Quietly
<1>3. ShotIsLast'
  BY <1>1, <1>2 DEF ShotIsLast
<1>4. \A f \in jpegs : f.rec \in Logs
  BY <1>1 DEF RecTyped
<1>5. NamesAreFresh'
  BY <1>1, <1>2, <1>4 DEF NamesAreFresh
<1>6. LinksHold'
  <2> SUFFICES ASSUME NEW r \in Logs, NEW e \in DOMAIN logs'[r].events, logs'[r].events[e].frame # NoName
               PROVE  [rec |-> r, name |-> logs'[r].events[e].frame, entry |-> e] \in jpegs
    BY <1>2 DEF LinksHold
  <2>1. e \in DOMAIN logs[r].events /\ logs'[r].events[e] = logs[r].events[e]
    BY <1>2 DEF Grown
  <2> QED BY <2>1, <1>1 DEF LinksHold
<1>7. LostIsFull'
  <2> SUFFICES ASSUME NEW f \in jpegs, f.entry = 0 PROVE Len(logs'[f.rec].events) >= MaxEvents
    BY <1>2 DEF LostIsFull
  <2>1. Len(logs[f.rec].events) >= MaxEvents /\ f.rec \in Logs
    BY <1>1, <1>4 DEF LostIsFull
  <2>2. Len(logs[f.rec].events) <= Len(logs'[f.rec].events)
    BY <2>1, <1>2 DEF Grown
  <2>3. Len(logs[f.rec].events) \in Nat /\ Len(logs'[f.rec].events) \in Nat
    <3>1. Len(logs[f.rec].events) \in Nat
      BY <2>1, <1>1, TypeOfEach
    <3>2. logs' \in Seq(Recordings) /\ f.rec \in DOMAIN logs'
      BY <2>1, <1>2 DEF RecTyped, Logs
    <3>3. logs'[f.rec] \in Recordings
      BY <3>2
    <3>4. \A x \in Recordings : Len(x.events) \in Nat
      BY DEF Recordings
    <3> QED BY <3>1, <3>3, <3>4
  <2> QED BY <2>1, <2>2, <2>3, RecorderAssumption DEF RecorderAssumption
<1>8. ASSUME NEW q \in Logs PROVE Stops(q)' => Stops(q) \/ (logs'[q].stopped /\ q = active)
  BY DEF Quietly, Stops
<1>9. ASSUME NEW q \in Logs PROVE Stops(q) => Stops(q)'
  BY DEF Quietly, Stops
<1>10. StopsHaveStopped'
  BY <1>1, <1>2, <1>8 DEF StopsHaveStopped
<1>11. WrittenIsOver'
  BY <1>1, <1>2, <1>9 DEF WrittenIsOver
<1> QED BY <1>3, <1>5, <1>6, <1>7, <1>10, <1>11 DEF RecInv

\* A capture is put into the chain of a recording; the logs keep what they ask for.
LEMMA ChainAsked ==
  ASSUME RecTyped, NEW r \in Logs, NEW c \in Captures, captures' = [captures EXCEPT ![r] = Append(@, c)]
  PROVE  /\ captures' \in Seq(Seq(Captures)) /\ Len(captures') = Len(captures)
         /\ \A q \in Logs : q # r => captures'[q] = captures[q]
         /\ captures'[r] # <<>> /\ Len(captures[r]) + 1 \notin DOMAIN captures[r]
         /\ DOMAIN captures'[r] = DOMAIN captures[r] \cup {Len(captures[r]) + 1}
         /\ \A i \in DOMAIN captures[r] : captures'[r][i] = captures[r][i]
         /\ captures'[r][Len(captures[r]) + 1] = c
<1>1. r \in DOMAIN captures /\ captures[r] \in Seq(Captures) /\ captures \in Seq(Seq(Captures)) /\ DOMAIN captures = Logs
  BY TypeOfEach DEF RecTyped
<1>2. captures'[r] = Append(captures[r], c) /\ \A q \in Logs : q # r => captures'[q] = captures[q]
  BY <1>1
<1>3. captures' \in Seq(Seq(Captures)) /\ Len(captures') = Len(captures)
  <2>1. Append(captures[r], c) \in Seq(Captures)
    BY <1>1
  <2> QED BY <2>1, <1>1
<1> QED BY <1>1, <1>2, <1>3, ChainGrows

LEMMA StillStep ==
  ASSUME RecInv, UNCHANGED <<active, captures, shot, delayed, jpegs, timelines>>,
         logs' \in Seq(Recordings), Len(logs') = Len(logs),
         \A q \in Logs : /\ logs'[q].events = logs[q].events /\ logs'[q].keyframes = logs[q].keyframes
                         /\ logs'[q].stopped = logs[q].stopped /\ logs'[q].navigation = logs[q].navigation
  PROVE  RecInv'
<1>1. RecTyped /\ AskedOnce
  BY DEF RecInv
<1>2. Logs' = Logs
  BY <1>1 DEF RecTyped, Logs
<1>3. RecTyped'
  BY <1>1, <1>2 DEF RecTyped
<1>4. Quietly
  <2>1. \A q \in Logs : Grown(logs[q].events, logs[q].events)
    BY <1>1, TypeOfEach, LogGrows
  <2> QED BY <1>2, <2>1 DEF Quietly
<1>5. AskedOnce'
  <2>1. \A d \in delayed : d.rec \in Logs
    BY <1>1 DEF RecTyped
  <2>2. \A f \in jpegs : f.rec \in Logs
    BY <1>1 DEF RecTyped
  <2>3. EntriesAreThere'
    BY <1>1, <1>2, <2>1, <2>2 DEF AskedOnce, EntriesAreThere
  <2>4. ChainOnce' /\ NavigationOnce'
    BY <1>1, <1>2 DEF AskedOnce, ChainOnce, NavigationOnce
  <2>5. DelayedOnce'
    BY <1>1, <1>2, <2>1 DEF AskedOnce, DelayedOnce
  <2>6. TakenOnce'
    BY <1>1, <1>2, <2>2 DEF AskedOnce, TakenOnce
  <2> QED BY <2>3, <2>4, <2>5, <2>6 DEF AskedOnce
<1> QED BY <1>3, <1>4, <1>5, QuietStep

\* What moves when a picture is asked for: one entry e of one recording a, to one place, from a place it
\* leaves; whatever else is asked stays or goes.
RecMoves(a, e, place) ==
  /\ jpegs' = jpegs
  /\ \A q \in Logs : /\ \A i \in DOMAIN captures'[q] :
                          \/ i \in DOMAIN captures[q] /\ captures'[q][i] = captures[q][i]
                          \/ /\ place = "chain" /\ q = a /\ captures'[q][i].entry = e
                             /\ i = Len(captures[q]) + 1 /\ i \notin DOMAIN captures[q]
                     /\ \/ logs'[q].navigation \in {logs[q].navigation, 0}
                        \/ place = "navigation" /\ q = a /\ logs'[q].navigation = e
  /\ \A d \in delayed' : d \in delayed \/ (place = "delayed" /\ d.rec = a /\ d.entry = e)
\* No one else asks for it.
IsFree(a, e, place) ==
  /\ e <= Len(logs'[a].events)
  /\ \A i \in DOMAIN captures[a] : captures[a][i].entry # e
  /\ \A d \in delayed' : d.rec = a /\ d.entry = e => place = "delayed"
  /\ logs'[a].navigation = e => place = "navigation"
  /\ \A f \in jpegs : f.rec = a => f.entry # e

LEMMA MovesOnce ==
  ASSUME RecTyped, AskedOnce, RecTyped', NEW a \in Logs, NEW e \in Nat, NEW place, RecMoves(a, e, place), Logs' = Logs,
         e # 0 => IsFree(a, e, place),
         \A q \in Logs : Grown(logs[q].events, logs'[q].events)
  PROVE  AskedOnce'
<1>1. EntriesAreThere /\ ChainOnce /\ DelayedOnce /\ NavigationOnce /\ TakenOnce
  BY DEF AskedOnce
<1>2. \A q \in Logs : /\ Len(logs[q].events) <= Len(logs'[q].events) /\ Len(logs[q].events) \in Nat
                      /\ DOMAIN logs[q].events = 1..Len(logs[q].events)
                      /\ \A i \in DOMAIN logs[q].events : logs'[q].events[i] = logs[q].events[i]
                      /\ logs[q].navigation \in Nat
  BY TypeOfEach DEF Grown
<1>3. \A q \in Logs : logs'[q].navigation \in Nat /\ Len(logs'[q].events) \in Nat
  <2>1. \A x \in Recordings : x.navigation \in Nat /\ Len(x.events) \in Nat
    BY DEF Recordings
  <2>2. \A q \in DOMAIN logs' : logs'[q] \in Recordings
    BY DEF RecTyped
  <2> QED BY <2>1, <2>2 DEF Logs
<1>4. /\ \A d \in delayed : d.rec \in Logs /\ d.entry \in Nat /\ d.entry # 0
      /\ \A d \in delayed' : d.rec \in Logs /\ d.entry \in Nat /\ d.entry # 0
      /\ \A f \in jpegs : f.rec \in Logs /\ f.entry \in Nat
  BY DEF RecTyped
<1>5. \A q \in Logs : \A i \in DOMAIN captures[q] : captures[q][i].entry \in Nat
  <2>1. \A q \in Logs : captures[q] \in Seq(Captures)
    BY TypeOfEach
  <2>2. \A x \in Captures : x.entry \in Nat
    BY DEF Captures
  <2> QED BY <2>1, <2>2
<1>6. jpegs' = jpegs
  BY DEF RecMoves
<1>7. EntriesAreThere'
  <2>1. ASSUME NEW q \in Logs, NEW i \in DOMAIN captures'[q] PROVE captures'[q][i].entry <= Len(logs'[q].events)
    <3>1. CASE i \in DOMAIN captures[q] /\ captures'[q][i] = captures[q][i]
      BY <3>1, <1>1, <1>2, <1>3, <1>5 DEF EntriesAreThere
    <3>2. CASE q = a /\ captures'[q][i].entry = e
      BY <3>2, <1>3 DEF IsFree
    <3> QED BY <3>1, <3>2 DEF RecMoves
  <2>2. ASSUME NEW q \in Logs PROVE logs'[q].navigation <= Len(logs'[q].events)
    <3>1. CASE logs'[q].navigation \in {logs[q].navigation, 0}
      BY <3>1, <1>1, <1>2, <1>3 DEF EntriesAreThere
    <3>2. CASE q = a /\ logs'[q].navigation = e
      BY <3>2, <1>3 DEF IsFree
    <3> QED BY <3>1, <3>2 DEF RecMoves
  <2>3. ASSUME NEW d \in delayed' PROVE d.entry <= Len(logs'[d.rec].events)
    <3>1. CASE d \in delayed
      BY <3>1, <1>1, <1>2, <1>3, <1>4 DEF EntriesAreThere
    <3>2. CASE d.rec = a /\ d.entry = e
      BY <3>2, <1>4 DEF IsFree
    <3> QED BY <3>1, <3>2 DEF RecMoves
  <2>4. ASSUME NEW f \in jpegs PROVE f.entry <= Len(logs'[f.rec].events)
    BY <1>1, <1>2, <1>3, <1>4 DEF EntriesAreThere
  <2> QED BY <2>1, <2>2, <2>3, <2>4, <1>6 DEF EntriesAreThere
<1>8. ChainOnce'
  <2> SUFFICES ASSUME NEW q \in Logs, NEW i \in DOMAIN captures'[q], NEW j \in DOMAIN captures'[q],
                      captures'[q][i].entry # 0, captures'[q][i].entry = captures'[q][j].entry
               PROVE  i = j
    BY DEF ChainOnce
  <2>1. CASE i \in DOMAIN captures[q] /\ captures'[q][i] = captures[q][i]
    <3>1. CASE j \in DOMAIN captures[q] /\ captures'[q][j] = captures[q][j]
      BY <2>1, <3>1, <1>1 DEF ChainOnce
    <3>2. CASE q = a /\ captures'[q][j].entry = e
      BY <2>1, <3>2 DEF IsFree
    <3> QED BY <3>1, <3>2 DEF RecMoves
  <2>2. CASE q = a /\ captures'[q][i].entry = e /\ i = Len(captures[q]) + 1
    <3>1. CASE j \in DOMAIN captures[q] /\ captures'[q][j] = captures[q][j]
      BY <2>2, <3>1 DEF IsFree
    <3>2. CASE j = Len(captures[q]) + 1
      BY <2>2, <3>2
    <3> QED BY <3>1, <3>2 DEF RecMoves
  <2> QED BY <2>1, <2>2 DEF RecMoves
<1>9. DelayedOnce'
  <2> SUFFICES ASSUME NEW d \in delayed'
               PROVE  /\ \A i \in DOMAIN captures'[d.rec] : captures'[d.rec][i].entry # d.entry
                      /\ logs'[d.rec].navigation # d.entry
    BY DEF DelayedOnce
  <2>1. CASE d \in delayed
    <3>1. ASSUME NEW i \in DOMAIN captures'[d.rec] PROVE captures'[d.rec][i].entry # d.entry
      <4>1. CASE i \in DOMAIN captures[d.rec] /\ captures'[d.rec][i] = captures[d.rec][i]
        BY <2>1, <4>1, <1>1 DEF DelayedOnce
      <4>2. CASE place = "chain" /\ d.rec = a /\ captures'[d.rec][i].entry = e
        BY <4>2, <1>4 DEF IsFree
      <4> QED BY <4>1, <4>2, <1>4 DEF RecMoves
    <3>2. logs'[d.rec].navigation # d.entry
      <4>1. CASE logs'[d.rec].navigation \in {logs[d.rec].navigation, 0}
        BY <2>1, <4>1, <1>1, <1>4 DEF DelayedOnce
      <4>2. CASE place = "navigation" /\ d.rec = a /\ logs'[d.rec].navigation = e
        BY <4>2, <1>4 DEF IsFree
      <4> QED BY <4>1, <4>2, <1>4 DEF RecMoves
    <3> QED BY <3>1, <3>2
  <2>2. CASE place = "delayed" /\ d.rec = a /\ d.entry = e
    <3>1. e # 0
      BY <2>2, <1>4
    <3>2. ASSUME NEW i \in DOMAIN captures'[d.rec] PROVE captures'[d.rec][i].entry # d.entry
      BY <2>2, <3>1 DEF IsFree, RecMoves
    <3>3. logs'[d.rec].navigation # d.entry
      BY <2>2, <3>1 DEF IsFree
    <3> QED BY <3>2, <3>3
  <2> QED BY <2>1, <2>2 DEF RecMoves
<1>10. NavigationOnce'
  <2> SUFFICES ASSUME NEW q \in Logs, NEW i \in DOMAIN captures'[q], logs'[q].navigation # 0
               PROVE  captures'[q][i].entry # logs'[q].navigation
    BY DEF NavigationOnce
  <2>1. CASE logs'[q].navigation = logs[q].navigation
    <3>1. CASE i \in DOMAIN captures[q] /\ captures'[q][i] = captures[q][i]
      BY <2>1, <3>1, <1>1 DEF NavigationOnce
    <3>2. CASE place = "chain" /\ q = a /\ captures'[q][i].entry = e
      BY <3>2 DEF IsFree
    <3> QED BY <3>1, <3>2 DEF RecMoves
  <2>2. CASE place = "navigation" /\ q = a /\ logs'[q].navigation = e
    BY <2>2 DEF IsFree, RecMoves
  <2> QED BY <2>1, <2>2 DEF RecMoves
<1>11. TakenOnce'
  <2> SUFFICES ASSUME NEW f \in jpegs, f.entry # 0
               PROVE  /\ logs'[f.rec].events[f.entry].frame = f.name
                      /\ \A i \in DOMAIN captures'[f.rec] : captures'[f.rec][i].entry # f.entry
                      /\ logs'[f.rec].navigation # f.entry
                      /\ \A d \in delayed' : d.rec = f.rec => d.entry # f.entry
    BY <1>6 DEF TakenOnce
  <2>0. f.rec \in Logs /\ f.entry \in Nat
    BY <1>4
  <2>1. logs'[f.rec].events[f.entry].frame = f.name
    <3>1. f.entry \in DOMAIN logs[f.rec].events
      BY <2>0, <1>1, <1>2 DEF EntriesAreThere
    <3> QED BY <3>1, <2>0, <1>1, <1>2 DEF TakenOnce
  <2>2. ASSUME NEW i \in DOMAIN captures'[f.rec] PROVE captures'[f.rec][i].entry # f.entry
    <3>1. CASE i \in DOMAIN captures[f.rec] /\ captures'[f.rec][i] = captures[f.rec][i]
      BY <3>1, <1>1 DEF TakenOnce
    <3>2. CASE f.rec = a /\ captures'[f.rec][i].entry = e
      BY <3>2 DEF IsFree
    <3> QED BY <2>0, <3>1, <3>2 DEF RecMoves
  <2>3. logs'[f.rec].navigation # f.entry
    <3>1. CASE logs'[f.rec].navigation \in {logs[f.rec].navigation, 0}
      BY <3>1, <1>1 DEF TakenOnce
    <3>2. CASE f.rec = a /\ logs'[f.rec].navigation = e
      BY <3>2 DEF IsFree
    <3> QED BY <2>0, <3>1, <3>2 DEF RecMoves
  <2>4. ASSUME NEW d \in delayed', d.rec = f.rec PROVE d.entry # f.entry
    <3>1. CASE d \in delayed
      BY <3>1, <2>4, <1>1 DEF TakenOnce
    <3>2. CASE d.rec = a /\ d.entry = e
      BY <3>2, <2>4 DEF IsFree
    <3> QED BY <3>1, <3>2 DEF RecMoves
  <2> QED BY <2>1, <2>2, <2>3, <2>4
<1> QED BY <1>7, <1>8, <1>9, <1>10, <1>11 DEF AskedOnce

LEMMA AskStep ==
  ASSUME RecInv, Quietly, RecTyped', NEW a \in Logs, NEW e \in Nat, NEW place, RecMoves(a, e, place),
         e # 0 => IsFree(a, e, place)
  PROVE  RecInv'
<1>1. RecTyped /\ AskedOnce
  BY DEF RecInv
<1>2. Logs' = Logs /\ \A q \in Logs : Grown(logs[q].events, logs'[q].events)
  BY DEF Quietly
<1>3. AskedOnce'
  BY <1>1, <1>2, MovesOnce
<1> QED BY <1>3, QuietStep

\* A number past the log's end is asked for by no one.
LEMMA NewIsFree ==
  ASSUME RecTyped, EntriesAreThere, NEW a \in Logs, NEW e \in Nat, e > Len(logs[a].events)
  PROVE  /\ \A i \in DOMAIN captures[a] : captures[a][i].entry # e
         /\ \A d \in delayed : d.rec = a => d.entry # e
         /\ logs[a].navigation # e /\ \A f \in jpegs : f.rec = a => f.entry # e
<1>1. Len(logs[a].events) \in Nat /\ logs[a].navigation \in Nat /\ captures[a] \in Seq(Captures)
  BY TypeOfEach
<1>2. \A i \in DOMAIN captures[a] : captures[a][i].entry \in Nat
  <2>1. \A i \in DOMAIN captures[a] : captures[a][i] \in Captures
    BY <1>1
  <2> QED BY <2>1 DEF Captures
<1>3. (\A d \in delayed : d.entry \in Nat) /\ \A f \in jpegs : f.entry \in Nat
  BY DEF RecTyped
<1> QED BY <1>1, <1>2, <1>3 DEF EntriesAreThere

\* One log is given an entry, and other fields that say no more of it than these.
LEMMA NotedIn ==
  ASSUME RecInv, NEW a \in Logs, a = active, NEW kind \in Reasons, logs' \in Seq(Recordings),
         Len(logs') = Len(logs), \A q \in Logs : q # a => logs'[q] = logs[q],
         logs'[a].events = Record(logs[a], kind).events, logs'[a].keyframes = logs[a].keyframes,
         logs[a].stopped => logs'[a].stopped
  PROVE  /\ Logs' = Logs /\ Entry(logs[a]) \in Nat /\ Entry(logs[a]) <= Len(logs'[a].events)
         /\ \A q \in Logs : /\ Grown(logs[q].events, logs'[q].events) /\ logs'[q].keyframes = logs[q].keyframes
                            /\ logs[q].stopped => logs'[q].stopped
                            /\ q # active => logs'[q].events = logs[q].events
         /\ Entry(logs[a]) # 0 =>
              /\ \A i \in DOMAIN captures[a] : captures[a][i].entry # Entry(logs[a])
              /\ \A d \in delayed : d.rec = a => d.entry # Entry(logs[a])
              /\ logs[a].navigation # Entry(logs[a]) /\ \A f \in jpegs : f.rec = a => f.entry # Entry(logs[a])
<1>1. RecTyped /\ EntriesAreThere /\ logs[a] \in Recordings
  BY TypeOfEach DEF RecInv, AskedOnce
<1>2. /\ Grown(logs[a].events, Record(logs[a], kind).events) /\ Entry(logs[a]) \in Nat
      /\ Entry(logs[a]) <= Len(Record(logs[a], kind).events)
      /\ Entry(logs[a]) # 0 => Entry(logs[a]) > Len(logs[a].events)
  BY <1>1, Noted, RecorderAssumption
<1>3. \A q \in Logs : Grown(logs[q].events, logs'[q].events)
  BY <1>1, <1>2, TypeOfEach, LogGrows
<1>4. Logs' = Logs
  BY <1>1 DEF RecTyped, Logs
<1>5. PICK e \in Nat : e = Entry(logs[a])
  BY <1>2
<1>6. e # 0 => /\ \A i \in DOMAIN captures[a] : captures[a][i].entry # e
               /\ \A d \in delayed : d.rec = a => d.entry # e
               /\ logs[a].navigation # e /\ \A f \in jpegs : f.rec = a => f.entry # e
  BY <1>1, <1>2, <1>5, NewIsFree
<1> QED BY <1>2, <1>3, <1>4, <1>5, <1>6

LEMMA PageEventStep == ASSUME RecInv, RecordPageEvent PROVE RecInv'
<1>1. RecTyped
  BY DEF RecInv
<1>2. PICK a \in Logs : a = active
  BY <1>1, TypeOfEach DEF RecordPageEvent
<1>3. PICK e : e = Entry(logs[a])
  OBVIOUS
<1>4. /\ logs' = [logs EXCEPT ![a] = Record(@, "click")]
      /\ delayed' = IF e = 0 THEN delayed ELSE delayed \union {[rec |-> a, reason |-> "click", entry |-> e]}
      /\ UNCHANGED <<active, captures, shot, jpegs, timelines>>
  BY <1>2, <1>3 DEF RecordPageEvent
<1>5. "click" \in Reasons /\ logs[a] \in Recordings /\ logs \in Seq(Recordings) /\ a \in DOMAIN logs
  BY <1>1, <1>2, TypeOfEach DEF RecTyped, Logs, Reasons
<1>6. /\ Record(logs[a], "click") \in Recordings /\ Record(logs[a], "click").keyframes = logs[a].keyframes
      /\ Record(logs[a], "click").stopped = logs[a].stopped
      /\ Record(logs[a], "click").navigation = logs[a].navigation
  BY <1>5, Noted, RecorderAssumption
<1>7. /\ logs' \in Seq(Recordings) /\ Len(logs') = Len(logs) /\ logs'[a] = Record(logs[a], "click")
      /\ \A q \in Logs : q # a => logs'[q] = logs[q]
  BY <1>4, <1>5, <1>6 DEF Logs
<1>8. /\ Logs' = Logs /\ e \in Nat /\ e <= Len(logs'[a].events)
      /\ \A q \in Logs : /\ Grown(logs[q].events, logs'[q].events) /\ logs'[q].keyframes = logs[q].keyframes
                         /\ logs[q].stopped => logs'[q].stopped
                         /\ q # active => logs'[q].events = logs[q].events
      /\ e # 0 => /\ \A i \in DOMAIN captures[a] : captures[a][i].entry # e
                  /\ \A d \in delayed : d.rec = a => d.entry # e
                  /\ logs[a].navigation # e /\ \A f \in jpegs : f.rec = a => f.entry # e
  BY <1>2, <1>3, <1>5, <1>6, <1>7, NotedIn
<1>9. \A d \in delayed' : d \in delayed \/ (e # 0 /\ d = [rec |-> a, reason |-> "click", entry |-> e])
  BY <1>4
<1>10. RecTyped'
  <2>1. delayed' \subseteq [rec : Logs, reason : {"click", "navigate"}, entry : Nat \ {0}]
    BY <1>1, <1>8, <1>9 DEF RecTyped
  <2>2. \A d, x \in delayed' : d.rec = x.rec /\ d.entry = x.entry => d = x
    BY <1>1, <1>8, <1>9 DEF RecTyped
  <2> QED BY <2>1, <2>2, <1>1, <1>4, <1>7, <1>8 DEF RecTyped
<1>11. Quietly
  BY <1>4, <1>8 DEF Quietly
<1>12. RecMoves(a, e, "delayed")
  <2>1. \A q \in Logs : logs'[q].navigation = logs[q].navigation
    BY <1>6, <1>7
  <2> QED BY <2>1, <1>4, <1>9 DEF RecMoves
<1>13. e # 0 => IsFree(a, e, "delayed")
  BY <1>6, <1>7, <1>8 DEF IsFree
<1> QED BY <1>8, <1>10, <1>11, <1>12, <1>13, AskStep

LEMMA NavigationStep == ASSUME RecInv, NEW inPage \in BOOLEAN, RecordTabNavigation(inPage) PROVE RecInv'
<1>1. RecTyped
  BY DEF RecInv
<1>2. PICK a \in Logs : a = active
  BY <1>1, TypeOfEach DEF RecordTabNavigation
<1>3. PICK e : e = Entry(logs[a])
  OBVIOUS
<1>4. PICK noted : noted = Record(logs[a], "navigate")
  OBVIOUS
<1>5. /\ logs' = [logs EXCEPT ![a] = IF e = 0 \/ inPage THEN noted
                                     ELSE [noted EXCEPT !.navigation = e, !.navTimer = TRUE]]
      /\ delayed' = IF e = 0 \/ ~inPage THEN delayed
                    ELSE delayed \union {[rec |-> a, reason |-> "navigate", entry |-> e]}
      /\ UNCHANGED <<active, captures, shot, jpegs, timelines>>
  BY <1>2, <1>3, <1>4 DEF RecordTabNavigation
<1>6. "navigate" \in Reasons /\ logs[a] \in Recordings /\ logs \in Seq(Recordings) /\ a \in DOMAIN logs
  BY <1>1, <1>2, TypeOfEach DEF RecTyped, Logs, Reasons
<1>7. /\ noted \in Recordings /\ noted.keyframes = logs[a].keyframes /\ noted.stopped = logs[a].stopped
      /\ noted.navigation = logs[a].navigation /\ e \in Nat
  BY <1>3, <1>4, <1>6, Noted, RecorderAssumption
<1>8. /\ logs'[a] \in Recordings /\ logs'[a].events = noted.events /\ logs'[a].keyframes = noted.keyframes
      /\ logs'[a].stopped = noted.stopped
      /\ logs'[a].navigation = IF e = 0 \/ inPage THEN noted.navigation ELSE e
  <2>1. logs'[a] = IF e = 0 \/ inPage THEN noted ELSE [noted EXCEPT !.navigation = e, !.navTimer = TRUE]
    BY <1>5, <1>6
  <2> QED BY <2>1, <1>7 DEF Recordings
<1>9. /\ logs' \in Seq(Recordings) /\ Len(logs') = Len(logs) /\ \A q \in Logs : q # a => logs'[q] = logs[q]
  <2>1. logs' = [logs EXCEPT ![a] = logs'[a]]
    BY <1>5, <1>6
  <2> QED BY <2>1, <1>6, <1>8 DEF Logs
<1>10. /\ Logs' = Logs /\ e <= Len(logs'[a].events)
       /\ \A q \in Logs : /\ Grown(logs[q].events, logs'[q].events) /\ logs'[q].keyframes = logs[q].keyframes
                          /\ logs[q].stopped => logs'[q].stopped
                          /\ q # active => logs'[q].events = logs[q].events
       /\ e # 0 => /\ \A i \in DOMAIN captures[a] : captures[a][i].entry # e
                   /\ \A d \in delayed : d.rec = a => d.entry # e
                   /\ logs[a].navigation # e /\ \A f \in jpegs : f.rec = a => f.entry # e
  BY <1>2, <1>3, <1>4, <1>6, <1>7, <1>8, <1>9, NotedIn
<1>11. \A d \in delayed' : d \in delayed \/ (/\ e # 0 /\ inPage
                                             /\ d = [rec |-> a, reason |-> "navigate", entry |-> e])
  BY <1>5
<1>12. RecTyped'
  <2>1. delayed' \subseteq [rec : Logs, reason : {"click", "navigate"}, entry : Nat \ {0}]
    BY <1>1, <1>7, <1>11 DEF RecTyped
  <2>2. \A d, x \in delayed' : d.rec = x.rec /\ d.entry = x.entry => d = x
    BY <1>1, <1>10, <1>11 DEF RecTyped
  <2> QED BY <2>1, <2>2, <1>1, <1>5, <1>9, <1>10 DEF RecTyped
<1>13. Quietly
  BY <1>5, <1>10 DEF Quietly
<1>14. CASE ~inPage
  <2>1. RecMoves(a, e, "navigation")
    BY <1>5, <1>7, <1>8, <1>9, <1>14 DEF RecMoves
  <2>2. e # 0 => IsFree(a, e, "navigation")
    BY <1>5, <1>10, <1>14 DEF IsFree
  <2> QED BY <2>1, <2>2, <1>7, <1>12, <1>13, AskStep
<1>15. CASE inPage
  <2>1. \A q \in Logs : logs'[q].navigation = logs[q].navigation
    BY <1>7, <1>8, <1>9, <1>15
  <2>2. RecMoves(a, e, "delayed")
    BY <2>1, <1>5, <1>11 DEF RecMoves
  <2>3. e # 0 => IsFree(a, e, "delayed")
    BY <2>1, <1>10 DEF IsFree
  <2> QED BY <2>2, <2>3, <1>7, <1>12, <1>13, AskStep
<1> QED BY <1>14, <1>15

LEMMA RecSettleStep == ASSUME RecInv, NEW timed, SettleNavigationKeyframe(timed) PROVE RecInv'
<1>1. RecTyped /\ EntriesAreThere /\ DelayedOnce /\ NavigationOnce /\ TakenOnce
  BY DEF RecInv, AskedOnce
<1>2. PICK a \in Logs : a = active
  BY <1>1, TypeOfEach DEF SettleNavigationKeyframe
<1>3. PICK e : e = logs[a].navigation
  OBVIOUS
<1>4. PICK c : c = [reason |-> "navigate", entry |-> e]
  OBVIOUS
<1>5. /\ captures' = [captures EXCEPT ![a] = Append(@, c)] /\ e # 0 /\ timed \in Logs
      /\ logs' = [logs EXCEPT ![timed].navTimer = FALSE, ![a].navigation = 0, ![a].navTimer = FALSE]
      /\ UNCHANGED <<active, shot, delayed, jpegs, timelines>>
  BY <1>2, <1>3, <1>4 DEF SettleNavigationKeyframe, CaptureKeyframe
<1>6. /\ e \in Nat /\ logs \in Seq(Recordings) /\ DOMAIN logs = Logs /\ e <= Len(logs[a].events)
      /\ \A q \in Logs : logs[q] \in Recordings
  BY <1>1, <1>3, TypeOfEach DEF RecTyped, Logs, EntriesAreThere
<1>7. c \in Captures /\ c.entry = e /\ c.reason = "navigate"
  BY <1>4, <1>6 DEF Captures, Reasons
<1>8. /\ captures' \in Seq(Seq(Captures)) /\ Len(captures') = Len(captures)
      /\ \A q \in Logs : q # a => captures'[q] = captures[q]
      /\ captures'[a] # <<>> /\ Len(captures[a]) + 1 \notin DOMAIN captures[a]
      /\ DOMAIN captures'[a] = DOMAIN captures[a] \cup {Len(captures[a]) + 1}
      /\ \A i \in DOMAIN captures[a] : captures'[a][i] = captures[a][i]
      /\ captures'[a][Len(captures[a]) + 1] = c
  BY <1>1, <1>5, <1>7, ChainAsked
<1>9. \A q \in Logs : /\ logs'[q] \in Recordings /\ logs'[q].events = logs[q].events
                      /\ logs'[q].keyframes = logs[q].keyframes /\ logs'[q].stopped = logs[q].stopped
                      /\ logs'[q].navigation = IF q = a THEN 0 ELSE logs[q].navigation
  <2> SUFFICES ASSUME NEW q \in Logs
               PROVE  /\ logs'[q] \in Recordings /\ logs'[q].events = logs[q].events
                      /\ logs'[q].keyframes = logs[q].keyframes /\ logs'[q].stopped = logs[q].stopped
                      /\ logs'[q].navigation = IF q = a THEN 0 ELSE logs[q].navigation
    OBVIOUS
  <2>1. PICK l : l = [logs EXCEPT ![timed].navTimer = FALSE]
    OBVIOUS
  <2>2. l[q] = IF q = timed THEN [logs[q] EXCEPT !.navTimer = FALSE] ELSE logs[q]
    BY <2>1, <1>5, <1>6
  <2>3. /\ l[q] \in Recordings /\ l[q].events = logs[q].events /\ l[q].keyframes = logs[q].keyframes
        /\ l[q].stopped = logs[q].stopped /\ l[q].navigation = logs[q].navigation
    BY <2>2, <1>6 DEF Recordings
  <2>4. DOMAIN l = Logs
    BY <2>1, <1>6
  <2>5. logs' = [l EXCEPT ![a].navigation = 0, ![a].navTimer = FALSE]
    BY <2>1, <1>5
  <2>6. PICK l2 : l2 = [l EXCEPT ![a].navigation = 0]
    OBVIOUS
  <2>7. l2[q] = IF q = a THEN [l[q] EXCEPT !.navigation = 0] ELSE l[q]
    BY <2>4, <2>6
  <2>8. /\ l2[q] \in Recordings /\ l2[q].events = l[q].events /\ l2[q].keyframes = l[q].keyframes
        /\ l2[q].stopped = l[q].stopped /\ l2[q].navigation = IF q = a THEN 0 ELSE l[q].navigation
    BY <2>3, <2>7 DEF Recordings
  <2>9. DOMAIN l2 = Logs /\ logs' = [l2 EXCEPT ![a].navTimer = FALSE]
    BY <2>4, <2>5, <2>6
  <2>10. logs'[q] = IF q = a THEN [l2[q] EXCEPT !.navTimer = FALSE] ELSE l2[q]
    BY <2>9
  <2> QED BY <2>3, <2>8, <2>10 DEF Recordings
<1>10. logs' \in Seq(Recordings) /\ Len(logs') = Len(logs) /\ Logs' = Logs
  <2>1. DOMAIN logs' = Logs /\ Logs = 1..Len(logs) /\ Len(logs) \in Nat
    BY <1>1, <1>5, <1>6, TypeOfEach
  <2>2. logs' = [q \in 1..Len(logs) |-> logs'[q]]
    BY <2>1, <1>5
  <2> QED BY <2>1, <2>2, <1>9 DEF Logs
<1>11. RecTyped'
  BY <1>1, <1>5, <1>8, <1>10 DEF RecTyped
<1>12. Quietly
  <2>1. \A q \in Logs : Grown(logs[q].events, logs[q].events)
    BY <1>1, TypeOfEach, LogGrows
  <2>2. UNCHANGED <<active, shot, delayed, jpegs, timelines>>
    BY <1>5
  <2> QED BY <2>1, <2>2, <1>7, <1>8, <1>9, <1>10 DEF Quietly
<1>13. RecMoves(a, e, "chain")
  <2>1. UNCHANGED <<delayed, jpegs>>
    BY <1>5
  <2> QED BY <2>1, <1>7, <1>8, <1>9 DEF RecMoves
<1>14. IsFree(a, e, "chain")
  BY <1>1, <1>3, <1>5, <1>6, <1>9 DEF IsFree, NavigationOnce, DelayedOnce, TakenOnce
<1> QED BY <1>6, <1>11, <1>12, <1>13, <1>14, AskStep

\* A capture asked for where the logs stay as they are.
LEMMA ChainStep ==
  ASSUME RecInv, NEW r \in Logs, NEW c \in Captures, captures' = [captures EXCEPT ![r] = Append(@, c)],
         c.reason # "stop", UNCHANGED <<logs, active, shot, jpegs, timelines>>, delayed' \subseteq delayed,
         c.entry # 0 => /\ c.entry <= Len(logs[r].events)
                        /\ \A i \in DOMAIN captures[r] : captures[r][i].entry # c.entry
                        /\ \A d \in delayed' : d.rec = r => d.entry # c.entry
                        /\ logs[r].navigation # c.entry /\ \A f \in jpegs : f.rec = r => f.entry # c.entry
  PROVE  RecInv'
<1>1. RecTyped
  BY DEF RecInv
<1>2. /\ captures' \in Seq(Seq(Captures)) /\ Len(captures') = Len(captures)
      /\ \A q \in Logs : q # r => captures'[q] = captures[q]
      /\ captures'[r] # <<>> /\ Len(captures[r]) + 1 \notin DOMAIN captures[r]
      /\ DOMAIN captures'[r] = DOMAIN captures[r] \cup {Len(captures[r]) + 1}
      /\ \A i \in DOMAIN captures[r] : captures'[r][i] = captures[r][i]
      /\ captures'[r][Len(captures[r]) + 1] = c
  BY <1>1, ChainAsked
<1>3. PICK e \in Nat : e = c.entry
  BY DEF Captures
<1>4. RecTyped' /\ Logs' = Logs
  BY <1>1, <1>2 DEF RecTyped, Logs
<1>5. Quietly
  <2>1. \A q \in Logs : Grown(logs[q].events, logs[q].events)
    BY <1>1, TypeOfEach, LogGrows
  <2> QED BY <2>1, <1>2, <1>4 DEF Quietly
<1>6. RecMoves(r, e, "chain")
  BY <1>2, <1>3 DEF RecMoves
<1>7. e # 0 => IsFree(r, e, "chain")
  BY <1>3 DEF IsFree
<1> QED BY <1>4, <1>5, <1>6, <1>7, AskStep

LEMMA TickStep == ASSUME RecInv, NEW r \in Logs, KeyframeTick(r) PROVE RecInv'
<1>1. PICK c : c = [reason |-> "change", entry |-> 0]
  OBVIOUS
<1>2. c \in Captures /\ c.reason # "stop" /\ c.entry = 0
  BY <1>1 DEF Captures, Reasons
<1>3. captures' = [captures EXCEPT ![r] = Append(@, c)] /\ UNCHANGED <<logs, active, shot, delayed, jpegs, timelines>>
  BY <1>1 DEF KeyframeTick, CaptureKeyframe
<1> QED BY <1>2, <1>3, ChainStep

LEMMA DelayedStep == ASSUME RecInv, NEW d, DelayedDue(d) PROVE RecInv'
<1>1. RecTyped /\ EntriesAreThere /\ DelayedOnce /\ TakenOnce
  BY DEF RecInv, AskedOnce
<1>2. /\ d \in delayed /\ delayed' = delayed \ {d} /\ UNCHANGED <<logs, active, shot, jpegs, timelines>>
      /\ CaptureKeyframe(d.rec, d.reason, d.entry)
  BY DEF DelayedDue
<1>3. /\ d.rec \in Logs /\ d.reason \in {"click", "navigate"} /\ d.entry \in Nat
      /\ \A x \in delayed : d.rec = x.rec /\ d.entry = x.entry => d = x
  BY <1>1, <1>2 DEF RecTyped
<1>4. PICK c : c = [reason |-> d.reason, entry |-> d.entry]
  OBVIOUS
<1>5. c \in Captures /\ c.reason # "stop" /\ c.entry = d.entry
  BY <1>3, <1>4 DEF Captures, Reasons
<1>6. captures' = [captures EXCEPT ![d.rec] = Append(@, c)]
  BY <1>2, <1>3, <1>4 DEF CaptureKeyframe
<1>7. \A x \in delayed' : x.rec = d.rec => x.entry # d.entry
  BY <1>2, <1>3
<1>8. /\ d.entry <= Len(logs[d.rec].events) /\ \A i \in DOMAIN captures[d.rec] : captures[d.rec][i].entry # d.entry
      /\ logs[d.rec].navigation # d.entry
  BY <1>1, <1>2 DEF EntriesAreThere, DelayedOnce
<1>9. \A f \in jpegs : f.rec = d.rec => f.entry # d.entry
  <2>1. d.entry # 0
    BY <1>1, <1>2 DEF RecTyped
  <2> QED BY <2>1, <1>1, <1>2 DEF TakenOnce
<1> QED BY <1>2, <1>3, <1>5, <1>6, <1>7, <1>8, <1>9, ChainStep

LEMMA RecStopStep == ASSUME RecInv, StopRecording PROVE RecInv'
<1>1. RecTyped
  BY DEF RecInv
<1>2. PICK a \in Logs : a = active
  BY <1>1, TypeOfEach DEF StopRecording
<1>3. PICK e : e = Entry(logs[a])
  OBVIOUS
<1>4. PICK noted : noted = Record(logs[a], "stop")
  OBVIOUS
<1>5. PICK c : c = [reason |-> "stop", entry |-> e]
  OBVIOUS
<1>6. /\ logs' = [logs EXCEPT ![a] = [noted EXCEPT !.ticking = FALSE, !.navTimer = FALSE, !.stopped = TRUE]]
      /\ captures' = [captures EXCEPT ![a] = Append(@, c)]
      /\ UNCHANGED <<active, shot, delayed, jpegs, timelines>>
  BY <1>2, <1>3, <1>4, <1>5 DEF StopRecording, CaptureKeyframe
<1>7. "stop" \in Reasons /\ logs[a] \in Recordings /\ logs \in Seq(Recordings) /\ a \in DOMAIN logs
  BY <1>1, <1>2, TypeOfEach DEF RecTyped, Logs, Reasons
<1>8. /\ noted \in Recordings /\ noted.keyframes = logs[a].keyframes /\ noted.stopped = logs[a].stopped
      /\ noted.navigation = logs[a].navigation /\ e \in Nat
  BY <1>3, <1>4, <1>7, Noted, RecorderAssumption
<1>9. /\ logs'[a] \in Recordings /\ logs'[a].events = noted.events /\ logs'[a].keyframes = noted.keyframes
      /\ logs'[a].stopped = TRUE /\ logs'[a].navigation = noted.navigation
  <2>1. logs'[a] = [noted EXCEPT !.ticking = FALSE, !.navTimer = FALSE, !.stopped = TRUE]
    BY <1>6, <1>7
  <2> QED BY <2>1, <1>8 DEF Recordings
<1>10. /\ logs' \in Seq(Recordings) /\ Len(logs') = Len(logs) /\ \A q \in Logs : q # a => logs'[q] = logs[q]
  <2>1. logs' = [logs EXCEPT ![a] = logs'[a]]
    BY <1>6, <1>7
  <2> QED BY <2>1, <1>7, <1>9 DEF Logs
<1>11. /\ Logs' = Logs /\ e <= Len(logs'[a].events)
       /\ \A q \in Logs : /\ Grown(logs[q].events, logs'[q].events) /\ logs'[q].keyframes = logs[q].keyframes
                          /\ logs[q].stopped => logs'[q].stopped
                          /\ q # active => logs'[q].events = logs[q].events
       /\ e # 0 => /\ \A i \in DOMAIN captures[a] : captures[a][i].entry # e
                   /\ \A d \in delayed : d.rec = a => d.entry # e
                   /\ logs[a].navigation # e /\ \A f \in jpegs : f.rec = a => f.entry # e
  BY <1>2, <1>3, <1>4, <1>7, <1>8, <1>9, <1>10, NotedIn
<1>12. c \in Captures /\ c.entry = e /\ c.reason = "stop"
  BY <1>5, <1>7, <1>8 DEF Captures
<1>13. /\ captures' \in Seq(Seq(Captures)) /\ Len(captures') = Len(captures)
       /\ \A q \in Logs : q # a => captures'[q] = captures[q]
       /\ captures'[a] # <<>> /\ Len(captures[a]) + 1 \notin DOMAIN captures[a]
       /\ DOMAIN captures'[a] = DOMAIN captures[a] \cup {Len(captures[a]) + 1}
       /\ \A i \in DOMAIN captures[a] : captures'[a][i] = captures[a][i]
       /\ captures'[a][Len(captures[a]) + 1] = c
  BY <1>1, <1>6, <1>12, ChainAsked
<1>14. RecTyped'
  BY <1>1, <1>6, <1>10, <1>11, <1>13 DEF RecTyped
<1>15. Quietly
  BY <1>2, <1>6, <1>9, <1>11, <1>13 DEF Quietly
<1>16. RecMoves(a, e, "chain")
  BY <1>6, <1>8, <1>9, <1>10, <1>12, <1>13 DEF RecMoves
<1>17. e # 0 => IsFree(a, e, "chain")
  BY <1>6, <1>8, <1>9, <1>11 DEF IsFree
<1> QED BY <1>8, <1>14, <1>15, <1>16, <1>17, AskStep

LEMMA RecStartStep == ASSUME RecInv, NEW goal \in BOOLEAN, StartRecording(goal) PROVE RecInv'
<1>1. RecTyped
  BY DEF RecInv
<1>2. PICK n : n = Len(logs) + 1
  OBVIOUS
<1>3. PICK log : log = NewRecording(goal)
  OBVIOUS
<1>4. PICK first : first = <<[reason |-> "start", entry |-> 1]>>
  OBVIOUS
<1>5. /\ logs' = Append(logs, log) /\ active' = n /\ captures' = Append(captures, first)
      /\ shot' = Append(shot, NoName) /\ timelines' = Append(timelines, <<>>)
      /\ active = 0 /\ UNCHANGED <<delayed, jpegs>>
  BY <1>2, <1>3, <1>4 DEF StartRecording
<1>6. /\ log \in Recordings /\ Len(log.events) = 1 /\ DOMAIN log.events = {1} /\ log.events[1].frame = NoName
      /\ log.navigation = 0 /\ log.keyframes = 0 /\ log.stopped = FALSE
  <2>3. StopWaits \in BOOLEAN
    BY DEF StopWaits
  <2>1. [kind |-> "start", frame |-> NoName] \in Events
    BY DEF Events, Reasons
  <2>2. <<[kind |-> "start", frame |-> NoName]>> \in Seq(Events)
    BY <2>1
  <2> QED BY <1>3, <2>2, <2>3 DEF NewRecording, Recordings
<1>7. /\ first \in Seq(Captures) /\ DOMAIN first = {1} /\ first[1].entry = 1 /\ first[1].reason = "start"
  <2>1. [reason |-> "start", entry |-> 1] \in Captures
    BY DEF Captures, Reasons
  <2> QED BY <1>4, <2>1
<1>8. /\ Len(logs) \in Nat /\ Logs = 1..Len(logs) /\ DOMAIN captures = Logs /\ DOMAIN shot = Logs
      /\ DOMAIN timelines = Logs /\ n \in Nat /\ n # 0 /\ n \notin Logs
  BY <1>1, <1>2, TypeOfEach
<1>9. /\ Logs' = Logs \cup {n} /\ logs'[n] = log /\ \A q \in Logs : logs'[q] = logs[q]
      /\ logs' \in Seq(Recordings) /\ Len(logs') = n
  <2>1. logs \in Seq(Recordings)
    BY <1>1 DEF RecTyped
  <2> QED BY <2>1, <1>2, <1>5, <1>6, <1>8 DEF Logs
<1>10. /\ captures'[n] = first /\ \A q \in Logs : captures'[q] = captures[q]
       /\ captures' \in Seq(Seq(Captures)) /\ Len(captures') = n
  <2>1. captures \in Seq(Seq(Captures)) /\ Len(captures) = Len(logs)
    BY <1>1 DEF RecTyped
  <2> QED BY <2>1, <1>2, <1>5, <1>7, <1>8
<1>11. /\ shot'[n] = NoName /\ \A q \in Logs : shot'[q] = shot[q]
       /\ shot' \in Seq(Names \cup {NoName}) /\ Len(shot') = n
  <2>1. shot \in Seq(Names \cup {NoName}) /\ Len(shot) = Len(logs)
    BY <1>1 DEF RecTyped
  <2> QED BY <2>1, <1>2, <1>5, <1>8
<1>12. /\ timelines'[n] = <<>> /\ \A q \in Logs : timelines'[q] = timelines[q]
       /\ timelines' \in Seq(Seq(Events)) /\ Len(timelines') = n
  <2>1. timelines \in Seq(Seq(Events)) /\ Len(timelines) = Len(logs)
    BY <1>1 DEF RecTyped
  <2> QED BY <2>1, <1>2, <1>5, <1>8
<1>13. RecTyped'
  BY <1>1, <1>5, <1>8, <1>9, <1>10, <1>11, <1>12 DEF RecTyped
<1>14. /\ \A f \in jpegs : f.rec \in Logs /\ f.rec # n
       /\ \A d \in delayed : d.rec \in Logs /\ d.rec # n
  BY <1>1, <1>8 DEF RecTyped
<1>15. ShotIsLast' /\ NamesAreFresh' /\ LostIsFull'
  BY <1>5, <1>9, <1>10, <1>11, <1>14 DEF RecInv, ShotIsLast, NamesAreFresh, LostIsFull
<1>16. LinksHold'
  <2> SUFFICES ASSUME NEW q \in Logs', NEW e \in DOMAIN logs'[q].events, logs'[q].events[e].frame # NoName
               PROVE  [rec |-> q, name |-> logs'[q].events[e].frame, entry |-> e] \in jpegs
    BY <1>5 DEF LinksHold
  <2>1. q # n
    BY <1>6, <1>9
  <2>2. q \in Logs /\ logs'[q] = logs[q]
    BY <2>1, <1>9
  <2>3. LinksHold
    BY DEF RecInv
  <2>4. e \in DOMAIN logs[q].events /\ logs[q].events[e].frame # NoName
    BY <2>2
  <2>5. [rec |-> q, name |-> logs[q].events[e].frame, entry |-> e] \in jpegs
    BY <2>2, <2>3, <2>4 DEF LinksHold
  <2> QED BY <2>2, <2>5
<1>17. EntriesAreThere /\ ChainOnce /\ NavigationOnce /\ DelayedOnce /\ TakenOnce
  BY DEF RecInv, AskedOnce
<1>23. EntriesAreThere'
  <2>1. \A d \in delayed' : d.entry <= Len(logs'[d.rec].events)
    BY <1>5, <1>9, <1>14, <1>17 DEF EntriesAreThere
  <2>2. \A f \in jpegs' : f.entry <= Len(logs'[f.rec].events)
    BY <1>5, <1>9, <1>14, <1>17 DEF EntriesAreThere
  <2>3. \A q \in Logs' : logs'[q].navigation <= Len(logs'[q].events)
    BY <1>6, <1>9, <1>17 DEF EntriesAreThere
  <2>4. ASSUME NEW q \in Logs', NEW i \in DOMAIN captures'[q] PROVE captures'[q][i].entry <= Len(logs'[q].events)
    <3>1. CASE q = n
      BY <3>1, <1>6, <1>7, <1>9, <1>10
    <3>2. CASE q # n
      <4>1. q \in Logs /\ captures'[q] = captures[q] /\ logs'[q] = logs[q]
        BY <3>2, <1>9, <1>10
      <4> QED BY <4>1, <1>17 DEF EntriesAreThere
    <3> QED BY <3>1, <3>2
  <2> QED BY <2>1, <2>2, <2>3, <2>4 DEF EntriesAreThere
<1>18. ChainOnce' /\ NavigationOnce'
  <2>1. ASSUME NEW q \in Logs', NEW i \in DOMAIN captures'[q]
        PROVE  /\ \A j \in DOMAIN captures'[q] :
                    captures'[q][i].entry # 0 /\ captures'[q][i].entry = captures'[q][j].entry => i = j
               /\ logs'[q].navigation # 0 => captures'[q][i].entry # logs'[q].navigation
    <3>1. CASE q = n
      BY <3>1, <1>6, <1>7, <1>9, <1>10
    <3>2. CASE q # n
      <4>1. q \in Logs /\ captures'[q] = captures[q] /\ logs'[q] = logs[q]
        BY <3>2, <1>9, <1>10
      <4> QED BY <4>1, <1>17 DEF ChainOnce, NavigationOnce
    <3> QED BY <3>1, <3>2
  <2> QED BY <2>1 DEF ChainOnce, NavigationOnce
<1>24. DelayedOnce'
  <2> SUFFICES ASSUME NEW d \in delayed
               PROVE  /\ \A i \in DOMAIN captures'[d.rec] : captures'[d.rec][i].entry # d.entry
                      /\ logs'[d.rec].navigation # d.entry
    BY <1>5 DEF DelayedOnce
  <2>1. d.rec \in Logs /\ captures'[d.rec] = captures[d.rec] /\ logs'[d.rec] = logs[d.rec]
    BY <1>9, <1>10, <1>14
  <2> QED BY <2>1, <1>17 DEF DelayedOnce
<1>19. TakenOnce'
  <2> SUFFICES ASSUME NEW f \in jpegs, f.entry # 0
               PROVE  /\ logs'[f.rec].events[f.entry].frame = f.name
                      /\ \A i \in DOMAIN captures'[f.rec] : captures'[f.rec][i].entry # f.entry
                      /\ logs'[f.rec].navigation # f.entry
                      /\ \A d \in delayed' : d.rec = f.rec => d.entry # f.entry
    BY <1>5 DEF TakenOnce
  <2>1. f.rec \in Logs /\ captures'[f.rec] = captures[f.rec] /\ logs'[f.rec] = logs[f.rec] /\ delayed' = delayed
    BY <1>5, <1>9, <1>10, <1>14
  <2> QED BY <2>1, <1>17 DEF TakenOnce
<1>20. (\A q \in Logs : Stops(q)' = Stops(q)) /\ ~Stops(n)'
  BY <1>7, <1>10 DEF Stops
<1>21. StopsHaveStopped'
  BY <1>9, <1>12, <1>20 DEF RecInv, StopsHaveStopped
<1>22. WrittenIsOver'
  BY <1>5, <1>8, <1>9, <1>11, <1>12, <1>20 DEF RecInv, WrittenIsOver
<1> QED BY <1>13, <1>15, <1>16, <1>18, <1>19, <1>21, <1>22, <1>23, <1>24 DEF RecInv, AskedOnce

LEMMA BeginStep == ASSUME RecInv, NEW r \in Logs, CaptureBegins(r) PROVE RecInv'
<1>1. RecTyped
  BY DEF RecInv
<1>2. PICK k : k = logs[r].keyframes
  OBVIOUS
<1>3. PICK why : why = Head(captures[r]).reason
  OBVIOUS
<1>4. /\ captures[r] # <<>> /\ shot' = [shot EXCEPT ![r] = <<k, why>>]
      /\ logs' = [logs EXCEPT ![r].keyframes = k + 1, ![r].dirty = FALSE]
      /\ UNCHANGED <<active, captures, delayed, jpegs, timelines>> /\ (logs[r].stopped => why = "stop")
  <2>1. ~SkipsCapture(logs[r], Head(captures[r])) /\ captures[r] # <<>>
    BY DEF CaptureBegins
  <2>2. shot' = [shot EXCEPT ![r] = <<k, why>>] /\ UNCHANGED <<active, captures, delayed, jpegs, timelines>>
    BY <1>2, <1>3 DEF CaptureBegins
  <2>3. logs' = [logs EXCEPT ![r].keyframes = @ + 1, ![r].dirty = FALSE]
    BY DEF CaptureBegins
  <2>4. logs' = [logs EXCEPT ![r].keyframes = k + 1, ![r].dirty = FALSE]
    BY <2>3, <1>2
  <2> QED BY <2>1, <2>2, <2>4, <1>3 DEF SkipsCapture
<1>5. /\ k \in Nat /\ logs[r] \in Recordings /\ DOMAIN logs = Logs /\ DOMAIN shot = Logs /\ captures[r] \in Seq(Captures)
      /\ shot \in Seq(Names \cup {NoName}) /\ logs \in Seq(Recordings) /\ Logs = 1..Len(logs) /\ Len(logs) \in Nat
  BY <1>1, <1>2, TypeOfEach DEF RecTyped, Logs
<1>6. 1 \in DOMAIN captures[r] /\ captures[r][1].reason = why /\ why \in Reasons
  <2>1. Head(captures[r]) = captures[r][1] /\ 1 \in DOMAIN captures[r] /\ captures[r][1] \in Captures
    BY <1>4, <1>5
  <2> QED BY <2>1, <1>3 DEF Captures
<1>7. /\ logs'[r] \in Recordings /\ logs'[r].events = logs[r].events /\ logs'[r].keyframes = k + 1
      /\ logs'[r].stopped = logs[r].stopped /\ logs'[r].navigation = logs[r].navigation
      /\ \A q \in Logs : q # r => logs'[q] = logs[q]
  <2>1. PICK l : l = [logs EXCEPT ![r].keyframes = k + 1]
    OBVIOUS
  <2>2. /\ l[r] = [logs[r] EXCEPT !.keyframes = k + 1] /\ DOMAIN l = Logs
        /\ \A q \in Logs : q # r => l[q] = logs[q]
    BY <2>1, <1>5
  <2>3. /\ l[r] \in Recordings /\ l[r].events = logs[r].events /\ l[r].keyframes = k + 1
        /\ l[r].stopped = logs[r].stopped /\ l[r].navigation = logs[r].navigation
    <3>1. logs[r] \in Recordings /\ k + 1 \in Nat /\ l[r] = [logs[r] EXCEPT !.keyframes = k + 1]
      BY <2>2, <1>5
    <3> QED BY <3>1 DEF Recordings
  <2>4. logs' = [l EXCEPT ![r].dirty = FALSE]
    BY <2>1, <1>4
  <2>5. logs'[r] = [l[r] EXCEPT !.dirty = FALSE] /\ \A q \in Logs : q # r => logs'[q] = logs[q]
    BY <2>2, <2>4
  <2> QED BY <2>3, <2>5 DEF Recordings
<1>8. logs' \in Seq(Recordings) /\ Len(logs') = Len(logs) /\ Logs' = Logs
  <2>1. DOMAIN logs' = Logs /\ Logs = 1..Len(logs) /\ Len(logs) \in Nat
    BY <1>4, <1>5
  <2>2. logs' = [q \in 1..Len(logs) |-> logs'[q]]
    BY <1>4, <2>1
  <2>3. \A q \in Logs : logs[q] \in Recordings
    BY <1>1, TypeOfEach
  <2>4. \A q \in Logs : logs'[q] \in Recordings
    BY <2>3, <1>7
  <2> QED BY <2>1, <2>2, <2>4 DEF Logs
<1>9. /\ shot'[r] = <<k, why>> /\ shot'[r] \in Names /\ \A q \in Logs : q # r => shot'[q] = shot[q]
      /\ shot' \in Seq(Names \cup {NoName}) /\ Len(shot') = Len(shot) /\ shot'[r][1] = k
  <2>1. <<k, why>> \in Names
    BY <1>5, <1>6 DEF Names
  <2>2. shot' = [shot EXCEPT ![r] = shot'[r]] /\ shot'[r] = <<k, why>>
    BY <1>4, <1>5
  <2>3. shot'[r] \in Names \cup {NoName}
    BY <2>1, <2>2
  <2>4. shot' \in Seq(Names \cup {NoName}) /\ Len(shot') = Len(shot)
    <3>1. shot \in Seq(Names \cup {NoName}) /\ r \in DOMAIN shot
      BY <1>5
    <3> HIDE DEF NoName
    <3> QED BY <3>1, <2>2, <2>3
  <2> QED BY <2>1, <2>2, <2>4, <1>4, <1>5
<1>10. RecTyped'
  BY <1>1, <1>4, <1>8, <1>9 DEF RecTyped
<1>11. ShotIsLast'
  BY <1>4, <1>7, <1>8, <1>9 DEF RecInv, ShotIsLast
<1>12. \A f \in jpegs : f.rec \in Logs /\ f.name \in Names
  BY <1>1 DEF RecTyped
<1>13. NamesAreFresh'
  <2> SUFFICES ASSUME NEW f \in jpegs
               PROVE  /\ f.name[1] < logs'[f.rec].keyframes
                      /\ shot'[f.rec] # NoName => f.name[1] < shot'[f.rec][1]
    BY <1>4 DEF NamesAreFresh
  <2>1. /\ f.name[1] < logs[f.rec].keyframes /\ f.name[1] \in Nat
        /\ shot[f.rec] # NoName => f.name[1] < shot[f.rec][1]
    BY <1>12, NamesAreNames DEF RecInv, NamesAreFresh
  <2>2. CASE f.rec = r
    BY <2>1, <2>2, <1>2, <1>5, <1>7, <1>9
  <2>3. CASE f.rec # r
    BY <2>1, <2>3, <1>7, <1>9, <1>12
  <2> QED BY <2>2, <2>3
<1>14. \A q \in Logs : /\ logs'[q].events = logs[q].events /\ logs'[q].stopped = logs[q].stopped
                       /\ logs'[q].navigation = logs[q].navigation
  BY <1>7
<1>20. LinksHold /\ LostIsFull /\ EntriesAreThere /\ ChainOnce /\ NavigationOnce /\ DelayedOnce /\ TakenOnce
  BY DEF RecInv, AskedOnce
<1>21. LostIsFull'
  BY <1>4, <1>12, <1>14, <1>20 DEF LostIsFull
<1>15. LinksHold'
  <2> SUFFICES ASSUME NEW q \in Logs, NEW e \in DOMAIN logs'[q].events, logs'[q].events[e].frame # NoName
               PROVE  [rec |-> q, name |-> logs'[q].events[e].frame, entry |-> e] \in jpegs
    BY <1>4, <1>8 DEF LinksHold
  <2>1. logs'[q].events = logs[q].events
    BY <1>14
  <2>2. e \in DOMAIN logs[q].events /\ logs[q].events[e].frame # NoName
    BY <2>1
  <2>3. [rec |-> q, name |-> logs[q].events[e].frame, entry |-> e] \in jpegs
    BY <2>2, <1>20 DEF LinksHold
  <2> QED BY <2>1, <2>3
<1>16. AskedOnce'
  <2>1. \A d \in delayed : d.rec \in Logs
    BY <1>1 DEF RecTyped
  <2>2. EntriesAreThere'
    BY <1>4, <1>8, <1>12, <1>14, <1>20, <2>1 DEF EntriesAreThere
  <2>3. ChainOnce'
    BY <1>4, <1>8, <1>20 DEF ChainOnce
  <2>4. NavigationOnce'
    <3> SUFFICES ASSUME NEW q \in Logs, NEW i \in DOMAIN captures[q], logs'[q].navigation # 0
                 PROVE  captures[q][i].entry # logs'[q].navigation
      BY <1>4, <1>8 DEF NavigationOnce
    <3>1. logs'[q].navigation = logs[q].navigation
      BY <1>14
    <3> QED BY <3>1, <1>20 DEF NavigationOnce
  <2>5. DelayedOnce'
    BY <1>4, <1>14, <1>20, <2>1 DEF DelayedOnce
  <2>6. TakenOnce'
    <3> SUFFICES ASSUME NEW f \in jpegs, f.entry # 0
                 PROVE  /\ logs'[f.rec].events[f.entry].frame = f.name
                        /\ \A i \in DOMAIN captures[f.rec] : captures[f.rec][i].entry # f.entry
                        /\ logs'[f.rec].navigation # f.entry
                        /\ \A d \in delayed : d.rec = f.rec => d.entry # f.entry
      BY <1>4 DEF TakenOnce
    <3>1. logs'[f.rec].events = logs[f.rec].events /\ logs'[f.rec].navigation = logs[f.rec].navigation
      BY <1>12, <1>14
    <3> QED BY <3>1, <1>20 DEF TakenOnce
  <2> QED BY <2>2, <2>3, <2>4, <2>5, <2>6 DEF AskedOnce
<1>17. \A q \in Logs : Stops(q)' = Stops(q)
  BY <1>4 DEF Stops
<1>18. StopsHaveStopped'
  BY <1>4, <1>8, <1>14, <1>17 DEF RecInv, StopsHaveStopped
<1>19. WrittenIsOver'
  <2> SUFFICES ASSUME NEW q \in Logs, timelines[q] # <<>>
               PROVE  active # q /\ (~Stops(q) => timelines[q] = logs'[q].events /\ shot'[q] = NoName)
    BY <1>4, <1>8, <1>17 DEF WrittenIsOver
  <2>1. active # q /\ (~Stops(q) => timelines[q] = logs[q].events /\ shot[q] = NoName)
    BY DEF RecInv, WrittenIsOver
  <2>2. CASE q = r
    <3>1. Stops(r)
      <4>1. logs[r].stopped
        BY <2>2 DEF RecInv, StopsHaveStopped
      <4> QED BY <4>1, <1>4, <1>6 DEF Stops
    <3> QED BY <3>1, <2>1, <2>2
  <2>3. CASE q # r
    BY <2>1, <2>3, <1>9, <1>14
  <2> QED BY <2>2, <2>3
<1> QED BY <1>10, <1>11, <1>13, <1>15, <1>16, <1>18, <1>19, <1>21 DEF RecInv

\* A capture that is over leaves its chain; what its log and the pictures become is said apart.
LEMMA OverStep ==
  ASSUME RecInv, NEW r \in Logs, captures[r] # <<>>, CaptureOver(r),
         logs' \in Seq(Recordings), Len(logs') = Len(logs), \A q \in Logs : q # r => logs'[q] = logs[q],
         logs'[r].stopped = logs[r].stopped, logs'[r].navigation = logs[r].navigation,
         Len(logs[r].events) <= Len(logs'[r].events), shot[r] = NoName => logs' = logs,
         jpegs' \subseteq [rec : Logs, name : Names, entry : Nat],
         \A f \in jpegs' : f.entry <= Len(logs'[f.rec].events) /\ f.name[1] < logs'[f.rec].keyframes
                           /\ (f.rec # r => f \in jpegs),
         LinksHold', TakenOnce', LostIsFull'
  PROVE  RecInv'
<1>1. RecTyped /\ EntriesAreThere /\ ChainOnce /\ DelayedOnce /\ NavigationOnce
  BY DEF RecInv, AskedOnce
<1>2. /\ DOMAIN captures = Logs /\ DOMAIN shot = Logs /\ DOMAIN timelines = Logs /\ Logs = 1..Len(logs)
      /\ captures \in Seq(Seq(Captures)) /\ captures[r] \in Seq(Captures)
      /\ shot \in Seq(Names \cup {NoName}) /\ timelines \in Seq(Seq(Events)) /\ Logs' = Logs /\ Len(logs) \in Nat
  BY <1>1, TypeOfEach DEF RecTyped, Logs
<1>3. PICK rest : rest = Tail(captures[r])
  OBVIOUS
<1>4. PICK why : why = captures[r][1].reason
  OBVIOUS
<1>5. /\ rest \in Seq(Captures) /\ Head(captures[r]) = captures[r][1] /\ 1 \in DOMAIN captures[r]
      /\ \A i \in DOMAIN rest : i + 1 \in DOMAIN captures[r] /\ i + 1 # 1 /\ i \in Nat /\ rest[i] = captures[r][i + 1]
      /\ \A j \in DOMAIN captures[r] : j # 1 => j - 1 \in DOMAIN rest /\ rest[j - 1] = captures[r][j]
  BY <1>2, <1>3, ChainGoesOn
<1>6. /\ captures' = [captures EXCEPT ![r] = rest] /\ shot' = [shot EXCEPT ![r] = NoName] /\ delayed' = delayed
      /\ why = "stop" => active' = 0 /\ timelines' = [timelines EXCEPT ![r] = logs'[r].events]
      /\ why # "stop" => active' = active /\ timelines' = timelines
  <2>1. /\ captures' = [captures EXCEPT ![r] = Tail(@)] /\ shot' = [shot EXCEPT ![r] = NoName] /\ delayed' = delayed
        /\ Head(captures[r]).reason = "stop" => StopContinues(r)
        /\ Head(captures[r]).reason # "stop" => active' = active /\ timelines' = timelines
    BY DEF CaptureOver
  <2>2. captures' = [captures EXCEPT ![r] = rest]
    BY <2>1, <1>3
  <2> QED BY <2>1, <2>2, <1>4, <1>5 DEF StopContinues
<1>7. /\ captures'[r] = rest /\ \A q \in Logs : q # r => captures'[q] = captures[q]
      /\ captures' \in Seq(Seq(Captures)) /\ Len(captures') = Len(captures)
  BY <1>2, <1>5, <1>6
<1>8. /\ shot'[r] = NoName /\ \A q \in Logs : q # r => shot'[q] = shot[q]
      /\ shot' \in Seq(Names \cup {NoName}) /\ Len(shot') = Len(shot)
  <2>1. NoName \in Names \cup {NoName}
    OBVIOUS
  <2> HIDE DEF NoName
  <2> QED BY <2>1, <1>2, <1>6
<1>9. logs'[r].events \in Seq(Events) /\ Len(logs'[r].events) \in Nat
  <2>1. r \in DOMAIN logs'
    BY <1>2 DEF Logs
  <2>2. logs'[r] \in Recordings
    BY <2>1
  <2>3. logs'[r].events \in Seq(Events)
    BY <2>2 DEF Recordings
  <2> QED BY <2>3
<1>10. /\ timelines' \in Seq(Seq(Events)) /\ Len(timelines') = Len(timelines)
       /\ \A q \in Logs : q # r => timelines'[q] = timelines[q]
       /\ why = "stop" => timelines'[r] = logs'[r].events
       /\ why # "stop" => timelines'[r] = timelines[r]
  <2>1. CASE why = "stop"
    <3>1. timelines' = [timelines EXCEPT ![r] = logs'[r].events]
      BY <2>1, <1>6
    <3>2. PICK written : written = logs'[r].events
      OBVIOUS
    <3>3. timelines' = [timelines EXCEPT ![r] = written] /\ written \in Seq(Events)
      BY <3>1, <3>2, <1>9
    <3>4. timelines' \in Seq(Seq(Events)) /\ Len(timelines') = Len(timelines)
      BY <3>3, <1>2
    <3>5. timelines'[r] = written /\ \A q \in Logs : q # r => timelines'[q] = timelines[q]
      BY <3>3, <1>2
    <3> QED BY <2>1, <3>2, <3>4, <3>5
  <2>2. CASE why # "stop"
    BY <2>2, <1>2, <1>6
  <2> QED BY <2>1, <2>2
<1>11. RecTyped'
  <2>1. active' \in 0..Len(logs')
    BY <1>1, <1>2, <1>6 DEF RecTyped
  <2> QED BY <2>1, <1>1, <1>2, <1>6, <1>7, <1>8, <1>10 DEF RecTyped
<1>12. \A q \in Logs : /\ Len(logs[q].events) <= Len(logs'[q].events) /\ logs'[q].navigation = logs[q].navigation
                       /\ logs'[q].stopped = logs[q].stopped /\ Len(logs[q].events) \in Nat
                       /\ Len(logs'[q].events) \in Nat
  <2>1. \A q \in Logs : Len(logs[q].events) \in Nat
    BY <1>1, TypeOfEach
  <2> SUFFICES ASSUME NEW q \in Logs
               PROVE  /\ Len(logs[q].events) <= Len(logs'[q].events) /\ logs'[q].navigation = logs[q].navigation
                      /\ logs'[q].stopped = logs[q].stopped /\ Len(logs[q].events) \in Nat
                      /\ Len(logs'[q].events) \in Nat
    OBVIOUS
  <2>2. CASE q = r
    BY <2>1, <2>2, <1>9
  <2>3. CASE q # r
    <3>1. logs'[q] = logs[q]
      BY <2>3
    <3> QED BY <2>1, <3>1
  <2> QED BY <2>2, <2>3
<1>13. ShotIsLast'
  <2>1. ASSUME NEW q \in Logs, shot'[q] # NoName PROVE captures'[q] # <<>> /\ logs'[q].keyframes = shot'[q][1] + 1
    <3>1. q # r
      BY <2>1, <1>8
    <3>2. shot'[q] = shot[q] /\ captures'[q] = captures[q] /\ logs'[q] = logs[q]
      BY <3>1, <1>7, <1>8
    <3> QED BY <3>2, <2>1 DEF RecInv, ShotIsLast
  <2> QED BY <2>1, <1>2 DEF ShotIsLast
<1>14. NamesAreFresh'
  <2>1. ASSUME NEW f \in jpegs', shot'[f.rec] # NoName PROVE f.name[1] < shot'[f.rec][1]
    <3>1. f.rec # r /\ f.rec \in Logs
      BY <2>1, <1>8
    <3>2. shot'[f.rec] = shot[f.rec] /\ f \in jpegs
      BY <3>1, <1>8
    <3> QED BY <3>2, <2>1 DEF RecInv, NamesAreFresh
  <2> QED BY <2>1 DEF NamesAreFresh
\* What a chain asks for is what it asked for before.
<1>15. \A q \in Logs : \A i \in DOMAIN captures'[q] :
         \E k \in DOMAIN captures[q] : captures'[q][i] = captures[q][k] /\ (q = r => k = i + 1 /\ i \in Nat) /\ (q # r => k = i)
  <2> SUFFICES ASSUME NEW q \in Logs, NEW i \in DOMAIN captures'[q]
               PROVE  \E k \in DOMAIN captures[q] : /\ captures'[q][i] = captures[q][k]
                                                    /\ q = r => k = i + 1 /\ i \in Nat
                                                    /\ q # r => k = i
    OBVIOUS
  <2>1. CASE q = r
    BY <2>1, <1>5, <1>7
  <2>2. CASE q # r
    BY <2>2, <1>7
  <2> QED BY <2>1, <2>2
<1>16. (\A d \in delayed : d.rec \in Logs) /\ \A f \in jpegs' : f.rec \in Logs
  BY <1>1 DEF RecTyped
<1>17. EntriesAreThere'
  <2>1. ASSUME NEW q \in Logs, NEW i \in DOMAIN captures'[q] PROVE captures'[q][i].entry <= Len(logs'[q].events)
    <3>1. PICK k \in DOMAIN captures[q] : captures'[q][i] = captures[q][k]
      BY <1>15
    <3>2. captures[q][k].entry <= Len(logs[q].events)
      BY <1>1 DEF EntriesAreThere
    <3>3. captures[q][k].entry \in Nat
      <4>1. captures[q] \in Seq(Captures)
        BY <1>1, TypeOfEach
      <4>2. captures[q][k] \in Captures
        BY <4>1
      <4> QED BY <4>2 DEF Captures
    <3> QED BY <3>1, <3>2, <3>3, <1>12
  <2>2. ASSUME NEW q \in Logs PROVE logs'[q].navigation <= Len(logs'[q].events)
    <3>1. logs[q].navigation <= Len(logs[q].events) /\ logs[q].navigation \in Nat
      BY <1>1, TypeOfEach DEF EntriesAreThere
    <3> QED BY <3>1, <1>12
  <2>3. ASSUME NEW d \in delayed PROVE d.entry <= Len(logs'[d.rec].events)
    <3>1. d.entry <= Len(logs[d.rec].events) /\ d.entry \in Nat
      BY <1>1 DEF EntriesAreThere, RecTyped
    <3> QED BY <3>1, <1>12, <1>16
  <2> QED BY <2>1, <2>2, <2>3, <1>2, <1>6 DEF EntriesAreThere
<1>18. ChainOnce'
  <2> SUFFICES ASSUME NEW q \in Logs, NEW i \in DOMAIN captures'[q], NEW j \in DOMAIN captures'[q],
                      captures'[q][i].entry # 0, captures'[q][i].entry = captures'[q][j].entry
               PROVE  i = j
    BY <1>2 DEF ChainOnce
  <2>1. PICK k \in DOMAIN captures[q] : captures'[q][i] = captures[q][k] /\ (q = r => k = i + 1 /\ i \in Nat) /\ (q # r => k = i)
    BY <1>15
  <2>2. PICK l \in DOMAIN captures[q] : captures'[q][j] = captures[q][l] /\ (q = r => l = j + 1 /\ j \in Nat) /\ (q # r => l = j)
    BY <1>15
  <2>3. k = l
    BY <2>1, <2>2, <1>1 DEF ChainOnce
  <2> QED BY <2>1, <2>2, <2>3
<1>19. DelayedOnce'
  <2> SUFFICES ASSUME NEW d \in delayed
               PROVE  /\ \A i \in DOMAIN captures'[d.rec] : captures'[d.rec][i].entry # d.entry
                      /\ logs'[d.rec].navigation # d.entry
    BY <1>6 DEF DelayedOnce
  <2>1. ASSUME NEW i \in DOMAIN captures'[d.rec] PROVE captures'[d.rec][i].entry # d.entry
    <3>1. PICK k \in DOMAIN captures[d.rec] : captures'[d.rec][i] = captures[d.rec][k]
      BY <1>15, <1>16
    <3> QED BY <3>1, <1>1 DEF DelayedOnce
  <2> QED BY <2>1, <1>1, <1>12, <1>16 DEF DelayedOnce
<1>20. NavigationOnce'
  <2> SUFFICES ASSUME NEW q \in Logs, NEW i \in DOMAIN captures'[q], logs'[q].navigation # 0
               PROVE  captures'[q][i].entry # logs'[q].navigation
    BY <1>2 DEF NavigationOnce
  <2>1. PICK k \in DOMAIN captures[q] : captures'[q][i] = captures[q][k]
    BY <1>15
  <2>2. logs'[q].navigation = logs[q].navigation
    BY <1>12
  <2> QED BY <2>1, <2>2, <1>1 DEF NavigationOnce
<1>21. \A q \in Logs : Stops(q)' => Stops(q)
  BY <1>15 DEF Stops
<1>22. why = "stop" => Stops(r)
  BY <1>4, <1>5 DEF Stops
<1>23. StopsHaveStopped'
  <2>1. ASSUME NEW q \in Logs, Stops(q)' \/ timelines'[q] # <<>> PROVE logs'[q].stopped
    <3>1. Stops(q) \/ timelines[q] # <<>>
      BY <2>1, <1>10, <1>21, <1>22
    <3> QED BY <3>1, <1>12 DEF RecInv, StopsHaveStopped
  <2> QED BY <2>1, <1>2 DEF StopsHaveStopped
<1>24. WrittenIsOver'
  <2>1. ASSUME NEW q \in Logs, timelines'[q] # <<>>
        PROVE  active' # q /\ (~Stops(q)' => timelines'[q] = logs'[q].events /\ shot'[q] = NoName)
    <3>1. active' \in {active, 0} /\ q # 0
      BY <1>2, <1>6
    <3>2. CASE q # r
      <4>1. /\ timelines'[q] = timelines[q] /\ shot'[q] = shot[q] /\ logs'[q] = logs[q] /\ captures'[q] = captures[q]
        BY <3>2, <1>7, <1>8, <1>10
      <4>2. Stops(q)' = Stops(q)
        BY <4>1 DEF Stops
      <4> QED BY <2>1, <3>1, <4>1, <4>2 DEF RecInv, WrittenIsOver
    <3>3. CASE q = r /\ why = "stop"
      BY <3>1, <3>3, <1>6, <1>8, <1>10
    <3>4. CASE q = r /\ why # "stop"
      <4>1. timelines'[r] = timelines[r] /\ active' = active /\ shot'[r] = NoName
        BY <3>4, <1>6, <1>8, <1>10
      <4>2. active # r /\ (~Stops(r) => timelines[r] = logs[r].events /\ shot[r] = NoName)
        BY <2>1, <3>4, <4>1 DEF RecInv, WrittenIsOver
      <4>3. ~Stops(r)' => ~Stops(r)
        <5>1. ASSUME NEW i \in DOMAIN captures[r], captures[r][i].reason = "stop" PROVE Stops(r)'
          <6>1. i # 1
            BY <5>1, <3>4, <1>4
          <6>2. i - 1 \in DOMAIN captures'[r] /\ captures'[r][i - 1].reason = "stop"
            BY <6>1, <5>1, <1>5, <1>7
          <6> QED BY <6>2 DEF Stops
        <5> QED BY <5>1 DEF Stops
      <4> QED BY <3>4, <4>1, <4>2, <4>3
    <3> QED BY <3>2, <3>3, <3>4
  <2> QED BY <2>1, <1>2 DEF WrittenIsOver
<1> QED BY <1>11, <1>13, <1>14, <1>17, <1>18, <1>19, <1>20, <1>23, <1>24 DEF RecInv, AskedOnce

LEMMA SkipStep == ASSUME RecInv, NEW r \in Logs, CaptureSkipped(r) PROVE RecInv'
<1>1. RecTyped /\ EntriesAreThere /\ TakenOnce /\ LinksHold /\ LostIsFull /\ NamesAreFresh
  BY DEF RecInv, AskedOnce
<1>2. captures[r] # <<>> /\ CaptureOver(r) /\ UNCHANGED <<logs, jpegs>> /\ delayed' = delayed
  BY DEF CaptureSkipped, CaptureOver
<1>3. Logs' = Logs /\ Len(logs[r].events) \in Nat
  BY <1>1, <1>2, TypeOfEach DEF Logs
<1>4. LinksHold' /\ LostIsFull'
  BY <1>1, <1>2, <1>3 DEF LinksHold, LostIsFull
<1>5. PICK rest : rest = Tail(captures[r])
  OBVIOUS
<1>6. captures' = [captures EXCEPT ![r] = rest] /\ DOMAIN captures = Logs /\ captures[r] \in Seq(Captures)
  BY <1>1, <1>2, <1>5, TypeOfEach DEF CaptureOver
<1>7. /\ \A q \in Logs : q # r => captures'[q] = captures[q]
      /\ captures'[r] = rest
      /\ \A i \in DOMAIN rest : i + 1 \in DOMAIN captures[r] /\ rest[i] = captures[r][i + 1]
  BY <1>2, <1>5, <1>6, ChainGoesOn
<1>8. \A f \in jpegs : f.rec \in Logs
  BY <1>1 DEF RecTyped
<1>9. TakenOnce'
  <2> SUFFICES ASSUME NEW f \in jpegs, f.entry # 0
               PROVE  /\ logs[f.rec].events[f.entry].frame = f.name
                      /\ \A i \in DOMAIN captures'[f.rec] : captures'[f.rec][i].entry # f.entry
                      /\ logs[f.rec].navigation # f.entry
                      /\ \A d \in delayed : d.rec = f.rec => d.entry # f.entry
    BY <1>2 DEF TakenOnce
  <2>1. \A i \in DOMAIN captures'[f.rec] : captures'[f.rec][i].entry # f.entry
    BY <1>1, <1>7, <1>8 DEF TakenOnce
  <2> QED BY <2>1, <1>1 DEF TakenOnce
<1>10. jpegs' \subseteq [rec : Logs, name : Names, entry : Nat]
  BY <1>1, <1>2 DEF RecTyped
<1>11. \A f \in jpegs' : f.entry <= Len(logs'[f.rec].events) /\ f.name[1] < logs'[f.rec].keyframes
                          /\ (f.rec # r => f \in jpegs)
  BY <1>1, <1>2 DEF EntriesAreThere, NamesAreFresh
<1>12. logs' \in Seq(Recordings) /\ Len(logs[r].events) <= Len(logs'[r].events)
  BY <1>1, <1>2, <1>3 DEF RecTyped
<1> QED BY <1>2, <1>4, <1>9, <1>10, <1>11, <1>12, OverStep

LEMMA FailStep == ASSUME RecInv, NEW r \in Logs, CaptureFails(r) PROVE RecInv'
<1>1. /\ RecTyped /\ EntriesAreThere /\ TakenOnce /\ LinksHold /\ LostIsFull /\ NamesAreFresh /\ ShotIsLast
  BY DEF RecInv, AskedOnce
<1>2. /\ shot[r] # NoName /\ CaptureOver(r) /\ jpegs' = jpegs /\ delayed' = delayed
      /\ logs' = [logs EXCEPT ![r].keyframes = @ - 1]
  BY DEF CaptureFails, CaptureOver
<1>3. /\ captures[r] # <<>> /\ logs[r].keyframes = shot[r][1] + 1 /\ shot[r] \in Names /\ shot[r][1] \in Nat
      /\ logs[r] \in Recordings /\ Len(logs[r].events) \in Nat /\ DOMAIN logs = Logs /\ logs \in Seq(Recordings)
      /\ Logs = 1..Len(logs) /\ Len(logs) \in Nat
  BY <1>1, <1>2, TypeOfEach, NamesAreNames DEF ShotIsLast, RecTyped, Logs
<1>4. PICK log : log = [logs[r] EXCEPT !.keyframes = shot[r][1]]
  OBVIOUS
<1>5. logs' = [logs EXCEPT ![r] = log]
  <2>1. shot[r][1] = logs[r].keyframes - 1
    BY <1>3
  <2> QED BY <2>1, <1>2, <1>4
<1>6. /\ log \in Recordings /\ log.events = logs[r].events /\ log.keyframes = shot[r][1]
      /\ log.stopped = logs[r].stopped /\ log.navigation = logs[r].navigation
  BY <1>3, <1>4 DEF Recordings
<1>7. /\ logs' \in Seq(Recordings) /\ Len(logs') = Len(logs) /\ logs'[r] = log
      /\ \A q \in Logs : q # r => logs'[q] = logs[q]
  BY <1>3, <1>5, <1>6
<1>8. Logs' = Logs /\ \A q \in Logs : logs'[q].events = logs[q].events /\ logs'[q].navigation = logs[q].navigation
  BY <1>6, <1>7 DEF Logs
<1>9. \A f \in jpegs : f.rec \in Logs /\ f.name \in Names
  BY <1>1 DEF RecTyped
<1>10. LostIsFull'
  BY <1>1, <1>2, <1>8, <1>9 DEF LostIsFull
<1>11. LinksHold'
  <2> SUFFICES ASSUME NEW q \in Logs, NEW e \in DOMAIN logs'[q].events, logs'[q].events[e].frame # NoName
               PROVE  [rec |-> q, name |-> logs'[q].events[e].frame, entry |-> e] \in jpegs
    BY <1>2, <1>8 DEF LinksHold
  <2>1. logs'[q].events = logs[q].events
    BY <1>8
  <2>2. e \in DOMAIN logs[q].events /\ logs[q].events[e].frame # NoName
    BY <2>1
  <2>3. [rec |-> q, name |-> logs[q].events[e].frame, entry |-> e] \in jpegs
    BY <2>2, <1>1 DEF LinksHold
  <2> QED BY <2>1, <2>3
<1>12. PICK rest : rest = Tail(captures[r])
  OBVIOUS
<1>13. captures' = [captures EXCEPT ![r] = rest] /\ DOMAIN captures = Logs /\ captures[r] \in Seq(Captures)
  BY <1>1, <1>2, <1>12, TypeOfEach DEF CaptureOver
<1>14. /\ \A q \in Logs : q # r => captures'[q] = captures[q]
       /\ captures'[r] = rest
       /\ \A i \in DOMAIN rest : i + 1 \in DOMAIN captures[r] /\ rest[i] = captures[r][i + 1]
  BY <1>3, <1>12, <1>13, ChainGoesOn
<1>15. TakenOnce'
  <2> SUFFICES ASSUME NEW f \in jpegs, f.entry # 0
               PROVE  /\ logs'[f.rec].events[f.entry].frame = f.name
                      /\ \A i \in DOMAIN captures'[f.rec] : captures'[f.rec][i].entry # f.entry
                      /\ logs'[f.rec].navigation # f.entry
                      /\ \A d \in delayed : d.rec = f.rec => d.entry # f.entry
    BY <1>2 DEF TakenOnce
  <2>1. \A i \in DOMAIN captures'[f.rec] : captures'[f.rec][i].entry # f.entry
    BY <1>1, <1>9, <1>14 DEF TakenOnce
  <2>2. logs'[f.rec].events = logs[f.rec].events /\ logs'[f.rec].navigation = logs[f.rec].navigation
    BY <1>8, <1>9
  <2> QED BY <2>1, <2>2, <1>1 DEF TakenOnce
<1>16. jpegs' \subseteq [rec : Logs, name : Names, entry : Nat]
  BY <1>1, <1>2 DEF RecTyped
<1>17. ASSUME NEW f \in jpegs'
       PROVE  /\ f.entry <= Len(logs'[f.rec].events) /\ f.name[1] < logs'[f.rec].keyframes
              /\ f.rec # r => f \in jpegs
  <2>1. /\ f \in jpegs /\ f.rec \in Logs /\ f.entry <= Len(logs[f.rec].events) /\ f.name[1] < logs[f.rec].keyframes
        /\ shot[f.rec] # NoName => f.name[1] < shot[f.rec][1]
    BY <1>1, <1>2, <1>9 DEF EntriesAreThere, NamesAreFresh
  <2>2. f.entry <= Len(logs'[f.rec].events)
    BY <2>1, <1>8
  <2>3. f.name[1] < logs'[f.rec].keyframes
    BY <2>1, <1>2, <1>6, <1>7
  <2> QED BY <2>1, <2>2, <2>3
<1>18. Len(logs[r].events) <= Len(logs'[r].events) /\ logs'[r].stopped = logs[r].stopped /\ logs'[r].navigation = logs[r].navigation
  BY <1>3, <1>6, <1>7
<1> QED BY <1>2, <1>3, <1>7, <1>10, <1>11, <1>15, <1>16, <1>17, <1>18, OverStep

LEMMA TakeStep == ASSUME RecInv, NEW r \in Logs, CaptureSucceeds(r) PROVE RecInv'
<1>1. /\ RecTyped /\ EntriesAreThere /\ TakenOnce /\ LinksHold /\ LostIsFull /\ NamesAreFresh /\ ShotIsLast
      /\ ChainOnce /\ DelayedOnce /\ NavigationOnce
  BY DEF RecInv, AskedOnce
<1>2. PICK asked : asked = Head(captures[r]).entry
  OBVIOUS
<1>3. PICK entry : entry = IF asked # 0 THEN asked ELSE Entry(logs[r])
  OBVIOUS
<1>4. PICK log : log = IF asked # 0 THEN logs[r] ELSE Record(logs[r], "change")
  OBVIOUS
<1>5. PICK new : new = IF entry = 0 THEN log ELSE [log EXCEPT !.events[entry].frame = shot[r]]
  OBVIOUS
<1>6. PICK file : file = [rec |-> r, name |-> shot[r], entry |-> entry]
  OBVIOUS
<1>7. /\ shot[r] # NoName /\ logs' = [logs EXCEPT ![r] = new] /\ CaptureOver(r) /\ delayed' = delayed
      /\ jpegs' = {f \in jpegs : f.rec # r \/ f.name # shot[r]} \cup {file}
  BY <1>2, <1>3, <1>4, <1>5, <1>6 DEF CaptureSucceeds, CaptureOver
<1>8. /\ captures[r] # <<>> /\ captures[r] \in Seq(Captures) /\ logs[r].keyframes = shot[r][1] + 1 /\ shot[r] \in Names
      /\ shot[r][1] \in Nat /\ logs[r] \in Recordings /\ DOMAIN logs = Logs /\ logs \in Seq(Recordings)
      /\ logs[r].events \in Seq(Events) /\ Len(logs[r].events) \in Nat /\ DOMAIN captures = Logs
  BY <1>1, <1>7, TypeOfEach, NamesAreNames DEF ShotIsLast, RecTyped, Logs
<1>9. PICK rest : rest = Tail(captures[r])
  OBVIOUS
<1>10. /\ 1 \in DOMAIN captures[r] /\ captures[r][1].entry = asked /\ asked \in Nat
       /\ \A i \in DOMAIN rest : i + 1 \in DOMAIN captures[r] /\ i + 1 # 1 /\ rest[i] = captures[r][i + 1]
  <2>1. /\ 1 \in DOMAIN captures[r] /\ Head(captures[r]) = captures[r][1] /\ captures[r][1] \in Captures
    BY <1>8, ChainGoesOn
  <2>2. captures[r][1].entry \in Nat
    BY <2>1 DEF Captures
  <2> QED BY <2>1, <2>2, <1>2, <1>8, <1>9, ChainGoesOn
<1>11. /\ captures'[r] = rest /\ \A q \in Logs : q # r => captures'[q] = captures[q]
  <2>1. captures' = [captures EXCEPT ![r] = rest]
    BY <1>7, <1>9 DEF CaptureOver
  <2> QED BY <2>1, <1>8
\* The log the picture goes to, and its entry.
<1>12. /\ log \in Recordings /\ Grown(logs[r].events, log.events) /\ log.keyframes = logs[r].keyframes
       /\ log.stopped = logs[r].stopped /\ log.navigation = logs[r].navigation /\ entry \in Nat
       /\ entry <= Len(log.events) /\ (entry = 0 => Len(logs[r].events) >= MaxEvents)
       /\ entry # 0 => entry = asked \/ (asked = 0 /\ entry > Len(logs[r].events))
  <2>1. CASE asked # 0
    <3>1. asked <= Len(logs[r].events)
      BY <1>1, <1>10 DEF EntriesAreThere
    <3> QED BY <2>1, <3>1, <1>3, <1>4, <1>8, <1>10, LogGrows
  <2>2. CASE asked = 0
    <3>1. "change" \in Reasons
      BY DEF Reasons
    <3> QED BY <2>2, <3>1, <1>3, <1>4, <1>8, Noted, RecorderAssumption
  <2> QED BY <2>1, <2>2
<1>13. log.events \in Seq(Events) /\ Len(log.events) \in Nat /\ DOMAIN log.events = 1..Len(log.events)
  BY <1>12 DEF Recordings
<1>14. /\ new \in Recordings /\ new.keyframes = log.keyframes /\ new.stopped = log.stopped
       /\ new.navigation = log.navigation /\ Len(new.events) = Len(log.events)
       /\ DOMAIN new.events = DOMAIN log.events
       /\ \A i \in DOMAIN log.events : new.events[i].frame = IF i = entry THEN shot[r] ELSE log.events[i].frame
  <2>1. CASE entry = 0
    BY <2>1, <1>5, <1>12, <1>13
  <2>2. CASE entry # 0
    <3>1. entry \in DOMAIN log.events /\ log.events[entry] \in Events
      BY <2>2, <1>12, <1>13
    <3>2. PICK linked : linked = [log.events[entry] EXCEPT !.frame = shot[r]]
      OBVIOUS
    <3>3. linked \in Events /\ linked.frame = shot[r]
      BY <3>1, <3>2, <1>8 DEF Events
    <3>4. PICK said : said = [log.events EXCEPT ![entry] = linked]
      OBVIOUS
    <3>5. /\ said \in Seq(Events) /\ Len(said) = Len(log.events) /\ DOMAIN said = DOMAIN log.events
          /\ \A i \in DOMAIN log.events : said[i] = IF i = entry THEN linked ELSE log.events[i]
      BY <3>1, <3>3, <3>4, <1>13
    <3>6. new = [log EXCEPT !.events = said]
      BY <2>2, <3>1, <3>2, <3>4, <1>5, <1>12 DEF Recordings
    <3> QED BY <3>3, <3>5, <3>6, <1>12 DEF Recordings
  <2> QED BY <2>1, <2>2
<1>15. /\ logs' \in Seq(Recordings) /\ Len(logs') = Len(logs) /\ logs'[r] = new
       /\ \A q \in Logs : q # r => logs'[q] = logs[q]
  BY <1>7, <1>8, <1>14
<1>16. /\ Logs' = Logs /\ logs'[r].stopped = logs[r].stopped /\ logs'[r].navigation = logs[r].navigation
       /\ Len(logs[r].events) <= Len(logs'[r].events) /\ Len(logs'[r].events) = Len(log.events)
       /\ logs'[r].keyframes = logs[r].keyframes
  BY <1>12, <1>14, <1>15 DEF Logs, Grown
\* No picture there is has its name, or its entry.
<1>17. \A f \in jpegs : f.rec = r => f.name # shot[r] /\ (entry # 0 => f.entry # entry)
  <2>1. ASSUME NEW f \in jpegs, f.rec = r PROVE f.name # shot[r]
    <3>1. f.name[1] < shot[r][1] /\ f.name[1] \in Nat
      BY <2>1, <1>1, <1>7, NamesAreNames DEF NamesAreFresh, RecTyped
    <3> QED BY <3>1, <1>8
  <2>2. ASSUME NEW f \in jpegs, f.rec = r, entry # 0 PROVE f.entry # entry
    <3>1. CASE entry = asked
      BY <2>2, <3>1, <1>1, <1>10 DEF TakenOnce
    <3>2. CASE asked = 0 /\ entry > Len(logs[r].events)
      <4>1. f.entry <= Len(logs[r].events) /\ f.entry \in Nat
        BY <2>2, <1>1 DEF EntriesAreThere, RecTyped
      <4> QED BY <3>2, <4>1, <1>8, <1>12
    <3> QED BY <2>2, <3>1, <3>2, <1>12
  <2> QED BY <2>1, <2>2
<1>18. jpegs' = jpegs \cup {file} /\ file.rec = r /\ file.name = shot[r] /\ file.entry = entry
  BY <1>6, <1>7, <1>17
<1>19. \A f \in jpegs : f.rec \in Logs /\ f.name \in Names /\ f.entry \in Nat
  BY <1>1 DEF RecTyped
<1>20. jpegs' \subseteq [rec : Logs, name : Names, entry : Nat]
  BY <1>1, <1>6, <1>8, <1>12, <1>18 DEF RecTyped
<1>21. ASSUME NEW f \in jpegs'
       PROVE  /\ f.entry <= Len(logs'[f.rec].events) /\ f.name[1] < logs'[f.rec].keyframes
              /\ f.rec # r => f \in jpegs
  <2>1. CASE f = file
    BY <2>1, <1>8, <1>12, <1>16, <1>18
  <2>2. CASE f \in jpegs
    <3>1. f.entry <= Len(logs[f.rec].events) /\ f.name[1] < logs[f.rec].keyframes /\ f.rec \in Logs /\ f.entry \in Nat
      BY <2>2, <1>1, <1>19 DEF EntriesAreThere, NamesAreFresh
    <3>2. CASE f.rec = r
      BY <2>2, <3>1, <3>2, <1>8, <1>13, <1>16
    <3>3. CASE f.rec # r
      BY <2>2, <3>1, <3>3, <1>15
    <3> QED BY <3>2, <3>3
  <2> QED BY <2>1, <2>2, <1>18
<1>22. LostIsFull'
  <2> SUFFICES ASSUME NEW f \in jpegs', f.entry = 0 PROVE Len(logs'[f.rec].events) >= MaxEvents
    BY DEF LostIsFull
  <2>1. MaxEvents \in Nat
    BY RecorderAssumption DEF RecorderAssumption
  <2>2. CASE f = file
    BY <2>1, <2>2, <1>8, <1>12, <1>13, <1>16, <1>18
  <2>3. CASE f \in jpegs
    <3>1. Len(logs[f.rec].events) >= MaxEvents /\ f.rec \in Logs
      BY <2>3, <1>1, <1>19 DEF LostIsFull
    <3>2. CASE f.rec = r
      BY <2>1, <3>1, <3>2, <1>8, <1>13, <1>16
    <3>3. CASE f.rec # r
      BY <3>1, <3>3, <1>15
    <3> QED BY <3>2, <3>3
  <2> QED BY <2>2, <2>3, <1>18
<1>23. LinksHold'
  <2> SUFFICES ASSUME NEW q \in Logs, NEW e \in DOMAIN logs'[q].events, logs'[q].events[e].frame # NoName
               PROVE  [rec |-> q, name |-> logs'[q].events[e].frame, entry |-> e] \in jpegs'
    BY <1>16 DEF LinksHold
  <2>1. CASE q # r
    <3>1. logs'[q] = logs[q]
      BY <2>1, <1>15
    <3>2. [rec |-> q, name |-> logs[q].events[e].frame, entry |-> e] \in jpegs
      BY <3>1, <1>1 DEF LinksHold
    <3> QED BY <3>1, <3>2, <1>18
  <2>2. CASE q = r
    <3>1. e \in DOMAIN log.events /\ logs'[q].events[e].frame = IF e = entry THEN shot[r] ELSE log.events[e].frame
      BY <2>2, <1>14, <1>15
    <3>2. CASE e = entry
      BY <2>2, <3>1, <3>2, <1>6, <1>18
    <3>3. CASE e # entry
      <4>1. e \in DOMAIN logs[r].events /\ log.events[e] = logs[r].events[e]
        BY <3>1, <3>3, <1>12 DEF Grown
      <4>2. [rec |-> r, name |-> logs[r].events[e].frame, entry |-> e] \in jpegs
        BY <3>1, <3>3, <4>1, <1>1 DEF LinksHold
      <4>3. logs'[q].events[e].frame = logs[r].events[e].frame
        BY <3>1, <3>3, <4>1
      <4> QED BY <2>2, <4>2, <4>3, <1>18
    <3> QED BY <3>2, <3>3
  <2> QED BY <2>1, <2>2
<1>24. TakenOnce'
  <2> SUFFICES ASSUME NEW f \in jpegs', f.entry # 0
               PROVE  /\ logs'[f.rec].events[f.entry].frame = f.name
                      /\ \A i \in DOMAIN captures'[f.rec] : captures'[f.rec][i].entry # f.entry
                      /\ logs'[f.rec].navigation # f.entry
                      /\ \A d \in delayed : d.rec = f.rec => d.entry # f.entry
    BY <1>7 DEF TakenOnce
  <2>1. CASE f = file
    <3>1. logs'[r].events[entry].frame = shot[r]
      BY <2>1, <1>12, <1>13, <1>14, <1>15, <1>18
    <3>2. CASE entry = asked
      <4>1. \A i \in DOMAIN rest : rest[i].entry # entry
        BY <2>1, <3>2, <1>1, <1>10, <1>18 DEF ChainOnce
      <4>2. logs[r].navigation # entry
        BY <2>1, <3>2, <1>1, <1>10, <1>18 DEF NavigationOnce
      <4>3. \A d \in delayed : d.rec = r => d.entry # entry
        BY <2>1, <3>2, <1>1, <1>10, <1>18 DEF DelayedOnce
      <4> QED BY <2>1, <3>1, <4>1, <4>2, <4>3, <1>11, <1>16, <1>18
    <3>3. CASE asked = 0 /\ entry > Len(logs[r].events)
      <4>1. /\ \A i \in DOMAIN captures[r] : captures[r][i].entry # entry
            /\ \A d \in delayed : d.rec = r => d.entry # entry
            /\ logs[r].navigation # entry
        BY <3>3, <1>1, <1>12, NewIsFree
      <4>2. \A i \in DOMAIN rest : rest[i].entry # entry
        BY <4>1, <1>10
      <4> QED BY <2>1, <3>1, <4>1, <4>2, <1>11, <1>16, <1>18
    <3> QED BY <2>1, <3>2, <3>3, <1>12, <1>18
  <2>2. CASE f \in jpegs
    <3>1. /\ logs[f.rec].events[f.entry].frame = f.name /\ f.rec \in Logs
          /\ \A i \in DOMAIN captures[f.rec] : captures[f.rec][i].entry # f.entry
          /\ logs[f.rec].navigation # f.entry
          /\ \A d \in delayed : d.rec = f.rec => d.entry # f.entry
      BY <2>2, <1>1, <1>19 DEF TakenOnce
    <3>2. CASE f.rec # r
      BY <3>1, <3>2, <1>11, <1>15
    <3>3. CASE f.rec = r
      <4>1. f.entry # entry
        BY <2>2, <3>3, <1>17
      <4>2. f.entry <= Len(logs[r].events) /\ f.entry \in Nat
        BY <2>2, <3>3, <1>1, <1>19 DEF EntriesAreThere
      <4>3. f.entry \in DOMAIN logs[r].events
        BY <4>2, <1>8
      <4>4. f.entry \in DOMAIN log.events /\ log.events[f.entry] = logs[r].events[f.entry]
        BY <4>3, <1>12 DEF Grown
      <4>5. logs'[r].events[f.entry].frame = f.name
        BY <3>1, <3>3, <4>1, <4>4, <1>14, <1>15
      <4>6. \A i \in DOMAIN captures'[r] : captures'[r][i].entry # f.entry
        BY <3>1, <3>3, <1>10, <1>11
      <4> QED BY <3>1, <3>3, <4>5, <4>6, <1>16
    <3> QED BY <3>2, <3>3
  <2> QED BY <2>1, <2>2, <1>18
<1> QED BY <1>7, <1>8, <1>15, <1>16, <1>20, <1>21, <1>22, <1>23, <1>24, OverStep

LEMMA StillsStep ==
  ASSUME RecInv, RecPaint \/ HidePane \/ Pasted \/ \E w \in RecordWaiters : WaitEnds(w) \/ \E n \in 0..Len(logs) : WaitForRecording(w, n)
  PROVE  RecInv'
<1>1. RecTyped
  BY DEF RecInv
<1>2. CASE RecPaint
  <2>1. PICK a \in Logs : a = active
    BY <1>1, <1>2, TypeOfEach DEF RecPaint
  <2>2. logs' = [logs EXCEPT ![a].dirty = TRUE] /\ UNCHANGED <<active, captures, shot, delayed, jpegs, timelines>>
    BY <1>2, <2>1 DEF RecPaint
  <2>3. logs[a] \in Recordings /\ logs \in Seq(Recordings) /\ DOMAIN logs = Logs
    BY <1>1, TypeOfEach DEF RecTyped, Logs
  <2>4. PICK log : log = [logs[a] EXCEPT !.dirty = TRUE]
    OBVIOUS
  <2>5. /\ log \in Recordings /\ log.events = logs[a].events /\ log.keyframes = logs[a].keyframes
        /\ log.stopped = logs[a].stopped /\ log.navigation = logs[a].navigation
    BY <2>3, <2>4 DEF Recordings
  <2>6. logs' = [logs EXCEPT ![a] = log]
    BY <2>2, <2>4
  <2>7. /\ logs' \in Seq(Recordings) /\ Len(logs') = Len(logs) /\ logs'[a] = log
        /\ \A q \in Logs : q # a => logs'[q] = logs[q]
    BY <2>3, <2>5, <2>6
  <2>8. \A q \in Logs : /\ logs'[q].events = logs[q].events /\ logs'[q].keyframes = logs[q].keyframes
                        /\ logs'[q].stopped = logs[q].stopped /\ logs'[q].navigation = logs[q].navigation
    BY <2>5, <2>7
  <2> QED BY <2>2, <2>7, <2>8, StillStep
<1>3. CASE UNCHANGED <<logs, active, captures, shot, delayed, jpegs, timelines>>
  <2>1. logs \in Seq(Recordings)
    BY <1>1 DEF RecTyped
  <2> QED BY <2>1, <1>3, StillStep
<1> QED BY <1>2, <1>3 DEF HidePane, Pasted, WaitEnds, WaitForRecording

LEMMA RecStarts == ASSUME RecorderInit PROVE RecInv
<1>1. /\ logs = <<>> /\ active = 0 /\ captures = <<>> /\ shot = <<>> /\ delayed = {} /\ jpegs = {} /\ timelines = <<>>
  BY DEF RecorderInit
<1>2. Logs = {}
  BY <1>1 DEF Logs
<1>3. RecTyped
  BY <1>1 DEF RecTyped
<1> QED BY <1>1, <1>2, <1>3
        DEF RecInv, ShotIsLast, NamesAreFresh, LinksHold, AskedOnce, EntriesAreThere, ChainOnce, DelayedOnce,
            NavigationOnce, TakenOnce, LostIsFull, StopsHaveStopped, WrittenIsOver

LEMMA RecStep == ASSUME RecInv, [RecorderNext]_recorderVars PROVE RecInv'
<1>1. CASE \E goal \in BOOLEAN : StartRecording(goal)
  BY <1>1, RecStartStep
<1>2. CASE RecordPageEvent
  BY <1>2, PageEventStep
<1>3. CASE \E inPage \in BOOLEAN : RecordTabNavigation(inPage)
  BY <1>3, NavigationStep
<1>4. CASE StopRecording
  BY <1>4, RecStopStep
<1>5. CASE RecPaint \/ HidePane \/ Pasted \/ \E w \in RecordWaiters : WaitEnds(w) \/ \E names \in 0..Len(logs) : WaitForRecording(w, names)
  BY <1>5, StillsStep
<1>6. ASSUME NEW r \in Logs, \/ SettleNavigationKeyframe(r) \/ KeyframeTick(r) \/ CaptureBegins(r)
                             \/ CaptureSkipped(r) \/ CaptureSucceeds(r) \/ CaptureFails(r)
      PROVE  RecInv'
  BY <1>6, RecSettleStep, TickStep, BeginStep, SkipStep, TakeStep, FailStep
<1>7. CASE \E d \in delayed : DelayedDue(d)
  BY <1>7, DelayedStep
<1>8. CASE UNCHANGED recorderVars
  <2>1. UNCHANGED <<logs, active, captures, shot, delayed, jpegs, timelines>> /\ logs \in Seq(Recordings)
    BY <1>8 DEF recorderVars, RecInv, RecTyped
  <2> QED BY <2>1, StillStep
<1> QED BY <1>1, <1>2, <1>3, <1>4, <1>5, <1>6, <1>7, <1>8 DEF RecorderNext

LEMMA RecSays == ASSUME RecInv PROVE PictureIsOfItsEvent /\ TimelineMentionsAll
<1>1. RecTyped /\ LinksHold /\ EntriesAreThere /\ TakenOnce /\ LostIsFull /\ WrittenIsOver
  BY DEF RecInv, AskedOnce
<1>2. PictureIsOfItsEvent
  BY <1>1 DEF PictureIsOfItsEvent, LinksHold
<1>3. TimelineMentionsAll
  <2> SUFFICES ASSUME NEW r \in Logs, timelines[r] # <<>>, Len(timelines[r]) < MaxEvents,
                      \A i \in DOMAIN captures[r] : captures[r][i].reason # "stop",
                      NEW f \in jpegs, f.rec = r
               PROVE  \E i \in DOMAIN timelines[r] : timelines[r][i].frame = f.name
    BY DEF TimelineMentionsAll
  <2>1. timelines[r] = logs[r].events /\ Len(logs[r].events) \in Nat /\ DOMAIN logs[r].events = 1..Len(logs[r].events)
    <3>1. logs[r].events \in Seq(Events)
      BY <1>1, TypeOfEach
    <3>2. timelines[r] = logs[r].events
      BY <1>1 DEF WrittenIsOver, Stops
    <3> QED BY <3>1, <3>2
  <2>2. f.entry <= Len(logs[r].events) /\ f.entry \in Nat
    BY <1>1 DEF EntriesAreThere, RecTyped
  <2>3. f.entry # 0
    BY <1>1, <2>1, RecorderAssumption DEF LostIsFull, RecorderAssumption
  <2>4. logs[r].events[f.entry].frame = f.name
    BY <1>1, <2>3 DEF TakenOnce
  <2>5. f.entry \in DOMAIN timelines[r]
    BY <2>1, <2>2, <2>3
  <2> QED BY <2>1, <2>4, <2>5
<1> QED BY <1>2, <1>3

-----------------------------------------------------------------------------

\* Whatever runs and did not begin beside a stop is the pane's recording, and no stop has still to go on:
\* a stop marks the pane's recording, and one that goes on finds none running that did not begin beside
\* it.
RunInv == \A r \in Logs : ~logs[r].stopped /\ ~logs[r].beside => active = r /\ ~StopWaits

\* What a recording was told, and beside what it began, stays.
StaysMarked == Logs' = Logs /\ \A q \in Logs : logs'[q].stopped = logs[q].stopped /\ logs'[q].beside = logs[q].beside

LEMMA RunQuiet ==
  ASSUME RunInv, active' = active, StaysMarked, \A q \in Logs : Stops(q)' => Stops(q)
  PROVE  RunInv'
<1>1. StopWaits' => StopWaits
  BY DEF StopWaits, Stops, StaysMarked
<1> QED BY <1>1 DEF RunInv, StaysMarked

LEMMA RunStill ==
  ASSUME RunInv, UNCHANGED <<active, captures>>, StaysMarked PROVE RunInv'
<1>1. \A q \in Logs : Stops(q)' => Stops(q)
  BY DEF Stops
<1> QED BY <1>1, RunQuiet

\* A chain with a capture more, which is no stop.
LEMMA RunAsks ==
  ASSUME RecTyped, RunInv, UNCHANGED active, StaysMarked, NEW r \in Logs, NEW c \in Captures, c.reason # "stop",
         captures' = [captures EXCEPT ![r] = Append(@, c)]
  PROVE  RunInv'
<1>1. /\ \A q \in Logs : q # r => captures'[q] = captures[q]
      /\ DOMAIN captures'[r] = DOMAIN captures[r] \cup {Len(captures[r]) + 1}
      /\ \A i \in DOMAIN captures[r] : captures'[r][i] = captures[r][i]
      /\ captures'[r][Len(captures[r]) + 1] = c
  BY ChainAsked
<1>2. \A q \in Logs : Stops(q)' => Stops(q)
  BY <1>1 DEF Stops
<1> QED BY <1>2, RunQuiet

\* A capture is over: when it was the stop's, nothing was running but what began beside it.
LEMMA RunOver ==
  ASSUME RecTyped, RunInv, NEW r \in Logs, captures[r] # <<>>, CaptureOver(r), StaysMarked PROVE RunInv'
<1>1. captures[r] \in Seq(Captures) /\ DOMAIN captures = Logs
  BY TypeOfEach
<1>2. captures'[r] = Tail(captures[r]) /\ \A q \in Logs : q # r => captures'[q] = captures[q]
  BY <1>1 DEF CaptureOver
<1>3. /\ Head(captures[r]) = captures[r][1] /\ 1 \in DOMAIN captures[r]
      /\ \A i \in DOMAIN captures'[r] : i + 1 \in DOMAIN captures[r] /\ captures'[r][i] = captures[r][i + 1]
  BY <1>1, <1>2, ChainGoesOn
<1>4. \A q \in Logs : Stops(q)' => Stops(q)
  <2>1. Stops(r)' => Stops(r)
    <3> SUFFICES ASSUME NEW i \in DOMAIN captures'[r], captures'[r][i].reason = "stop" PROVE Stops(r)
      BY DEF Stops
    <3> QED BY <1>3 DEF Stops
  <2>2. ASSUME NEW q \in Logs, q # r PROVE Stops(q)' => Stops(q)
    BY <1>2, <2>2 DEF Stops
  <2> QED BY <2>1, <2>2
<1>5. CASE Head(captures[r]).reason # "stop"
  BY <1>4, <1>5, RunQuiet DEF CaptureOver
<1>6. CASE Head(captures[r]).reason = "stop"
  <2>1. StopWaits
    BY <1>3, <1>6 DEF StopWaits
  <2> QED BY <2>1 DEF RunInv, StaysMarked
<1> QED BY <1>5, <1>6

\* One log goes on or is marked, by something else than a stop.
LEMMA OneGoesOn ==
  ASSUME RecTyped, NEW r \in Logs, NEW log, logs' = [logs EXCEPT ![r] = log],
         log.stopped = logs[r].stopped, log.beside = logs[r].beside
  PROVE  StaysMarked
<1>1. logs \in Seq(Recordings) /\ r \in DOMAIN logs
  BY DEF RecTyped, Logs
<1>2. DOMAIN logs' = DOMAIN logs /\ logs'[r] = log /\ \A q \in DOMAIN logs : q # r => logs'[q] = logs[q]
  BY <1>1
<1> QED BY <1>2 DEF Logs, StaysMarked

LEMMA RunStart == ASSUME RecTyped, RunInv, NEW goal \in BOOLEAN, StartRecording(goal) PROVE RunInv'
<1>1. PICK n : n = Len(logs) + 1
  OBVIOUS
<1>2. PICK log : log = NewRecording(goal)
  OBVIOUS
<1>3. PICK first : first = <<[reason |-> "start", entry |-> 1]>>
  OBVIOUS
<1>4. /\ logs' = Append(logs, log) /\ active' = n /\ captures' = Append(captures, first) /\ active = 0
  BY <1>1, <1>2, <1>3 DEF StartRecording
<1>5. log.stopped = FALSE /\ log.beside = StopWaits
  BY <1>2 DEF NewRecording
<1>6. /\ DOMAIN first = {1} /\ first[1].reason = "start"
  BY <1>3
<1>7. Logs = 1..Len(logs) /\ Len(logs) \in Nat /\ DOMAIN captures = Logs /\ Len(captures) = Len(logs) /\ 0 \notin Logs
  BY TypeOfEach DEF RecTyped
<1>8. Logs' = Logs \cup {n} /\ n \notin Logs /\ logs'[n] = log /\ \A q \in Logs : logs'[q] = logs[q]
  <2>1. logs \in Seq(Recordings)
    BY DEF RecTyped
  <2> QED BY <2>1, <1>1, <1>4, <1>7 DEF Logs
<1>9. captures'[n] = first /\ \A q \in Logs : captures'[q] = captures[q]
  <2>1. captures \in Seq(Seq(Captures))
    BY DEF RecTyped
  <2> QED BY <2>1, <1>1, <1>4, <1>7
<1>10. StopWaits' => StopWaits
  BY <1>6, <1>8, <1>9 DEF StopWaits
<1>11. \A q \in Logs : logs[q].stopped \/ logs[q].beside
  BY <1>4, <1>7 DEF RunInv
<1> QED BY <1>4, <1>5, <1>8, <1>10, <1>11 DEF RunInv

LEMMA RunStop == ASSUME RecTyped, RunInv, StopRecording PROVE RunInv'
<1>1. PICK a \in Logs : a = active
  BY TypeOfEach DEF StopRecording
<1>2. PICK noted : noted = Record(logs[a], "stop")
  OBVIOUS
<1>3. /\ logs' = [logs EXCEPT ![a] = [noted EXCEPT !.ticking = FALSE, !.navTimer = FALSE, !.stopped = TRUE]]
      /\ UNCHANGED active
  BY <1>1, <1>2 DEF StopRecording
<1>4. "stop" \in Reasons /\ logs[a] \in Recordings /\ logs \in Seq(Recordings) /\ a \in DOMAIN logs
  BY <1>1, TypeOfEach DEF RecTyped, Logs, Reasons
<1>5. noted \in Recordings
  BY <1>2, <1>4, Noted, RecorderAssumption
<1>6. PICK log : log = [noted EXCEPT !.ticking = FALSE, !.navTimer = FALSE, !.stopped = TRUE]
  OBVIOUS
<1>7. log.stopped = TRUE /\ logs' = [logs EXCEPT ![a] = log]
  BY <1>3, <1>5, <1>6 DEF Recordings
<1>8. DOMAIN logs' = DOMAIN logs /\ logs'[a] = log /\ \A q \in DOMAIN logs : q # a => logs'[q] = logs[q]
  BY <1>4, <1>7
<1>9. Logs' = Logs /\ logs'[a].stopped /\ \A q \in Logs : q # a => logs'[q] = logs[q]
  BY <1>7, <1>8 DEF Logs
<1>10. \A q \in Logs : ~logs[q].stopped /\ ~logs[q].beside => q = a
  BY <1>1 DEF RunInv
<1> QED BY <1>9, <1>10 DEF RunInv

LEMMA RunPageEvent == ASSUME RecTyped, RunInv, RecordPageEvent PROVE RunInv'
<1>1. UNCHANGED <<active, captures>>
  BY DEF RecordPageEvent
<1>2. PICK a \in Logs : a = active
  BY TypeOfEach DEF RecordPageEvent
<1>3. PICK log : log = Record(logs[a], "click")
  OBVIOUS
<1>4. logs' = [logs EXCEPT ![a] = log]
  BY <1>2, <1>3 DEF RecordPageEvent
<1>5. "click" \in Reasons /\ logs[a] \in Recordings
  BY TypeOfEach DEF Reasons
<1>6. log.stopped = logs[a].stopped /\ log.beside = logs[a].beside
  BY <1>3, <1>5, Noted, RecorderAssumption
<1> QED BY <1>1, <1>4, <1>6, OneGoesOn, RunStill

LEMMA RunNavigation == ASSUME RecTyped, RunInv, NEW inPage \in BOOLEAN, RecordTabNavigation(inPage) PROVE RunInv'
<1>1. UNCHANGED <<active, captures>>
  BY DEF RecordTabNavigation
<1>2. PICK a \in Logs : a = active
  BY TypeOfEach DEF RecordTabNavigation
<1>3. PICK noted : noted = Record(logs[a], "navigate")
  OBVIOUS
<1>4. PICK e : e = Entry(logs[a])
  OBVIOUS
<1>5. "navigate" \in Reasons /\ logs[a] \in Recordings
  BY TypeOfEach DEF Reasons
<1>6. noted.stopped = logs[a].stopped /\ noted.beside = logs[a].beside /\ noted \in Recordings
  BY <1>3, <1>5, Noted, RecorderAssumption
<1>7. PICK log : log = IF e = 0 \/ inPage THEN noted ELSE [noted EXCEPT !.navigation = e, !.navTimer = TRUE]
  OBVIOUS
<1>8. log.stopped = noted.stopped /\ log.beside = noted.beside
  BY <1>6, <1>7 DEF Recordings
<1>9. logs' = [logs EXCEPT ![a] = log]
  BY <1>2, <1>3, <1>4, <1>7 DEF RecordTabNavigation
<1> QED BY <1>1, <1>6, <1>8, <1>9, OneGoesOn, RunStill

LEMMA RunSettle == ASSUME RecTyped, RunInv, NEW timed, SettleNavigationKeyframe(timed) PROVE RunInv'
<1>1. PICK a \in Logs : a = active
  BY TypeOfEach DEF SettleNavigationKeyframe
<1>2. PICK c : c = [reason |-> "navigate", entry |-> logs[a].navigation]
  OBVIOUS
<1>3. c \in Captures /\ c.reason # "stop"
  BY <1>2, TypeOfEach DEF Captures, Reasons
<1>4. captures' = [captures EXCEPT ![a] = Append(@, c)] /\ UNCHANGED active
  BY <1>1, <1>2 DEF SettleNavigationKeyframe, CaptureKeyframe
<1>5. StaysMarked
  <2>1. /\ logs' = [logs EXCEPT ![timed].navTimer = FALSE, ![a].navigation = 0, ![a].navTimer = FALSE]
        /\ timed \in Logs
    BY <1>1 DEF SettleNavigationKeyframe
  <2>2. \A q \in Logs : logs[q] \in Recordings
    BY TypeOfEach
  <2>3. logs \in Seq(Recordings) /\ DOMAIN logs = Logs
    BY DEF RecTyped, Logs
  <2>4. DOMAIN logs' = DOMAIN logs
    BY <2>1, <2>3
  <2>5. ASSUME NEW q \in Logs PROVE logs'[q].stopped = logs[q].stopped /\ logs'[q].beside = logs[q].beside
    BY <2>1, <2>2, <2>3 DEF Recordings
  <2> QED BY <2>3, <2>4, <2>5 DEF Logs, StaysMarked
<1> QED BY <1>3, <1>4, <1>5, RunAsks

LEMMA RunTick == ASSUME RecTyped, RunInv, NEW r \in Logs, KeyframeTick(r) PROVE RunInv'
<1>1. StaysMarked /\ UNCHANGED active
  BY DEF KeyframeTick, StaysMarked, Logs
<1>2. PICK c : c = [reason |-> "change", entry |-> 0]
  OBVIOUS
<1>3. c \in Captures /\ c.reason # "stop" /\ captures' = [captures EXCEPT ![r] = Append(@, c)]
  BY <1>2 DEF Captures, Reasons, KeyframeTick, CaptureKeyframe
<1> QED BY <1>1, <1>3, RunAsks

LEMMA RunDelayed == ASSUME RecTyped, RunInv, NEW d, DelayedDue(d) PROVE RunInv'
<1>1. StaysMarked /\ UNCHANGED active
  BY DEF DelayedDue, StaysMarked, Logs
<1>2. d.rec \in Logs /\ d.reason \in {"click", "navigate"} /\ d.entry \in Nat
  BY DEF DelayedDue, RecTyped
<1>3. PICK c : c = [reason |-> d.reason, entry |-> d.entry]
  OBVIOUS
<1>4. c \in Captures /\ c.reason # "stop" /\ captures' = [captures EXCEPT ![d.rec] = Append(@, c)]
  BY <1>2, <1>3 DEF Captures, Reasons, DelayedDue, CaptureKeyframe
<1> QED BY <1>1, <1>2, <1>4, RunAsks

LEMMA RunBegin == ASSUME RecTyped, RunInv, NEW r \in Logs, CaptureBegins(r) PROVE RunInv'
<1>1. PICK log : log = [logs[r] EXCEPT !.keyframes = logs[r].keyframes + 1, !.dirty = FALSE]
  OBVIOUS
<1>2. logs[r] \in Recordings /\ logs \in Seq(Recordings) /\ r \in DOMAIN logs
  BY TypeOfEach DEF RecTyped, Logs
<1>3. log.stopped = logs[r].stopped /\ log.beside = logs[r].beside
  BY <1>1, <1>2 DEF Recordings
<1>4. logs' = [logs EXCEPT ![r] = log]
  <2>1. logs' = [logs EXCEPT ![r].keyframes = @ + 1, ![r].dirty = FALSE]
    BY DEF CaptureBegins
  <2> QED BY <2>1, <1>1, <1>2
<1>5. UNCHANGED <<active, captures>>
  BY DEF CaptureBegins
<1> QED BY <1>3, <1>4, <1>5, OneGoesOn, RunStill

LEMMA RunSkip == ASSUME RecTyped, RunInv, NEW r \in Logs, CaptureSkipped(r) PROVE RunInv'
<1>1. captures[r] # <<>> /\ CaptureOver(r) /\ StaysMarked
  BY DEF CaptureSkipped, StaysMarked, Logs
<1> QED BY <1>1, RunOver

LEMMA RunFail == ASSUME RecInv, RunInv, NEW r \in Logs, CaptureFails(r) PROVE RunInv'
<1>1. RecTyped /\ CaptureOver(r) /\ captures[r] # <<>>
  BY DEF RecInv, CaptureFails, ShotIsLast
<1>2. PICK log : log = [logs[r] EXCEPT !.keyframes = logs[r].keyframes - 1]
  OBVIOUS
<1>3. logs[r] \in Recordings /\ logs \in Seq(Recordings) /\ r \in DOMAIN logs
  BY <1>1, TypeOfEach DEF RecTyped, Logs
<1>4. log.stopped = logs[r].stopped /\ log.beside = logs[r].beside
  BY <1>2, <1>3 DEF Recordings
<1>5. logs' = [logs EXCEPT ![r] = log]
  <2>1. logs' = [logs EXCEPT ![r].keyframes = @ - 1]
    BY DEF CaptureFails
  <2> QED BY <2>1, <1>2, <1>3
<1> QED BY <1>1, <1>4, <1>5, OneGoesOn, RunOver

LEMMA RunTake == ASSUME RecInv, RunInv, NEW r \in Logs, CaptureSucceeds(r) PROVE RunInv'
<1>1. RecTyped /\ CaptureOver(r) /\ captures[r] # <<>>
  BY DEF RecInv, CaptureSucceeds, ShotIsLast
<1>2. PICK asked : asked = Head(captures[r]).entry
  OBVIOUS
<1>3. PICK log : log = IF asked # 0 THEN logs[r] ELSE Record(logs[r], "change")
  OBVIOUS
<1>4. PICK entry : entry = IF asked # 0 THEN asked ELSE Entry(logs[r])
  OBVIOUS
<1>5. logs' = [logs EXCEPT ![r] = IF entry = 0 THEN log ELSE [log EXCEPT !.events[entry].frame = shot[r]]]
  BY <1>2, <1>3, <1>4 DEF CaptureSucceeds
<1>6. logs[r] \in Recordings /\ "change" \in Reasons
  BY <1>1, TypeOfEach DEF Reasons
<1>7. log \in Recordings /\ log.stopped = logs[r].stopped /\ log.beside = logs[r].beside
  BY <1>3, <1>6, Noted, RecorderAssumption
<1>8. PICK log2 : log2 = IF entry = 0 THEN log ELSE [log EXCEPT !.events[entry].frame = shot[r]]
  OBVIOUS
<1>9. log2.stopped = log.stopped /\ log2.beside = log.beside
  <2>1. CASE entry = 0
    BY <2>1, <1>8
  <2>2. CASE entry # 0
    <3>1. log2 = [log EXCEPT !.events = [@ EXCEPT ![entry].frame = shot[r]]]
      BY <2>2, <1>8
    <3>2. PICK ev : ev = [log.events EXCEPT ![entry].frame = shot[r]]
      OBVIOUS
    <3>3. log2 = [log EXCEPT !.events = ev]
      BY <3>1, <3>2
    <3> QED BY <3>3, <1>7 DEF Recordings
  <2> QED BY <2>1, <2>2
<1>10. logs' = [logs EXCEPT ![r] = log2]
  BY <1>5, <1>8
<1> QED BY <1>1, <1>7, <1>9, <1>10, OneGoesOn, RunOver

LEMMA RunPaint == ASSUME RecTyped, RunInv, RecPaint PROVE RunInv'
<1>1. UNCHANGED <<active, captures>>
  BY DEF RecPaint
<1>2. PICK a \in Logs : a = active
  BY TypeOfEach DEF RecPaint
<1>3. PICK log : log = [logs[a] EXCEPT !.dirty = TRUE]
  OBVIOUS
<1>4. logs[a] \in Recordings /\ logs \in Seq(Recordings) /\ a \in DOMAIN logs
  BY TypeOfEach DEF RecTyped, Logs
<1>5. log.stopped = logs[a].stopped /\ log.beside = logs[a].beside
  BY <1>3, <1>4 DEF Recordings
<1>6. logs' = [logs EXCEPT ![a] = log]
  <2>1. logs' = [logs EXCEPT ![a].dirty = TRUE]
    BY <1>2 DEF RecPaint
  <2> QED BY <2>1, <1>3, <1>4
<1> QED BY <1>1, <1>5, <1>6, OneGoesOn, RunStill

LEMMA RunOthers ==
  ASSUME RunInv, \/ HidePane \/ Pasted \/ UNCHANGED recorderVars
                 \/ \E w \in RecordWaiters : WaitEnds(w) \/ \E names \in 0..Len(logs) : WaitForRecording(w, names)
  PROVE  RunInv'
<1>1. UNCHANGED <<logs, active, captures>>
  BY DEF HidePane, Pasted, recorderVars, WaitEnds, WaitForRecording
<1>2. StaysMarked
  BY <1>1 DEF StaysMarked, Logs
<1> QED BY <1>1, <1>2, RunStill

LEMMA RunStarts == ASSUME RecorderInit PROVE RunInv
<1>1. Logs = {}
  BY DEF RecorderInit, Logs
<1> QED BY <1>1 DEF RunInv

LEMMA RunStep == ASSUME RecInv, RunInv, [RecorderNext]_recorderVars PROVE RunInv'
<1>0. RecTyped
  BY DEF RecInv
<1>1. CASE (\E goal \in BOOLEAN : StartRecording(goal)) \/ StopRecording
  BY <1>0, <1>1, RunStart, RunStop
<1>2. CASE RecordPageEvent \/ (\E inPage \in BOOLEAN : RecordTabNavigation(inPage)) \/ RecPaint
  BY <1>0, <1>2, RunPageEvent, RunNavigation, RunPaint
<1>3. CASE \/ HidePane \/ Pasted \/ UNCHANGED recorderVars
           \/ \E w \in RecordWaiters : WaitEnds(w) \/ \E names \in 0..Len(logs) : WaitForRecording(w, names)
  BY <1>3, RunOthers
<1>4. ASSUME NEW r \in Logs, \/ SettleNavigationKeyframe(r) \/ KeyframeTick(r) \/ CaptureBegins(r)
                             \/ CaptureSkipped(r) \/ CaptureSucceeds(r) \/ CaptureFails(r)
      PROVE  RunInv'
  BY <1>0, <1>4, RunSettle, RunTick, RunBegin, RunSkip, RunTake, RunFail
<1>5. CASE \E d \in delayed : DelayedDue(d)
  BY <1>0, <1>5, RunDelayed
<1> QED BY <1>1, <1>2, <1>3, <1>4, <1>5 DEF RecorderNext

LEMMA RunSays == ASSUME RunInv PROVE RunningIsStoppable
BY DEF RunInv, RunningIsStoppable

-----------------------------------------------------------------------------
(* Pages that float: what one pane's step makes of its own tabs, and what it leaves of another's.      *)
Fulls == [on : BOOLEAN, sized : BOOLEAN, shrunk : BOOLEAN]
Surfaces == [base : {"line", "pane", "full", "window"}, shrunk : BOOLEAN]
Displays ==
  [shown : [FloatPanes -> Pages], float : [FloatPanes -> BOOLEAN], seen : [FloatPanes -> BOOLEAN], tabs : SUBSET Pages,
   viewer : [Pages -> ViewerStates], full : Fulls, surface : [Pages -> Surfaces], zoom : [Pages -> BOOLEAN]]

\* Of every pane: it shows one of its own tabs, and that one has a viewer while the pane floats.
ViewersOfFloats(s) == \A t \in Pages : t \in s.tabs <=> s.viewer[t] # "none"
ShowsItsOwn(s, p) == s.shown[p] \in PagesOf[p]
ShownFloats(s, p) == \A t \in PagesOf[p] : t \in s.tabs <=> s.float[p] /\ t = s.shown[p]

\* Of a pane whose fullscreen no other has written over: a zoom of a shrunk surface; the factor in force
\* is that of its float's surface; its viewer is in fullscreen as the variables say.  The first and the
\* last hold before the tabs have been gone over.
ZoomOfShrunk(s, p) == \A t \in PagesOf[p] : s.zoom[t] = s.surface[t].shrunk
ShrunkAsFull(s, p) == \A t \in PagesOf[p] : s.surface[t].shrunk = (t \in s.tabs /\ s.full.shrunk)
FullAsViewed(s, p) == s.float[p] => /\ s.viewer[s.shown[p]] = "shown" => ~s.full.on
                                    /\ s.viewer[s.shown[p]] \in {"full", "leaving"} => s.full.on /\ s.full.sized
SizeAsViewed(s, p) == \A t \in PagesOf[p] : t \in s.tabs => /\ s.viewer[t] = "full" => s.surface[t].base = "full"
                                                            /\ ~s.full.on => s.surface[t].base # "full"
Half(s, p) == ZoomOfShrunk(s, p) /\ FullAsViewed(s, p)
Aligned(s, p) == Half(s, p) /\ ShrunkAsFull(s, p) /\ SizeAsViewed(s, p)

FloatInv ==
  /\ Now \in Displays /\ ViewersOfFloats(Now)
  /\ \A p \in FloatPanes : ShowsItsOwn(Now, p) /\ ShownFloats(Now, p)
  /\ \A p \in FloatPanes \ crossed : Aligned(Now, p)

(* Pages are of one pane each. *)
LEMMA PagesApart ==
  /\ \A p \in FloatPanes : PagesOf[p] \subseteq Pages
  /\ \A p, q \in FloatPanes : \A t \in PagesOf[p] : t \in PagesOf[q] => p = q
  /\ \A p \in FloatPanes : \A t \in PagesOf[p] : PaneOf(t) = p
<1>1. /\ \A p \in FloatPanes : PagesOf[p] \subseteq Pages
      /\ \A p, q \in FloatPanes : \A t \in PagesOf[p] : t \in PagesOf[q] => p = q
  BY FloatAssumption DEF Pages, FloatAssumption
<1>2. ASSUME NEW p \in FloatPanes, NEW t \in PagesOf[p] PROVE PaneOf(t) = p
  <2>1. PaneOf(t) \in FloatPanes /\ t \in PagesOf[PaneOf(t)]
    BY DEF PaneOf
  <2> QED BY <2>1, <1>1
<1> QED BY <1>1, <1>2

(* What is made of one tab: it has a viewer if it floats, at the size that goes with it. *)
LEMMA TabPlanned ==
  ASSUME NEW s, s \in Displays, NEW p \in FloatPanes, NEW t \in Pages
  PROVE  LET d == Planned(s, p, t)
             floats == t = s.shown[p] /\ s.float[p]
         IN /\ t \in d.tabs <=> floats
            /\ d.viewer[t] = IF floats /\ t \notin s.tabs THEN "loading"
                             ELSE IF ~floats /\ t \in s.tabs THEN "none" ELSE s.viewer[t]
            /\ d.surface[t] \in Surfaces /\ d.surface[t].shrunk = (floats /\ s.full.shrunk)
            /\ floats => d.surface[t].base = IF s.full.on /\ s.full.sized THEN "full" ELSE "pane"
            /\ d.zoom[t] = IF s.surface[t] = d.surface[t] THEN s.zoom[t] ELSE s.full.shrunk /\ floats
<1>1. PICK floats \in BOOLEAN : floats = (t = s.shown[p] /\ s.float[p])
  BY DEF Displays
<1>2. PICK base \in {"line", "pane", "full"} :
        base = IF ~(floats \/ (t = s.shown[p] /\ s.seen[p])) THEN "line"
               ELSE IF floats /\ s.full.on /\ s.full.sized THEN "full" ELSE "pane"
  OBVIOUS
<1>3. PICK size : size = [base |-> base, shrunk |-> floats /\ s.full.shrunk]
  OBVIOUS
<1>4. PICK o : o = IF floats /\ t \notin s.tabs THEN [s EXCEPT !.tabs = @ \cup {t}, !.viewer[t] = "loading"]
                   ELSE IF ~floats /\ t \in s.tabs THEN [s EXCEPT !.tabs = @ \ {t}, !.viewer[t] = "none"] ELSE s
  OBVIOUS
<1>5. PICK d : d = Sized(o, t, size)
  OBVIOUS
<1>6. Planned(s, p, t) = d
  BY <1>1, <1>2, <1>3, <1>4, <1>5 DEF Planned
<1>7. /\ size \in Surfaces /\ size.shrunk = (floats /\ s.full.shrunk) /\ size.base = base
  BY <1>3 DEF Surfaces, Displays, Fulls
<1>8. /\ o.full = s.full /\ o.surface = s.surface /\ o.zoom = s.zoom /\ (t \in o.tabs <=> floats)
      /\ o.viewer[t] = IF floats /\ t \notin s.tabs THEN "loading"
                       ELSE IF ~floats /\ t \in s.tabs THEN "none" ELSE s.viewer[t]
      /\ t \in DOMAIN o.surface /\ t \in DOMAIN o.zoom
      /\ o = [shown |-> o.shown, float |-> o.float, seen |-> o.seen, tabs |-> o.tabs, viewer |-> o.viewer,
              full |-> o.full, surface |-> o.surface, zoom |-> o.zoom]
  BY <1>4 DEF Displays
<1>9. /\ d.tabs = o.tabs /\ d.viewer = o.viewer /\ d.surface[t] = size
      /\ d.zoom[t] = IF s.surface[t] = size THEN s.zoom[t] ELSE s.full.shrunk /\ floats
  <2>1. CASE o.surface[t] = size
    BY <2>1, <1>5, <1>8 DEF Sized
  <2>2. CASE o.surface[t] # size
    <3>1. d = [o EXCEPT !.surface[t] = size, !.zoom[t] = EffectiveZoom(o, t)]
      BY <2>2, <1>5 DEF Sized
    <3>2. PICK z : z = EffectiveZoom(o, t)
      OBVIOUS
    <3>3. z = (s.full.shrunk /\ floats)
      BY <3>2, <1>8 DEF EffectiveZoom
    <3>4. /\ d.tabs = o.tabs /\ d.viewer = o.viewer /\ d.surface[t] = size /\ d.zoom[t] = z
      BY <3>1, <3>2, <1>8
    <3> QED BY <3>3, <3>4, <2>2, <1>8
  <2> QED BY <2>1, <2>2
<1> QED BY <1>1, <1>2, <1>6, <1>7, <1>8, <1>9

(* What a step leaves of the other panes. *)
OtherPanesStay(s, e, p) == \A q \in FloatPanes \ {p} :
  /\ e.shown[q] = s.shown[q] /\ e.float[q] = s.float[q]
  /\ \A t \in PagesOf[q] : /\ t \in e.tabs <=> t \in s.tabs
                           /\ e.viewer[t] = s.viewer[t] /\ e.surface[t] = s.surface[t] /\ e.zoom[t] = s.zoom[t]

LEMMA OtherPanesStayOn ==
  ASSUME NEW p, NEW a, NEW b, NEW c, OtherPanesStay(a, b, p), OtherPanesStay(b, c, p) PROVE OtherPanesStay(a, c, p)
BY DEF OtherPanesStay

(* updatePaintingState leaves the tabs of its pane as they should be, and the others alone. *)
LEMMA TabsPainted ==
  ASSUME NEW p \in FloatPanes, NEW s, s \in Displays, ViewersOfFloats(s), ShowsItsOwn(s, p),
         NEW e, e = UpdatePainting(s, p)
  PROVE  /\ e \in Displays /\ ViewersOfFloats(e) /\ ShowsItsOwn(e, p) /\ ShownFloats(e, p) /\ OtherPanesStay(s, e, p)
         /\ e.shown = s.shown /\ e.float = s.float /\ e.full = s.full
         /\ Half(s, p) => Aligned(e, p)
<1>1. PICK done : done = [t \in Pages |-> IF t \in PagesOf[p] THEN Planned(s, p, t) ELSE s]
  OBVIOUS
<1>2. \A t \in Pages : done[t] = IF t \in PagesOf[p] THEN Planned(s, p, t) ELSE s
  BY <1>1
<1>3. e = [s EXCEPT !.tabs = {t \in Pages : t \in done[t].tabs},
                    !.viewer = [t \in Pages |-> done[t].viewer[t]],
                    !.surface = [t \in Pages |-> done[t].surface[t]],
                    !.zoom = [t \in Pages |-> done[t].zoom[t]]]
  BY <1>2 DEF UpdatePainting
<1>4. /\ e = [shown |-> s.shown, float |-> s.float, seen |-> s.seen, tabs |-> e.tabs, viewer |-> e.viewer,
              full |-> s.full, surface |-> e.surface, zoom |-> e.zoom]
      /\ e.tabs = {t \in Pages : t \in done[t].tabs}
      /\ e.viewer = [t \in Pages |-> done[t].viewer[t]]
      /\ e.surface = [t \in Pages |-> done[t].surface[t]]
      /\ e.zoom = [t \in Pages |-> done[t].zoom[t]]
  BY <1>3 DEF Displays
<1>5. ASSUME NEW t \in PagesOf[p]
      PROVE  LET floats == t = s.shown[p] /\ s.float[p]
             IN /\ t \in e.tabs <=> floats
                /\ e.viewer[t] = IF floats /\ t \notin s.tabs THEN "loading"
                                 ELSE IF ~floats /\ t \in s.tabs THEN "none" ELSE s.viewer[t]
                /\ e.surface[t] \in Surfaces /\ e.surface[t].shrunk = (floats /\ s.full.shrunk)
                /\ floats => e.surface[t].base = IF s.full.on /\ s.full.sized THEN "full" ELSE "pane"
                /\ e.zoom[t] = IF s.surface[t] = e.surface[t] THEN s.zoom[t] ELSE s.full.shrunk /\ floats
  <2>1. t \in Pages /\ done[t] = Planned(s, p, t)
    BY <1>2, PagesApart
  <2>2. /\ t \in e.tabs <=> t \in done[t].tabs
        /\ e.viewer[t] = done[t].viewer[t] /\ e.surface[t] = done[t].surface[t] /\ e.zoom[t] = done[t].zoom[t]
    BY <1>4, <2>1
  <2> QED BY <2>1, <2>2, TabPlanned
<1>6. ASSUME NEW t \in Pages, t \notin PagesOf[p]
      PROVE  /\ t \in e.tabs <=> t \in s.tabs
             /\ e.viewer[t] = s.viewer[t] /\ e.surface[t] = s.surface[t] /\ e.zoom[t] = s.zoom[t]
  <2>1. done[t] = s
    BY <1>2, <1>6
  <2> QED BY <1>4, <2>1
<1>7. /\ s.viewer \in [Pages -> ViewerStates] /\ s.zoom \in [Pages -> BOOLEAN] /\ s.full.shrunk \in BOOLEAN
      /\ s.surface \in [Pages -> Surfaces] /\ s.float[p] \in BOOLEAN /\ s.full \in Fulls
  BY DEF Displays, Fulls
<1>8. /\ e.tabs \in SUBSET Pages /\ e.viewer \in [Pages -> ViewerStates] /\ e.surface \in [Pages -> Surfaces]
      /\ e.zoom \in [Pages -> BOOLEAN]
  <2>1. \A t \in Pages : e.viewer[t] \in ViewerStates
    BY <1>5, <1>6, <1>7 DEF ViewerStates
  <2>2. \A t \in Pages : e.zoom[t] \in BOOLEAN
    BY <1>5, <1>6, <1>7
  <2>3. \A t \in Pages : e.surface[t] \in Surfaces
    BY <1>5, <1>6, <1>7
  <2>4. e.viewer \in [Pages -> ViewerStates]
    BY <1>4, <2>1
  <2>5. e.surface \in [Pages -> Surfaces]
    BY <1>4, <2>3
  <2>6. e.zoom \in [Pages -> BOOLEAN]
    BY <1>4, <2>2
  <2> QED BY <1>4, <2>4, <2>5, <2>6
<1>9. e \in Displays /\ e.shown = s.shown /\ e.float = s.float /\ e.full = s.full
  <2>1. /\ s.shown \in [FloatPanes -> Pages] /\ s.float \in [FloatPanes -> BOOLEAN]
        /\ s.seen \in [FloatPanes -> BOOLEAN] /\ s.full \in Fulls
    BY DEF Displays
  <2>2. e.shown = s.shown /\ e.float = s.float /\ e.seen = s.seen /\ e.full = s.full
    BY <1>4
  <2>3. PICK a, b, c, d : a = e.tabs /\ b = e.viewer /\ c = e.surface /\ d = e.zoom
    OBVIOUS
  <2>4. e = [shown |-> s.shown, float |-> s.float, seen |-> s.seen, tabs |-> a, viewer |-> b, full |-> s.full,
             surface |-> c, zoom |-> d]
    BY <1>4, <2>3
  <2>5. /\ a \in SUBSET Pages /\ b \in [Pages -> ViewerStates] /\ c \in [Pages -> Surfaces]
        /\ d \in [Pages -> BOOLEAN]
    BY <1>8, <2>3
  <2> QED BY <2>1, <2>2, <2>4, <2>5 DEF Displays
<1>10. ViewersOfFloats(e)
  <2> SUFFICES ASSUME NEW t \in Pages PROVE t \in e.tabs <=> e.viewer[t] # "none"
    BY DEF ViewersOfFloats
  <2>1. t \in s.tabs <=> s.viewer[t] # "none"
    BY DEF ViewersOfFloats
  <2>2. CASE t \in PagesOf[p]
    BY <2>1, <2>2, <1>5
  <2>3. CASE t \notin PagesOf[p]
    BY <2>1, <2>3, <1>6
  <2> QED BY <2>2, <2>3
<1>11. ShowsItsOwn(e, p) /\ ShownFloats(e, p)
  BY <1>5, <1>9 DEF ShowsItsOwn, ShownFloats
<1>12. OtherPanesStay(s, e, p)
  <2> SUFFICES ASSUME NEW q \in FloatPanes \ {p}, NEW t \in PagesOf[q]
               PROVE  t \in Pages /\ t \notin PagesOf[p]
    BY <1>6, <1>9 DEF OtherPanesStay
  <2> QED BY PagesApart
<1>13. ASSUME Half(s, p) PROVE Aligned(e, p)
  <2>1. ZoomOfShrunk(e, p)
    <3> SUFFICES ASSUME NEW t \in PagesOf[p] PROVE e.zoom[t] = e.surface[t].shrunk
      BY DEF ZoomOfShrunk
    <3>1. s.zoom[t] = s.surface[t].shrunk
      BY <1>13 DEF Half, ZoomOfShrunk
    <3>2. CASE s.surface[t] = e.surface[t]
      BY <3>1, <3>2, <1>5
    <3>3. CASE s.surface[t] # e.surface[t]
      BY <3>3, <1>5, <1>7
    <3> QED BY <3>2, <3>3
  <2>2. ShrunkAsFull(e, p)
    <3> SUFFICES ASSUME NEW t \in PagesOf[p] PROVE e.surface[t].shrunk = (t \in e.tabs /\ e.full.shrunk)
      BY DEF ShrunkAsFull
    <3> QED BY <1>5, <1>7, <1>9
  <2>3. s.shown[p] \in PagesOf[p]
    BY DEF ShowsItsOwn
  <2>4. FullAsViewed(e, p)
    <3> SUFFICES ASSUME s.float[p]
                 PROVE  /\ e.viewer[s.shown[p]] = "shown" => ~s.full.on
                        /\ e.viewer[s.shown[p]] \in {"full", "leaving"} => s.full.on /\ s.full.sized
      BY <1>9 DEF FullAsViewed
    <3>1. e.viewer[s.shown[p]] \in {"loading", s.viewer[s.shown[p]]}
      BY <1>5, <2>3
    <3> QED BY <3>1, <1>13 DEF Half, FullAsViewed
  <2>5. SizeAsViewed(e, p)
    <3> SUFFICES ASSUME NEW t \in PagesOf[p], t \in e.tabs
                 PROVE  /\ e.viewer[t] = "full" => e.surface[t].base = "full"
                        /\ ~e.full.on => e.surface[t].base # "full"
      BY DEF SizeAsViewed
    <3>1. t = s.shown[p] /\ s.float[p]
      BY <1>5
    <3>2. e.surface[t].base = IF s.full.on /\ s.full.sized THEN "full" ELSE "pane"
      BY <1>5, <3>1
    <3>3. e.viewer[t] = "full" => s.full.on /\ s.full.sized
      BY <1>9, <2>4, <3>1 DEF FullAsViewed
    <3> QED BY <3>2, <3>3, <1>9
  <2> QED BY <2>1, <2>2, <2>4, <2>5 DEF Aligned, Half
<1> QED BY <1>9, <1>10, <1>11, <1>12, <1>13

(* The display as a record. *)
LEMMA NowIs ==
  /\ Now = [shown |-> floatTab, float |-> floatOf, seen |-> onScreen, tabs |-> floatingTabs, viewer |-> viewer,
            full |-> full, surface |-> surface, zoom |-> zoomed]
  /\ Now.shown = floatTab /\ Now.float = floatOf /\ Now.seen = onScreen /\ Now.tabs = floatingTabs
  /\ Now.viewer = viewer /\ Now.full = full /\ Now.surface = surface /\ Now.zoom = zoomed
BY DEF Now

(* A step of one pane that leaves a display: the other panes keep theirs, or are crossed. *)
LEMMA PaneBecomes ==
  ASSUME FloatInv, NEW p \in FloatPanes, NEW e, e \in Displays, ViewersOfFloats(e), ShowsItsOwn(e, p),
         ShownFloats(e, p), OtherPanesStay(Now, e, p), p \notin crossed => Aligned(e, p), Becomes(e), Crosses(p)
  PROVE  FloatInv'
<1>1. /\ e.shown = floatTab' /\ e.float = floatOf' /\ e.seen = onScreen' /\ e.tabs = floatingTabs'
      /\ e.viewer = viewer' /\ e.full = full' /\ e.surface = surface' /\ e.zoom = zoomed'
  BY DEF Becomes
<1>2. e = [shown |-> floatTab', float |-> floatOf', seen |-> onScreen', tabs |-> floatingTabs', viewer |-> viewer',
           full |-> full', surface |-> surface', zoom |-> zoomed']
  BY <1>1 DEF Displays
<1>3. Now' = e
  BY <1>2 DEF Now
<1>4. ASSUME NEW q \in FloatPanes PROVE ShowsItsOwn(e, q) /\ ShownFloats(e, q)
  <2>1. ShowsItsOwn(Now, q) /\ ShownFloats(Now, q)
    BY DEF FloatInv
  <2>2. CASE q # p
    <3>1. /\ e.shown[q] = Now.shown[q] /\ e.float[q] = Now.float[q]
          /\ \A t \in PagesOf[q] : t \in e.tabs <=> t \in Now.tabs
      BY <2>2 DEF OtherPanesStay
    <3> QED BY <2>1, <3>1 DEF ShowsItsOwn, ShownFloats
  <2> QED BY <2>2
<1>5. ASSUME NEW q \in FloatPanes \ crossed' PROVE Aligned(e, q)
  <2>1. q \notin crossed
    BY DEF Crosses
  <2>2. CASE q # p
    <3>1. /\ e.shown[q] = Now.shown[q] /\ e.float[q] = Now.float[q]
          /\ \A t \in PagesOf[q] : /\ t \in e.tabs <=> t \in Now.tabs
                                   /\ e.viewer[t] = Now.viewer[t] /\ e.surface[t] = Now.surface[t]
                                   /\ e.zoom[t] = Now.zoom[t]
      BY <2>2 DEF OtherPanesStay
    <3>2. Aligned(Now, q) /\ ShowsItsOwn(Now, q) /\ ShownFloats(Now, q) /\ ShownFloats(e, q)
      BY <1>4, <2>1 DEF FloatInv
    <3>3. e.full = Now.full \/ ~Now.float[q]
      BY <1>1, <2>2, NowIs DEF Crosses
    <3>4. ZoomOfShrunk(e, q)
      BY <3>1, <3>2 DEF Aligned, Half, ZoomOfShrunk
    <3>5. CASE e.full = Now.full
      <4>1. ShrunkAsFull(e, q)
        BY <3>1, <3>2, <3>5 DEF Aligned, ShrunkAsFull
      <4>2. FullAsViewed(e, q)
        BY <3>1, <3>2, <3>5 DEF Aligned, Half, FullAsViewed, ShowsItsOwn
      <4>3. SizeAsViewed(e, q)
        BY <3>1, <3>2, <3>5 DEF Aligned, SizeAsViewed
      <4> QED BY <3>4, <4>1, <4>2, <4>3 DEF Aligned, Half
    <3>6. CASE ~Now.float[q]
      <4>1. ~e.float[q] /\ \A t \in PagesOf[q] : t \notin e.tabs /\ t \notin Now.tabs
        BY <3>1, <3>2, <3>6 DEF ShownFloats
      <4>2. ShrunkAsFull(e, q)
        BY <3>1, <3>2, <4>1 DEF Aligned, ShrunkAsFull
      <4> QED BY <3>4, <4>1, <4>2 DEF Aligned, Half, FullAsViewed, SizeAsViewed
    <3> QED BY <3>3, <3>5, <3>6
  <2> QED BY <2>1, <2>2
<1> QED BY <1>3, <1>4, <1>5
        DEF FloatInv, ViewersOfFloats, ShowsItsOwn, ShownFloats, Aligned, Half, ZoomOfShrunk, ShrunkAsFull,
            FullAsViewed, SizeAsViewed

(* A step that goes over the tabs of the pane. *)
LEMMA PaintsIt ==
  ASSUME FloatInv, NEW p \in FloatPanes, NEW s, s \in Displays, ViewersOfFloats(s), ShowsItsOwn(s, p),
         OtherPanesStay(Now, s, p), p \notin crossed => Half(s, p), Becomes(UpdatePainting(s, p)), Crosses(p)
  PROVE  FloatInv'
<1>1. PICK e : e = UpdatePainting(s, p)
  OBVIOUS
<1>2. /\ e \in Displays /\ ViewersOfFloats(e) /\ ShowsItsOwn(e, p) /\ ShownFloats(e, p) /\ OtherPanesStay(s, e, p)
      /\ Half(s, p) => Aligned(e, p)
  BY <1>1, TabsPainted
<1>3. OtherPanesStay(Now, e, p)
  BY <1>2, OtherPanesStayOn
<1> QED BY <1>1, <1>2, <1>3, PaneBecomes

(* What is known of the display between any two steps. *)
LEMMA FloatParts ==
  ASSUME NEW p \in FloatPanes, FloatInv
  PROVE  /\ floatTab \in [FloatPanes -> Pages] /\ floatOf \in [FloatPanes -> BOOLEAN]
         /\ onScreen \in [FloatPanes -> BOOLEAN] /\ floatingTabs \in SUBSET Pages
         /\ viewer \in [Pages -> ViewerStates] /\ full \in Fulls /\ surface \in [Pages -> Surfaces]
         /\ zoomed \in [Pages -> BOOLEAN] /\ floatOf[p] \in BOOLEAN /\ floatTab[p] \in PagesOf[p]
         /\ \A t \in Pages : t \in floatingTabs <=> viewer[t] # "none"
         /\ \A t \in PagesOf[p] : t \in floatingTabs <=> floatOf[p] /\ t = floatTab[p]
         /\ p \notin crossed =>
              /\ \A t \in PagesOf[p] : /\ zoomed[t] = surface[t].shrunk
                                       /\ surface[t].shrunk = (t \in floatingTabs /\ full.shrunk)
                                       /\ t \in floatingTabs => /\ viewer[t] = "full" => surface[t].base = "full"
                                                                /\ ~full.on => surface[t].base # "full"
              /\ floatOf[p] => /\ viewer[floatTab[p]] = "shown" => ~full.on
                               /\ viewer[floatTab[p]] \in {"full", "leaving"} => full.on /\ full.sized
<1>1. Now \in Displays /\ ViewersOfFloats(Now) /\ ShowsItsOwn(Now, p) /\ ShownFloats(Now, p)
      /\ (p \notin crossed => Aligned(Now, p))
  BY DEF FloatInv
<1>2. /\ floatTab \in [FloatPanes -> Pages] /\ floatOf \in [FloatPanes -> BOOLEAN]
      /\ onScreen \in [FloatPanes -> BOOLEAN] /\ floatingTabs \in SUBSET Pages
      /\ viewer \in [Pages -> ViewerStates] /\ full \in Fulls /\ surface \in [Pages -> Surfaces]
      /\ zoomed \in [Pages -> BOOLEAN] /\ floatOf[p] \in BOOLEAN
  BY <1>1, NowIs DEF Displays
<1>3. /\ floatTab[p] \in PagesOf[p]
      /\ \A t \in Pages : t \in floatingTabs <=> viewer[t] # "none"
      /\ \A t \in PagesOf[p] : t \in floatingTabs <=> floatOf[p] /\ t = floatTab[p]
  BY <1>1, NowIs DEF ViewersOfFloats, ShowsItsOwn, ShownFloats
<1>4. ASSUME p \notin crossed
      PROVE  /\ \A t \in PagesOf[p] : /\ zoomed[t] = surface[t].shrunk
                                      /\ surface[t].shrunk = (t \in floatingTabs /\ full.shrunk)
                                      /\ t \in floatingTabs => /\ viewer[t] = "full" => surface[t].base = "full"
                                                               /\ ~full.on => surface[t].base # "full"
             /\ floatOf[p] => /\ viewer[floatTab[p]] = "shown" => ~full.on
                              /\ viewer[floatTab[p]] \in {"full", "leaving"} => full.on /\ full.sized
  BY <1>1, <1>4, NowIs DEF Aligned, Half, ZoomOfShrunk, ShrunkAsFull, SizeAsViewed, FullAsViewed
<1> QED BY <1>2, <1>3, <1>4

(* A record of these fields is a display. *)
LEMMA IsDisplay ==
  ASSUME NEW a \in [FloatPanes -> Pages], NEW b \in [FloatPanes -> BOOLEAN], NEW c \in [FloatPanes -> BOOLEAN],
         NEW d \in SUBSET Pages, NEW v \in [Pages -> ViewerStates], NEW f \in Fulls, NEW g \in [Pages -> Surfaces],
         NEW z \in [Pages -> BOOLEAN], NEW s,
         s = [shown |-> a, float |-> b, seen |-> c, tabs |-> d, viewer |-> v, full |-> f, surface |-> g, zoom |-> z]
  PROVE  /\ s \in Displays /\ s.shown = a /\ s.float = b /\ s.seen = c /\ s.tabs = d /\ s.viewer = v /\ s.full = f
         /\ s.surface = g /\ s.zoom = z
BY DEF Displays

(* The pane floats, or no longer. *)
LEMMA FloatTogglesStep ==
  ASSUME NEW p \in FloatPanes, FloatInv, NEW fullscreen \in BOOLEAN, NEW restoreFocus,
         ToggleFloat(p, fullscreen, restoreFocus), Crosses(p)
  PROVE  FloatInv'
<1>1. PICK on \in BOOLEAN : on = ~floatOf[p]
  BY FloatParts
<1>2. PICK f : f = IF on /\ fullscreen THEN [full EXCEPT !.on = TRUE]
                   ELSE IF on THEN [full EXCEPT !.on = FALSE, !.shrunk = FALSE] ELSE NotFull
  OBVIOUS
<1>3. PICK s : s = [Now EXCEPT !.float[p] = on, !.full = f]
  OBVIOUS
<1>4. Becomes(UpdatePainting(s, p))
  BY <1>1, <1>2, <1>3, NowIs DEF ToggleFloat
<1>5. PICK b : b = [floatOf EXCEPT ![p] = on]
  OBVIOUS
<1>6. b \in [FloatPanes -> BOOLEAN] /\ b[p] = on /\ \A q \in FloatPanes \ {p} : b[q] = floatOf[q]
  BY <1>1, <1>5, FloatParts
<1>7. f \in Fulls
  BY <1>2, FloatParts DEF Fulls, NotFull
<1>8. s = [shown |-> floatTab, float |-> b, seen |-> onScreen, tabs |-> floatingTabs, viewer |-> viewer,
           full |-> f, surface |-> surface, zoom |-> zoomed]
  BY <1>3, <1>5, NowIs
<1>9. /\ s \in Displays /\ s.shown = floatTab /\ s.float = b /\ s.tabs = floatingTabs /\ s.viewer = viewer
      /\ s.full = f /\ s.surface = surface /\ s.zoom = zoomed
  <2>1. /\ floatTab \in [FloatPanes -> Pages] /\ onScreen \in [FloatPanes -> BOOLEAN] /\ floatingTabs \in SUBSET Pages
        /\ viewer \in [Pages -> ViewerStates] /\ surface \in [Pages -> Surfaces] /\ zoomed \in [Pages -> BOOLEAN]
    BY FloatParts
  <2> QED BY <2>1, <1>6, <1>7, <1>8, IsDisplay
<1>10. ViewersOfFloats(s) /\ ShowsItsOwn(s, p) /\ OtherPanesStay(Now, s, p)
  BY <1>6, <1>9, FloatParts, NowIs DEF ViewersOfFloats, ShowsItsOwn, OtherPanesStay
<1>11. ASSUME p \notin crossed PROVE Half(s, p)
  <2>1. ZoomOfShrunk(s, p)
    BY <1>9, <1>11, FloatParts DEF ZoomOfShrunk
  <2>2. on => viewer[floatTab[p]] = "none"
    <3>1. floatTab[p] \in PagesOf[p] /\ floatTab[p] \in Pages
      BY FloatParts, PagesApart
    <3> QED BY <3>1, <1>1, FloatParts
  <2>3. FullAsViewed(s, p)
    BY <2>2, <1>6, <1>9 DEF FullAsViewed
  <2> QED BY <2>1, <2>3 DEF Half
<1> QED BY <1>4, <1>9, <1>10, <1>11, PaintsIt

(* The surface of a floating tab is set, and its zoom with it. *)
LEMMA SurfaceSet ==
  ASSUME NEW p \in FloatPanes, FloatInv, NEW t \in PagesOf[p], t \in floatingTabs, NEW v \in [Pages -> ViewerStates],
         NEW f \in Fulls, NEW base \in {"full", "window"}, NEW s,
         s = [shown |-> floatTab, float |-> floatOf, seen |-> onScreen, tabs |-> floatingTabs, viewer |-> v,
              full |-> f, surface |-> surface, zoom |-> zoomed],
         v[t] # "none", \A q \in Pages : q # t => v[q] = viewer[q],
         p \notin crossed => /\ v[t] = "shown" => ~f.on
                             /\ v[t] \in {"full", "leaving"} => f.on /\ f.sized
                             /\ v[t] = "full" => base = "full"
                             /\ ~f.on => base # "full",
         Becomes(FullscreenSurface(s, t, base)), Crosses(p)
  PROVE  FloatInv'
<1>1. /\ t \in Pages /\ t = floatTab[p] /\ floatOf[p] /\ PagesOf[p] \subseteq Pages
      /\ \A q \in PagesOf[p] : q \in floatingTabs <=> q = t
  BY FloatParts, PagesApart
<1>2. PICK z : z = (f.shrunk /\ t \in floatingTabs)
  OBVIOUS
<1>3. z = f.shrunk /\ z \in BOOLEAN
  BY <1>2 DEF Fulls
<1>4. PICK size : size = [base |-> base, shrunk |-> f.shrunk]
  OBVIOUS
<1>5. size \in Surfaces /\ size.base = base /\ size.shrunk = f.shrunk
  BY <1>3, <1>4 DEF Surfaces
<1>6. PICK e : e = FullscreenSurface(s, t, base)
  OBVIOUS
<1>7. s.tabs = floatingTabs /\ s.full = f
  OBVIOUS
<1>8. e = [s EXCEPT !.surface[t] = size, !.zoom[t] = z]
  BY <1>2, <1>4, <1>6, <1>7 DEF FullscreenSurface, EffectiveZoom
<1>9. PICK g, y : g = [surface EXCEPT ![t] = size] /\ y = [zoomed EXCEPT ![t] = z]
  OBVIOUS
<1>10. /\ g \in [Pages -> Surfaces] /\ g[t] = size /\ \A q \in Pages : q # t => g[q] = surface[q]
       /\ y \in [Pages -> BOOLEAN] /\ y[t] = z /\ \A q \in Pages : q # t => y[q] = zoomed[q]
  <2>1. surface \in [Pages -> Surfaces] /\ zoomed \in [Pages -> BOOLEAN]
    BY FloatParts
  <2> QED BY <2>1, <1>1, <1>3, <1>5, <1>9
<1>11. e = [shown |-> floatTab, float |-> floatOf, seen |-> onScreen, tabs |-> floatingTabs, viewer |-> v,
            full |-> f, surface |-> g, zoom |-> y]
  BY <1>8, <1>9
<1>12. /\ e \in Displays /\ e.shown = floatTab /\ e.float = floatOf /\ e.tabs = floatingTabs /\ e.viewer = v
       /\ e.full = f /\ e.surface = g /\ e.zoom = y
  <2>1. /\ floatTab \in [FloatPanes -> Pages] /\ floatOf \in [FloatPanes -> BOOLEAN]
        /\ onScreen \in [FloatPanes -> BOOLEAN] /\ floatingTabs \in SUBSET Pages
    BY FloatParts
  <2> QED BY <2>1, <1>10, <1>11, IsDisplay
<1>13. ViewersOfFloats(e) /\ ShowsItsOwn(e, p) /\ ShownFloats(e, p)
  BY <1>1, <1>12, FloatParts DEF ViewersOfFloats, ShowsItsOwn, ShownFloats
<1>14. OtherPanesStay(Now, e, p)
  <2> SUFFICES ASSUME NEW q \in FloatPanes \ {p}, NEW x \in PagesOf[q] PROVE x \in Pages /\ x # t
    BY <1>10, <1>12, NowIs DEF OtherPanesStay
  <2> QED BY PagesApart
<1>15. ASSUME p \notin crossed PROVE Aligned(e, p)
  <2>1. ASSUME NEW q \in PagesOf[p], q # t
        PROVE  /\ q \in Pages /\ g[q] = surface[q] /\ y[q] = zoomed[q] /\ q \notin floatingTabs
               /\ zoomed[q] = surface[q].shrunk /\ surface[q].shrunk = FALSE
    BY <1>1, <1>10, <1>15, <2>1, FloatParts
  <2>2. g[t].shrunk = f.shrunk /\ y[t] = f.shrunk /\ g[t].base = base
    BY <1>3, <1>5, <1>10
  <2>3. ZoomOfShrunk(e, p)
    BY <1>12, <2>1, <2>2 DEF ZoomOfShrunk
  <2>4. ShrunkAsFull(e, p)
    <3> SUFFICES ASSUME NEW q \in PagesOf[p] PROVE g[q].shrunk = (q \in floatingTabs /\ f.shrunk)
      BY <1>12 DEF ShrunkAsFull
    <3>1. CASE q = t
      BY <3>1, <1>3, <2>2
    <3>2. CASE q # t
      BY <3>2, <2>1
    <3> QED BY <3>1, <3>2
  <2>5. FullAsViewed(e, p)
    BY <1>1, <1>12, <1>15 DEF FullAsViewed
  <2>6. SizeAsViewed(e, p)
    BY <1>1, <1>12, <1>15, <2>2 DEF SizeAsViewed
  <2> QED BY <2>3, <2>4, <2>5, <2>6 DEF Aligned, Half
<1> QED BY <1>6, <1>12, <1>13, <1>14, <1>15, PaneBecomes

(* Only a viewer goes on. *)
LEMMA ViewerGoesOn ==
  ASSUME NEW p \in FloatPanes, FloatInv, NEW t \in PagesOf[p], t \in floatingTabs,
         NEW w \in ViewerStates, w # "none", viewer' = [viewer EXCEPT ![t] = w],
         p \notin crossed => /\ w = "shown" => ~full.on
                             /\ w \in {"full", "leaving"} => full.on /\ full.sized
                             /\ w = "full" => viewer[t] = "full",
         UNCHANGED <<floatTab, floatOf, onScreen, floatingTabs, full, surface, zoomed>>, Crosses(p)
  PROVE  FloatInv'
<1>1. PICK v : v = [viewer EXCEPT ![t] = w]
  OBVIOUS
<1>2. viewer \in [Pages -> ViewerStates] /\ floatOf[p] /\ t = floatTab[p] /\ t \in Pages
  BY FloatParts, PagesApart
<1>3. v \in [Pages -> ViewerStates] /\ v[t] = w /\ \A q \in Pages : q # t => v[q] = viewer[q]
  BY <1>1, <1>2
<1>4. PICK e : e = [shown |-> floatTab, float |-> floatOf, seen |-> onScreen, tabs |-> floatingTabs, viewer |-> v,
                    full |-> full, surface |-> surface, zoom |-> zoomed]
  OBVIOUS
<1>5. /\ e \in Displays /\ e.shown = floatTab /\ e.float = floatOf /\ e.seen = onScreen /\ e.tabs = floatingTabs
      /\ e.viewer = v /\ e.full = full /\ e.surface = surface /\ e.zoom = zoomed
  <2>1. /\ floatTab \in [FloatPanes -> Pages] /\ floatOf \in [FloatPanes -> BOOLEAN]
        /\ onScreen \in [FloatPanes -> BOOLEAN] /\ floatingTabs \in SUBSET Pages
        /\ full \in Fulls /\ surface \in [Pages -> Surfaces] /\ zoomed \in [Pages -> BOOLEAN]
    BY FloatParts
  <2> QED BY <2>1, <1>3, <1>4, IsDisplay
<1>6. ViewersOfFloats(e) /\ ShowsItsOwn(e, p) /\ ShownFloats(e, p)
  BY <1>2, <1>3, <1>5, FloatParts DEF ViewersOfFloats, ShowsItsOwn, ShownFloats
<1>7. OtherPanesStay(Now, e, p)
  <2> SUFFICES ASSUME NEW q \in FloatPanes \ {p}, NEW x \in PagesOf[q] PROVE x \in Pages /\ x # t
    BY <1>3, <1>5, NowIs DEF OtherPanesStay
  <2> QED BY PagesApart
<1>8. ASSUME p \notin crossed PROVE Aligned(e, p)
  <2>1. Aligned(Now, p)
    BY <1>8 DEF FloatInv
  <2>2. ZoomOfShrunk(e, p) /\ ShrunkAsFull(e, p)
    BY <1>5, <2>1, NowIs DEF Aligned, Half, ZoomOfShrunk, ShrunkAsFull
  <2>3. FullAsViewed(e, p)
    BY <1>2, <1>3, <1>5, <1>8 DEF FullAsViewed
  <2>4. SizeAsViewed(e, p)
    <3> SUFFICES ASSUME NEW q \in PagesOf[p], q \in floatingTabs
                 PROVE  /\ v[q] = "full" => surface[q].base = "full"
                        /\ ~full.on => surface[q].base # "full"
      BY <1>5 DEF SizeAsViewed
    <3>1. q = t
      BY <1>2, FloatParts
    <3>2. /\ viewer[t] = "full" => surface[t].base = "full"
          /\ ~full.on => surface[t].base # "full"
      BY <1>8, FloatParts
    <3> QED BY <3>1, <3>2, <1>3, <1>8
  <2> QED BY <2>2, <2>3, <2>4 DEF Aligned, Half
<1> QED BY <1>1, <1>5, <1>6, <1>7, <1>8, PaneBecomes DEF Becomes

(* Setting the zoom of a pane's tab again: no other's changes, nor its own when it was as it should be. *)
LEMMA ZoomedAgain ==
  ASSUME NEW p \in FloatPanes, NEW s, s \in Displays, ViewersOfFloats(s), ShowsItsOwn(s, p), ShownFloats(s, p),
         NEW t \in PagesOf[p], NEW e, e = [s EXCEPT !.zoom[t] = EffectiveZoom(s, t)]
  PROVE  /\ e \in Displays /\ ViewersOfFloats(e) /\ ShowsItsOwn(e, p) /\ ShownFloats(e, p) /\ OtherPanesStay(s, e, p)
         /\ Aligned(s, p) => Aligned(e, p)
<1>1. PICK z : z = EffectiveZoom(s, t)
  OBVIOUS
<1>2. t \in Pages /\ PagesOf[p] \subseteq Pages
  BY PagesApart
<1>3. z = (s.full.shrunk /\ t \in s.tabs) /\ z \in BOOLEAN
  BY <1>1 DEF EffectiveZoom, Displays, Fulls
<1>4. PICK y : y = [s.zoom EXCEPT ![t] = z]
  OBVIOUS
<1>5. y \in [Pages -> BOOLEAN] /\ y[t] = z /\ \A q \in Pages : q # t => y[q] = s.zoom[q]
  BY <1>2, <1>3, <1>4 DEF Displays
<1>6. e = [s EXCEPT !.zoom = y]
  <2>1. e = [s EXCEPT !.zoom[t] = z]
    BY <1>1
  <2> QED BY <2>1, <1>4 DEF Displays
<1>7. e = [shown |-> s.shown, float |-> s.float, seen |-> s.seen, tabs |-> s.tabs, viewer |-> s.viewer,
           full |-> s.full, surface |-> s.surface, zoom |-> y]
  BY <1>6 DEF Displays
<1>8. /\ e \in Displays /\ e.shown = s.shown /\ e.float = s.float /\ e.tabs = s.tabs /\ e.viewer = s.viewer
      /\ e.full = s.full /\ e.surface = s.surface /\ e.zoom = y
  BY <1>5, <1>7 DEF Displays
<1>9. ViewersOfFloats(e) /\ ShowsItsOwn(e, p) /\ ShownFloats(e, p)
  BY <1>8 DEF ViewersOfFloats, ShowsItsOwn, ShownFloats
<1>10. OtherPanesStay(s, e, p)
  <2> SUFFICES ASSUME NEW q \in FloatPanes \ {p}, NEW x \in PagesOf[q] PROVE x \in Pages /\ x # t
    BY <1>5, <1>8 DEF OtherPanesStay
  <2> QED BY PagesApart
<1>11. ASSUME Aligned(s, p) PROVE Aligned(e, p)
  <2>1. s.surface[t].shrunk = (t \in s.tabs /\ s.full.shrunk)
    BY <1>11 DEF Aligned, ShrunkAsFull
  <2>2. z = s.surface[t].shrunk
    BY <2>1, <1>3
  <2>3. ZoomOfShrunk(e, p)
    BY <2>2, <1>2, <1>5, <1>8, <1>11 DEF Aligned, Half, ZoomOfShrunk
  <2>4. ShrunkAsFull(e, p) /\ FullAsViewed(e, p) /\ SizeAsViewed(e, p)
    BY <1>8, <1>11 DEF Aligned, Half, ShrunkAsFull, FullAsViewed, SizeAsViewed
  <2> QED BY <2>3, <2>4 DEF Aligned, Half
<1> QED BY <1>8, <1>9, <1>10, <1>11

(* The steps of a viewer's window. *)
LEMMA FullScreenStep ==
  ASSUME NEW p \in FloatPanes, FloatInv, NEW t \in PagesOf[p], EnterFullScreen(t), Crosses(p)
  PROVE  FloatInv'
<1>1. t \in Pages /\ t \in floatingTabs /\ viewer \in [Pages -> ViewerStates]
  BY FloatParts, PagesApart DEF EnterFullScreen
<1>2. PICK v, f : v = [viewer EXCEPT ![t] = "full"] /\ f = [on |-> TRUE, sized |-> TRUE, shrunk |-> ScaleShrinks]
  OBVIOUS
<1>3. /\ v \in [Pages -> ViewerStates] /\ v[t] = "full" /\ \A q \in Pages : q # t => v[q] = viewer[q]
      /\ f \in Fulls /\ f.on /\ f.sized
  BY <1>1, <1>2, FloatAssumption DEF ViewerStates, Fulls, FloatAssumption
<1>4. PICK s : s = [Now EXCEPT !.viewer[t] = "full", !.full = f]
  OBVIOUS
<1>5. s = [shown |-> floatTab, float |-> floatOf, seen |-> onScreen, tabs |-> floatingTabs, viewer |-> v,
           full |-> f, surface |-> surface, zoom |-> zoomed]
  BY <1>2, <1>4, NowIs
<1>6. Becomes(FullscreenSurface(s, t, "full"))
  BY <1>2, <1>4 DEF EnterFullScreen
<1> QED BY <1>1, <1>3, <1>5, <1>6, SurfaceSet

LEMMA ResizedStep ==
  ASSUME NEW p \in FloatPanes, FloatInv, NEW t \in PagesOf[p], ViewerResized(t), Crosses(p)
  PROVE  FloatInv'
<1>1. /\ t \in floatingTabs /\ viewer \in [Pages -> ViewerStates] /\ full \in Fulls /\ viewer[t] = "shown"
  BY FloatParts DEF ViewerResized
<1>2. p \notin crossed => ~full.on
  BY <1>1, FloatParts
<1>3. PICK s : s = Now
  OBVIOUS
<1>4. s = [shown |-> floatTab, float |-> floatOf, seen |-> onScreen, tabs |-> floatingTabs, viewer |-> viewer,
           full |-> full, surface |-> surface, zoom |-> zoomed]
  BY <1>3, NowIs
<1>5. Becomes(FullscreenSurface(s, t, "window"))
  BY <1>3 DEF ViewerResized
<1> QED BY <1>1, <1>2, <1>4, <1>5, SurfaceSet

LEMMA LeaveStep ==
  ASSUME NEW p \in FloatPanes, FloatInv, NEW t \in PagesOf[p], LeaveFullScreen(t), Crosses(p)
  PROVE  FloatInv'
<1>1. /\ t \in Pages /\ t \in floatingTabs /\ floatOf[p] /\ t = floatTab[p] /\ PaneOf(t) = p
      /\ viewer \in [Pages -> ViewerStates]
  BY FloatParts, PagesApart DEF LeaveFullScreen
<1>2. PICK v : v = [viewer EXCEPT ![t] = "shown"]
  OBVIOUS
<1>3. v \in [Pages -> ViewerStates] /\ v[t] = "shown" /\ \A q \in Pages : q # t => v[q] = viewer[q]
  BY <1>1, <1>2 DEF ViewerStates
<1>4. PICK s : s = [Now EXCEPT !.viewer[t] = "shown", !.full = NotFull]
  OBVIOUS
<1>5. s = [shown |-> floatTab, float |-> floatOf, seen |-> onScreen, tabs |-> floatingTabs, viewer |-> v,
           full |-> NotFull, surface |-> surface, zoom |-> zoomed]
  BY <1>2, <1>4, NowIs
<1>6. Becomes(UpdatePainting(s, p))
  BY <1>1, <1>4 DEF LeaveFullScreen
<1>7. NotFull \in Fulls /\ ~NotFull.on
  BY DEF NotFull, Fulls
<1>8. /\ s \in Displays /\ s.shown = floatTab /\ s.float = floatOf /\ s.tabs = floatingTabs /\ s.viewer = v
      /\ s.full = NotFull /\ s.surface = surface /\ s.zoom = zoomed
  <2>1. /\ floatTab \in [FloatPanes -> Pages] /\ floatOf \in [FloatPanes -> BOOLEAN]
        /\ onScreen \in [FloatPanes -> BOOLEAN] /\ floatingTabs \in SUBSET Pages
        /\ surface \in [Pages -> Surfaces] /\ zoomed \in [Pages -> BOOLEAN]
    BY FloatParts
  <2> QED BY <2>1, <1>3, <1>5, <1>7, IsDisplay
<1>9. ViewersOfFloats(s) /\ ShowsItsOwn(s, p)
  BY <1>1, <1>3, <1>8, FloatParts DEF ViewersOfFloats, ShowsItsOwn
<1>10. OtherPanesStay(Now, s, p)
  <2> SUFFICES ASSUME NEW q \in FloatPanes \ {p}, NEW x \in PagesOf[q] PROVE x \in Pages /\ x # t
    BY <1>3, <1>8, NowIs DEF OtherPanesStay
  <2> QED BY PagesApart
<1>11. p \notin crossed => Half(s, p)
  BY <1>1, <1>3, <1>7, <1>8, FloatParts DEF Half, ZoomOfShrunk, FullAsViewed
<1> QED BY <1>6, <1>8, <1>9, <1>10, <1>11, PaintsIt

LEMMA ClosedStep ==
  ASSUME NEW p \in FloatPanes, FloatInv, NEW t \in PagesOf[p], ViewerClosed(t), Crosses(p)
  PROVE  FloatInv'
<1>1. /\ t \in Pages /\ t \in floatingTabs /\ t = floatTab[p] /\ PaneOf(t) = p
      /\ viewer \in [Pages -> ViewerStates] /\ floatOf \in [FloatPanes -> BOOLEAN] /\ floatingTabs \in SUBSET Pages
  BY FloatParts, PagesApart DEF ViewerClosed
<1>2. PICK v, d, b : /\ v = [viewer EXCEPT ![t] = "none"] /\ d = floatingTabs \ {t}
                     /\ b = [floatOf EXCEPT ![p] = FALSE]
  OBVIOUS
<1>3. /\ v \in [Pages -> ViewerStates] /\ v[t] = "none" /\ \A q \in Pages : q # t => v[q] = viewer[q]
      /\ d \in SUBSET Pages /\ t \notin d /\ \A q \in Pages : q # t => (q \in d <=> q \in floatingTabs)
      /\ b \in [FloatPanes -> BOOLEAN] /\ ~b[p] /\ \A q \in FloatPanes \ {p} : b[q] = floatOf[q]
  BY <1>1, <1>2 DEF ViewerStates
<1>4. PICK s : s = [Now EXCEPT !.viewer[t] = "none", !.tabs = @ \ {t}, !.full = NotFull, !.float[p] = FALSE]
  OBVIOUS
<1>5. s = [shown |-> floatTab, float |-> b, seen |-> onScreen, tabs |-> d, viewer |-> v,
           full |-> NotFull, surface |-> surface, zoom |-> zoomed]
  BY <1>2, <1>4, NowIs
<1>6. Becomes(UpdatePainting(s, p))
  BY <1>1, <1>4 DEF ViewerClosed
<1>7. NotFull \in Fulls
  BY DEF NotFull, Fulls
<1>8. /\ s \in Displays /\ s.shown = floatTab /\ s.float = b /\ s.tabs = d /\ s.viewer = v
      /\ s.full = NotFull /\ s.surface = surface /\ s.zoom = zoomed
  <2>1. /\ floatTab \in [FloatPanes -> Pages] /\ onScreen \in [FloatPanes -> BOOLEAN]
        /\ surface \in [Pages -> Surfaces] /\ zoomed \in [Pages -> BOOLEAN]
    BY FloatParts
  <2> QED BY <2>1, <1>3, <1>5, <1>7, IsDisplay
<1>9. ViewersOfFloats(s) /\ ShowsItsOwn(s, p)
  BY <1>1, <1>3, <1>8, FloatParts DEF ViewersOfFloats, ShowsItsOwn
<1>10. OtherPanesStay(Now, s, p)
  <2> SUFFICES ASSUME NEW q \in FloatPanes \ {p}, NEW x \in PagesOf[q] PROVE x \in Pages /\ x # t
    BY <1>3, <1>8, NowIs DEF OtherPanesStay
  <2> QED BY PagesApart
<1>11. p \notin crossed => Half(s, p)
  BY <1>3, <1>8, FloatParts DEF Half, ZoomOfShrunk, FullAsViewed
<1> QED BY <1>6, <1>8, <1>9, <1>10, <1>11, PaintsIt

LEMMA LoadsStep ==
  ASSUME NEW p \in FloatPanes, FloatInv, NEW t \in PagesOf[p], ViewerLoads(t), Crosses(p)
  PROVE  FloatInv'
<1>1. PICK w \in ViewerStates : w = IF full.on THEN "entering" ELSE "shown"
  BY DEF ViewerStates
<1>2. t \in floatingTabs
  BY FloatParts, PagesApart DEF ViewerLoads
<1>3. /\ viewer' = [viewer EXCEPT ![t] = w]
      /\ UNCHANGED <<floatTab, floatOf, onScreen, floatingTabs, full, surface, zoomed>>
  BY <1>1 DEF ViewerLoads
<1>4. w # "none" /\ (w = "shown" => ~full.on) /\ w \notin {"full", "leaving"}
  BY <1>1
<1> QED BY <1>2, <1>3, <1>4, ViewerGoesOn

(* The steps of the pane. *)
LEMMA FullscreenKeyStep ==
  ASSUME NEW p \in FloatPanes, FloatInv, ToggleFullscreenKey(p), Crosses(p)
  PROVE  FloatInv'
<1>1. CASE ~floatOf[p]
  BY <1>1, FloatTogglesStep DEF ToggleFullscreenKey
<1>2. CASE floatOf[p]
  <2>1. PICK t \in PagesOf[p] : t = floatTab[p]
    BY FloatParts
  <2>2. /\ t \in floatingTabs /\ viewer[t] \in ViewerStates /\ viewer[t] # "none"
        /\ p \notin crossed => /\ viewer[t] = "shown" => ~full.on
                               /\ viewer[t] \in {"full", "leaving"} => full.on /\ full.sized
    BY <1>2, <2>1, FloatParts, PagesApart
  <2>3. PICK w : w = CASE viewer[t] = "shown" -> "entering" [] viewer[t] = "full" -> "leaving" [] OTHER -> viewer[t]
    OBVIOUS
  <2>4. /\ w \in ViewerStates /\ w # "none"
        /\ p \notin crossed => /\ w = "shown" => ~full.on
                               /\ w \in {"full", "leaving"} => full.on /\ full.sized
                               /\ w = "full" => viewer[t] = "full"
    BY <2>2, <2>3 DEF ViewerStates
  <2>5. /\ viewer' = [viewer EXCEPT ![t] = w]
        /\ UNCHANGED <<floatTab, floatOf, onScreen, floatingTabs, full, surface, zoomed>>
    BY <1>2, <2>1, <2>3 DEF ToggleFullscreenKey
  <2> QED BY <2>2, <2>4, <2>5, ViewerGoesOn
<1> QED BY <1>1, <1>2

LEMMA ShowTabStep ==
  ASSUME NEW p \in FloatPanes, FloatInv, NEW t \in PagesOf[p], ShowTab(p, t), Crosses(p)
  PROVE  FloatInv'
<1>1. t \in Pages /\ t # floatTab[p] /\ viewer[t] = "none" /\ floatTab \in [FloatPanes -> Pages]
  BY FloatParts, PagesApart DEF ShowTab
<1>2. PICK a : a = [floatTab EXCEPT ![p] = t]
  OBVIOUS
<1>3. a \in [FloatPanes -> Pages] /\ a[p] = t /\ \A q \in FloatPanes \ {p} : a[q] = floatTab[q]
  BY <1>1, <1>2
<1>4. PICK s : s = [Now EXCEPT !.shown[p] = t]
  OBVIOUS
<1>5. s = [shown |-> a, float |-> floatOf, seen |-> onScreen, tabs |-> floatingTabs, viewer |-> viewer,
           full |-> full, surface |-> surface, zoom |-> zoomed]
  BY <1>2, <1>4, NowIs
<1>6. PICK e : e = UpdatePainting(s, p)
  OBVIOUS
<1>7. PICK z : z = [e EXCEPT !.zoom[t] = EffectiveZoom(e, t)]
  OBVIOUS
<1>8. Becomes(z)
  BY <1>4, <1>6, <1>7 DEF ShowTab
<1>9. /\ s \in Displays /\ s.shown = a /\ s.float = floatOf /\ s.tabs = floatingTabs /\ s.viewer = viewer
      /\ s.full = full /\ s.surface = surface /\ s.zoom = zoomed
  <2>1. /\ floatOf \in [FloatPanes -> BOOLEAN] /\ onScreen \in [FloatPanes -> BOOLEAN] /\ floatingTabs \in SUBSET Pages
        /\ viewer \in [Pages -> ViewerStates] /\ full \in Fulls /\ surface \in [Pages -> Surfaces]
        /\ zoomed \in [Pages -> BOOLEAN]
    BY FloatParts
  <2> QED BY <2>1, <1>3, <1>5, IsDisplay
<1>10. ViewersOfFloats(s) /\ ShowsItsOwn(s, p) /\ OtherPanesStay(Now, s, p)
  BY <1>3, <1>9, FloatParts, NowIs DEF ViewersOfFloats, ShowsItsOwn, OtherPanesStay
<1>11. p \notin crossed => Half(s, p)
  BY <1>1, <1>3, <1>9, FloatParts DEF Half, ZoomOfShrunk, FullAsViewed
<1>12. /\ e \in Displays /\ ViewersOfFloats(e) /\ ShowsItsOwn(e, p) /\ ShownFloats(e, p) /\ OtherPanesStay(s, e, p)
       /\ Half(s, p) => Aligned(e, p)
  BY <1>6, <1>9, <1>10, TabsPainted
<1>13. /\ z \in Displays /\ ViewersOfFloats(z) /\ ShowsItsOwn(z, p) /\ ShownFloats(z, p) /\ OtherPanesStay(e, z, p)
       /\ Aligned(e, p) => Aligned(z, p)
  BY <1>7, <1>12, ZoomedAgain
<1>14. OtherPanesStay(Now, z, p)
  <2>1. OtherPanesStay(Now, e, p)
    BY <1>10, <1>12, OtherPanesStayOn
  <2> QED BY <2>1, <1>13, OtherPanesStayOn
<1> QED BY <1>8, <1>11, <1>12, <1>13, <1>14, PaneBecomes

LEMMA PageLoadsStep ==
  ASSUME NEW p \in FloatPanes, FloatInv, NEW t \in PagesOf[p], PageLoads(t), Crosses(p)
  PROVE  FloatInv'
<1>1. PICK s : s = Now
  OBVIOUS
<1>2. PICK z : z = [s EXCEPT !.zoom[t] = EffectiveZoom(s, t)]
  OBVIOUS
<1>3. Becomes(z)
  BY <1>1, <1>2 DEF PageLoads
<1>4. /\ s \in Displays /\ ViewersOfFloats(s) /\ ShowsItsOwn(s, p) /\ ShownFloats(s, p)
      /\ p \notin crossed => Aligned(s, p)
  BY <1>1 DEF FloatInv
<1>5. /\ z \in Displays /\ ViewersOfFloats(z) /\ ShowsItsOwn(z, p) /\ ShownFloats(z, p) /\ OtherPanesStay(s, z, p)
      /\ Aligned(s, p) => Aligned(z, p)
  BY <1>2, <1>4, ZoomedAgain
<1> QED BY <1>1, <1>3, <1>4, <1>5, PaneBecomes

LEMMA TerminalShowsStep ==
  ASSUME NEW p \in FloatPanes, FloatInv, TerminalShows(p), Crosses(p)
  PROVE  FloatInv'
<1>1. PICK c : c = [onScreen EXCEPT ![p] = ~@]
  OBVIOUS
<1>2. c \in [FloatPanes -> BOOLEAN]
  BY <1>1, FloatParts
<1>3. PICK s : s = [Now EXCEPT !.seen[p] = ~@]
  OBVIOUS
<1>4. s = [shown |-> floatTab, float |-> floatOf, seen |-> c, tabs |-> floatingTabs, viewer |-> viewer,
           full |-> full, surface |-> surface, zoom |-> zoomed]
  BY <1>1, <1>3, NowIs
<1>5. Becomes(UpdatePainting(s, p))
  BY <1>3 DEF TerminalShows
<1>6. /\ s \in Displays /\ s.shown = floatTab /\ s.float = floatOf /\ s.viewer = viewer /\ s.tabs = floatingTabs
      /\ s.full = full /\ s.surface = surface /\ s.zoom = zoomed
  <2>1. /\ floatTab \in [FloatPanes -> Pages] /\ floatOf \in [FloatPanes -> BOOLEAN] /\ floatingTabs \in SUBSET Pages
        /\ viewer \in [Pages -> ViewerStates] /\ full \in Fulls /\ surface \in [Pages -> Surfaces]
        /\ zoomed \in [Pages -> BOOLEAN]
    BY FloatParts
  <2> QED BY <2>1, <1>2, <1>4, IsDisplay
<1>7. ViewersOfFloats(s) /\ ShowsItsOwn(s, p) /\ OtherPanesStay(Now, s, p)
  BY <1>6, NowIs DEF FloatInv, ViewersOfFloats, ShowsItsOwn, OtherPanesStay
<1>8. p \notin crossed => Half(s, p)
  BY <1>6, FloatParts DEF Half, ZoomOfShrunk, FullAsViewed
<1> QED BY <1>5, <1>6, <1>7, <1>8, PaintsIt

LEMMA TickPaintsStep ==
  ASSUME NEW p \in FloatPanes, FloatInv, SurfaceTick(p), Crosses(p)
  PROVE  FloatInv'
<1>1. PICK s : s = Now
  OBVIOUS
<1>2. /\ s \in Displays /\ ViewersOfFloats(s) /\ ShowsItsOwn(s, p) /\ OtherPanesStay(Now, s, p)
      /\ p \notin crossed => Half(s, p)
  BY <1>1 DEF FloatInv, Aligned, OtherPanesStay
<1>3. Becomes(UpdatePainting(s, p))
  BY <1>1 DEF SurfaceTick
<1> QED BY <1>2, <1>3, PaintsIt

LEMMA FloatsStep ==
  ASSUME FloatInv, [FloatNext]_floatVars
  PROVE  FloatInv'
<1>1. CASE UNCHANGED floatVars
  <2>1. Now' = Now /\ crossed' = crossed
    BY <1>1 DEF floatVars, Now
  <2> QED BY <2>1 DEF FloatInv, ViewersOfFloats, ShowsItsOwn, ShownFloats, Aligned, Half, ZoomOfShrunk, ShrunkAsFull,
                      FullAsViewed, SizeAsViewed
<1>2. ASSUME NEW p \in FloatPanes, PaneSteps(p), Crosses(p)
      PROVE  FloatInv'
  <2>1. CASE ToggleKey(p) \/ AgentPins(p) \/ ToggleFullscreenKey(p)
    BY <1>2, <2>1, FloatTogglesStep, FullscreenKeyStep DEF ToggleKey, AgentPins
  <2>2. CASE TerminalShows(p) \/ SurfaceTick(p)
    BY <1>2, <2>2, TerminalShowsStep, TickPaintsStep
  <2>3. ASSUME NEW t \in PagesOf[p], \/ ShowTab(p, t) \/ ViewerLoads(t) \/ EnterFullScreen(t) \/ LeaveFullScreen(t)
                                     \/ ViewerResized(t) \/ ViewerClosed(t) \/ PageLoads(t)
        PROVE  FloatInv'
    BY <1>2, <2>3, ShowTabStep, LoadsStep, FullScreenStep, LeaveStep, ResizedStep, ClosedStep, PageLoadsStep
  <2> QED BY <1>2, <2>1, <2>2, <2>3 DEF PaneSteps
<1> QED BY <1>1, <1>2 DEF FloatNext

LEMMA FloatStarts ==
  ASSUME FloatInit
  PROVE  FloatInv
<1>1. \A p \in FloatPanes : floatTab[p] \in PagesOf[p]
  BY FloatAssumption DEF FloatInit, FloatAssumption
<1>2. floatTab \in [FloatPanes -> Pages]
  BY <1>1 DEF FloatInit, Pages
<1>3. /\ floatOf \in [FloatPanes -> BOOLEAN] /\ onScreen \in [FloatPanes -> BOOLEAN] /\ floatingTabs \in SUBSET Pages
      /\ viewer \in [Pages -> ViewerStates] /\ full \in Fulls /\ zoomed \in [Pages -> BOOLEAN]
  BY DEF FloatInit, ViewerStates, Fulls, NotFull
<1>4. surface \in [Pages -> Surfaces] /\ \A t \in Pages : surface[t].shrunk = FALSE
  <2>1. surface = [t \in Pages |-> [base |-> IF t = floatTab[PaneOf(t)] THEN "pane" ELSE "line", shrunk |-> FALSE]]
    BY DEF FloatInit
  <2>2. \A t \in Pages : surface[t] \in Surfaces /\ surface[t].shrunk = FALSE
    BY <2>1 DEF Surfaces
  <2> QED BY <2>1, <2>2
<1>5. Now \in Displays
  <2>1. PICK s : s = Now
    OBVIOUS
  <2>2. s = [shown |-> floatTab, float |-> floatOf, seen |-> onScreen, tabs |-> floatingTabs, viewer |-> viewer,
             full |-> full, surface |-> surface, zoom |-> zoomed]
    BY <2>1, NowIs
  <2>3. s \in Displays
    BY <2>2, <1>2, <1>3, <1>4 DEF Displays
  <2> QED BY <2>1, <2>3
<1>6. /\ \A p \in FloatPanes : ~floatOf[p]
      /\ \A t \in Pages : viewer[t] = "none" /\ zoomed[t] = FALSE
      /\ floatingTabs = {} /\ full = NotFull
  BY DEF FloatInit
<1>7. ViewersOfFloats(Now) /\ \A p \in FloatPanes : ShowsItsOwn(Now, p) /\ ShownFloats(Now, p)
  BY <1>1, <1>6, NowIs DEF ViewersOfFloats, ShowsItsOwn, ShownFloats
<1>8. ASSUME NEW p \in FloatPanes PROVE Aligned(Now, p)
  <2>1. PagesOf[p] \subseteq Pages
    BY PagesApart
  <2>2. ZoomOfShrunk(Now, p) /\ ShrunkAsFull(Now, p)
    BY <1>4, <1>6, <2>1, NowIs DEF ZoomOfShrunk, ShrunkAsFull
  <2>3. FullAsViewed(Now, p) /\ SizeAsViewed(Now, p)
    BY <1>6, NowIs DEF FullAsViewed, SizeAsViewed
  <2> QED BY <2>2, <2>3 DEF Aligned, Half
<1> QED BY <1>5, <1>7, <1>8 DEF FloatInv

LEMMA FloatsSay ==
  ASSUME FloatInv
  PROVE  OneViewerPerFloat /\ ShrinkIsMadeUpFor /\ FullscreenIsFullSize
<1>1. floatingTabs \in SUBSET Pages /\ ViewersOfFloats(Now)
  BY NowIs DEF FloatInv, Displays
<1>2. OneViewerPerFloat
  <2>1. floatingTabs = {t \in Pages : viewer[t] # "none"}
    BY <1>1, NowIs DEF ViewersOfFloats
  <2>2. ASSUME NEW t \in floatingTabs PROVE \E p \in FloatPanes : floatOf[p] /\ t = floatTab[p]
    <3>1. PICK p \in FloatPanes : t \in PagesOf[p]
      BY <1>1 DEF Pages
    <3> QED BY <3>1, FloatParts
  <2>3. ASSUME NEW p \in FloatPanes, floatOf[p] PROVE floatTab[p] \in floatingTabs
    BY <2>3, FloatParts
  <2> QED BY <2>1, <2>2, <2>3 DEF OneViewerPerFloat
<1>3. ASSUME NEW p \in FloatPanes \ crossed
      PROVE  /\ \A t \in PagesOf[p] : ShrinkMatchesZoom(t) /\ ClicksMatchShrink(t)
             /\ \A t \in PagesOf[p] \cap floatingTabs : SizeMatchesViewer(t)
  <2>1. \A t \in PagesOf[p] : /\ zoomed[t] = surface[t].shrunk
                              /\ surface[t].shrunk = (t \in floatingTabs /\ full.shrunk)
    BY FloatParts
  <2>2. full.shrunk \in BOOLEAN
    BY FloatParts DEF Fulls
  <2>3. \A t \in PagesOf[p] : ShrinkMatchesZoom(t) /\ ClicksMatchShrink(t)
    BY <2>1, <2>2 DEF ShrinkMatchesZoom, ClicksMatchShrink
  <2>4. ASSUME NEW t \in PagesOf[p], t \in floatingTabs PROVE SizeMatchesViewer(t)
    <3>1. floatOf[p] /\ t = floatTab[p]
      BY <2>4, FloatParts
    <3>2. /\ viewer[t] = "shown" => ~full.on
          /\ viewer[t] = "full" => surface[t].base = "full"
          /\ ~full.on => surface[t].base # "full"
      BY <2>4, <3>1, FloatParts
    <3> QED BY <3>2 DEF SizeMatchesViewer
  <2> QED BY <2>3, <2>4
<1> QED BY <1>2, <1>3 DEF ShrinkIsMadeUpFor, FullscreenIsFullSize
=============================================================================
