---------------------------- MODULE RevocoProofs ----------------------------
(***************************************************************************)
(* For any configurations, mice and blocks that the program wrote: however *)
(* the callbacks of the Revoco page are nested, its fields, the mouse they *)
(* show and the mode they remember go together, and opening gives the mode *)
(* of the file.  The calls of the check box and of the refresh by one      *)
(* another, which the model follows three deep, go no deeper.              *)
(***************************************************************************)
EXTENDS Revoco, TLAPS

\* A mouse and a page, whatever the texts in them.
MouseOK(c) ==
  c \in [name : {c.name}, ids : Ids, status : 0..4, btn : Buttons, up : 1..50, down : 1..50]

PageOK(p) ==
  /\ p \in [mouse : {p.mouse}, prev : 0..4, prevBtn : Buttons, cb : BOOLEAN, radio : Modes,
            spin : Buttons, up : 1..50, down : 1..50, sensCb : BOOLEAN, sensMode : BOOLEAN,
            sensBtn : BOOLEAN, sensScroll : BOOLEAN, labels : Ids, entry : {p.entry}]
  /\ MouseOK(p.mouse)

\* What most calls leave alone.
SameMouse(p, q) ==
  /\ q.mouse.ids = p.mouse.ids /\ q.mouse.btn = p.mouse.btn
  /\ q.mouse.up = p.mouse.up /\ q.mouse.down = p.mouse.down
SameSpins(p, q) ==
  q.prevBtn = p.prevBtn /\ q.spin = p.spin /\ q.up = p.up /\ q.down = p.down
SameChoice(p, q) ==
  q.cb = p.cb /\ q.sensCb = p.sensCb /\ q.sensMode = p.sensMode /\ q.labels = p.labels
SameSens(p, q) == q.sensBtn = p.sensBtn /\ q.sensScroll = p.sensScroll
-----------------------------------------------------------------------------
(* What single calls do to a page. *)

\* Another mouse takes the place of the page's.
LEMMA MouseSet ==
  ASSUME NEW p, PageOK(p), NEW c, MouseOK(c), NEW q, q = [p EXCEPT !.mouse = c]
  PROVE  /\ PageOK(q) /\ q.mouse = c /\ q.prev = p.prev /\ q.radio = p.radio
         /\ SameSpins(p, q) /\ SameChoice(p, q) /\ SameSens(p, q)
BY DEF PageOK, SameSpins, SameChoice, SameSens

\* Only the status of the mouse is set.
LEMMA StatusSet ==
  ASSUME NEW p, PageOK(p), NEW s \in 0..4, NEW q, q = [p EXCEPT !.mouse = SetStatus(@, s)]
  PROVE  /\ PageOK(q) /\ q.mouse.status = s /\ q.prev = p.prev /\ q.radio = p.radio
         /\ SameMouse(p, q) /\ SameSpins(p, q) /\ SameChoice(p, q) /\ SameSens(p, q)
<1> DEFINE c == SetStatus(p.mouse, s)
<1>1. c = [p.mouse EXCEPT !.status = s]
  BY DEF SetStatus, REVOCO_DISABLED, REVOCO_INVALID_MODE
<1>2. /\ MouseOK(c) /\ c.status = s /\ c.ids = p.mouse.ids /\ c.btn = p.mouse.btn
      /\ c.up = p.mouse.up /\ c.down = p.mouse.down
  BY <1>1 DEF PageOK, MouseOK
<1> HIDE DEF c
<1>3. q = [p EXCEPT !.mouse = c]
  BY DEF c
<1>4. /\ PageOK(q) /\ q.mouse = c /\ q.prev = p.prev /\ q.radio = p.radio
      /\ SameSpins(p, q) /\ SameChoice(p, q) /\ SameSens(p, q)
  BY <1>2, <1>3, MouseSet
<1> QED
  BY <1>2, <1>4 DEF SameMouse

LEMMA ModeIs ==
  ASSUME NEW p, PageOK(p), NEW s \in Modes
  PROVE  LET q == ModeFields(p, s)
         IN  /\ PageOK(q) /\ q.mouse = p.mouse /\ q.prev = p.prev /\ q.radio = p.radio
             /\ SameSpins(p, q) /\ SameChoice(p, q)
             /\ q.sensBtn = (s = REVOCO_MANUAL_MODE) /\ q.sensScroll = (s = REVOCO_AUTO_MODE)
BY DEF PageOK, ModeFields, SameSpins, SameChoice

LEMMA SelectedIs ==
  ASSUME NEW p, PageOK(p), NEW s \in Modes
  PROVE  LET q == ModeSelected(p, s)
         IN  /\ PageOK(q) /\ q.mouse.status = s /\ q.prev = s /\ q.radio = p.radio
             /\ SameMouse(p, q) /\ SameSpins(p, q) /\ SameChoice(p, q)
             /\ q.sensBtn = (s = REVOCO_MANUAL_MODE) /\ q.sensScroll = (s = REVOCO_AUTO_MODE)
<1> DEFINE a == [p EXCEPT !.mouse = SetStatus(@, s)]
           b == [p EXCEPT !.prev = s, !.mouse = SetStatus(@, s)]
<1>1. s \in 0..4
  BY DEF Modes, REVOCO_FREE_MODE, REVOCO_AUTO_MODE
<1>2. /\ PageOK(a) /\ a.mouse.status = s /\ a.radio = p.radio
      /\ SameMouse(p, a) /\ SameSpins(p, a) /\ SameChoice(p, a) /\ SameSens(p, a)
  BY <1>1, StatusSet
<1>3. b = [a EXCEPT !.prev = s]
  BY DEF PageOK
<1> HIDE DEF a, b
<1>4. /\ PageOK(b) /\ b.mouse = a.mouse /\ b.prev = s /\ b.radio = a.radio
      /\ SameSpins(a, b) /\ SameChoice(a, b)
  BY <1>1, <1>2, <1>3 DEF PageOK, SameSpins, SameChoice
<1>5. ModeSelected(p, s) = ModeFields(b, s)
  BY DEF ModeSelected, b
<1>6. LET q == ModeFields(b, s)
      IN  /\ PageOK(q) /\ q.mouse = b.mouse /\ q.prev = b.prev /\ q.radio = b.radio
          /\ SameSpins(b, q) /\ SameChoice(b, q)
          /\ q.sensBtn = (s = REVOCO_MANUAL_MODE) /\ q.sensScroll = (s = REVOCO_AUTO_MODE)
  BY <1>4, ModeIs
<1> QED
  BY <1>2, <1>4, <1>5, <1>6 DEF SameMouse, SameSpins, SameChoice

\* Both callbacks run, and the one that comes on has the last word.
LEMMA RadioIs ==
  ASSUME NEW p, PageOK(p), NEW s \in Modes
  PROVE  LET q == Radio(p, s)
         IN  /\ PageOK(q) /\ q.radio = s
             /\ SameMouse(p, q) /\ SameSpins(p, q) /\ SameChoice(p, q)
             /\ p.radio = s => q = p
             /\ p.radio # s => /\ q.mouse.status = s /\ q.prev = s
                               /\ q.sensBtn = (s = REVOCO_MANUAL_MODE)
                               /\ q.sensScroll = (s = REVOCO_AUTO_MODE)
<1>1. CASE p.radio = s
  BY <1>1 DEF Radio, SameMouse, SameSpins, SameChoice
<1>2. CASE p.radio # s
  <2> DEFINE a == [p EXCEPT !.radio = s]
             b == ModeSelected(a, p.radio)
             c == ModeSelected(b, s)
  <2>1. /\ PageOK(a) /\ a.radio = s /\ a.mouse = p.mouse /\ SameSpins(p, a) /\ SameChoice(p, a)
        /\ p.radio \in Modes
    BY DEF PageOK, SameSpins, SameChoice
  <2> HIDE DEF a
  <2>2. PageOK(b) /\ b.radio = a.radio /\ SameMouse(a, b) /\ SameSpins(a, b) /\ SameChoice(a, b)
    BY <2>1, SelectedIs
  <2> HIDE DEF b
  <2>3. /\ PageOK(c) /\ c.radio = b.radio /\ SameMouse(b, c) /\ SameSpins(b, c) /\ SameChoice(b, c)
        /\ c.mouse.status = s /\ c.prev = s
        /\ c.sensBtn = (s = REVOCO_MANUAL_MODE) /\ c.sensScroll = (s = REVOCO_AUTO_MODE)
    BY <2>2, SelectedIs
  <2> HIDE DEF c
  <2>4. Radio(p, s) = c
    BY <1>2 DEF Radio, a, b, c
  <2> QED
    BY <1>2, <2>1, <2>2, <2>3, <2>4 DEF SameMouse, SameSpins, SameChoice
<1> QED
  BY <1>1, <1>2

\* A button there is not is skipped.
LEMMA BtnIs ==
  ASSUME NEW p, PageOK(p), NEW v \in 3..13
  PROVE  LET q == Btn(p, v)
         IN  /\ PageOK(q) /\ q.spin = q.mouse.btn /\ (v \in Buttons => q.mouse.btn = v)
             /\ q.mouse.status = p.mouse.status /\ q.mouse.ids = p.mouse.ids
             /\ q.mouse.up = p.mouse.up /\ q.mouse.down = p.mouse.down
             /\ q.up = p.up /\ q.down = p.down /\ q.prev = p.prev /\ q.radio = p.radio
             /\ SameChoice(p, q) /\ SameSens(p, q)
<1> DEFINE b == Skipped(p, v)
           c == SetBtn(p.mouse, b)
<1>1. b \in Buttons /\ (v \in Buttons => b = v)
  BY DEF Skipped, Buttons
<1> HIDE DEF b
<1>2. c = [p.mouse EXCEPT !.btn = b]
  BY <1>1 DEF SetBtn, Buttons
<1>3. /\ MouseOK(c) /\ c.btn = b /\ c.status = p.mouse.status /\ c.ids = p.mouse.ids
      /\ c.up = p.mouse.up /\ c.down = p.mouse.down
  BY <1>1, <1>2 DEF PageOK, MouseOK
<1> HIDE DEF c
<1>4. Btn(p, v) = [p EXCEPT !.spin = b, !.mouse = c, !.prevBtn = b]
  BY DEF Btn, b, c
<1> QED
  BY <1>1, <1>3, <1>4 DEF PageOK, SameChoice, SameSens

LEMMA UpIs ==
  ASSUME NEW p, PageOK(p), NEW v \in 1..50
  PROVE  LET q == Up(p, v)
         IN  /\ PageOK(q) /\ q.up = v /\ q.mouse.up = v
             /\ q.down = p.down /\ q.mouse.down = p.mouse.down
             /\ q.mouse.status = p.mouse.status /\ q.mouse.ids = p.mouse.ids
             /\ q.mouse.btn = p.mouse.btn /\ q.spin = p.spin /\ q.prev = p.prev
             /\ q.radio = p.radio /\ SameChoice(p, q) /\ SameSens(p, q)
<1> DEFINE c == SetUp(p.mouse, v)
<1>1. c = [p.mouse EXCEPT !.up = v]
  BY DEF SetUp
<1>2. /\ MouseOK(c) /\ c.up = v /\ c.down = p.mouse.down
      /\ c.status = p.mouse.status /\ c.ids = p.mouse.ids /\ c.btn = p.mouse.btn
  BY <1>1 DEF PageOK, MouseOK
<1> HIDE DEF c
<1>3. Up(p, v) = [p EXCEPT !.up = v, !.mouse = c]
  BY DEF Up, c
<1> QED
  BY <1>2, <1>3 DEF PageOK, SameChoice, SameSens

LEMMA DownIs ==
  ASSUME NEW p, PageOK(p), NEW v \in 1..50
  PROVE  LET q == Down(p, v)
         IN  /\ PageOK(q) /\ q.down = v /\ q.mouse.down = v
             /\ q.up = p.up /\ q.mouse.up = p.mouse.up
             /\ q.mouse.status = p.mouse.status /\ q.mouse.ids = p.mouse.ids
             /\ q.mouse.btn = p.mouse.btn /\ q.spin = p.spin /\ q.prev = p.prev
             /\ q.radio = p.radio /\ SameChoice(p, q) /\ SameSens(p, q)
<1> DEFINE c == SetDown(p.mouse, v)
<1>1. c = [p.mouse EXCEPT !.down = v]
  BY DEF SetDown
<1>2. /\ MouseOK(c) /\ c.down = v /\ c.up = p.mouse.up
      /\ c.status = p.mouse.status /\ c.ids = p.mouse.ids /\ c.btn = p.mouse.btn
  BY <1>1 DEF PageOK, MouseOK
<1> HIDE DEF c
<1>3. Down(p, v) = [p EXCEPT !.down = v, !.mouse = c]
  BY DEF Down, c
<1> QED
  BY <1>2, <1>3 DEF PageOK, SameChoice, SameSens

\* The spin buttons show the mouse, and their callbacks do not change it.
LEMMA SpinsAre ==
  ASSUME NEW p, PageOK(p)
  PROVE  LET q == SpinsShown(p)
         IN  /\ PageOK(q) /\ q.mouse.status = p.mouse.status /\ SameMouse(p, q)
             /\ q.spin = q.mouse.btn /\ q.up = q.mouse.up /\ q.down = q.mouse.down
             /\ q.prev = p.prev /\ q.radio = p.radio /\ SameChoice(p, q) /\ SameSens(p, q)
<1> DEFINE a == IF p.spin = p.mouse.btn THEN p ELSE Btn(p, p.mouse.btn)
           b == IF a.up = a.mouse.up THEN a ELSE Up(a, a.mouse.up)
           c == IF b.down = b.mouse.down THEN b ELSE Down(b, b.mouse.down)
<1>1. ASSUME NEW z, PageOK(z)
      PROVE  /\ z.mouse.btn \in Buttons /\ z.mouse.btn \in 3..13
             /\ z.mouse.up \in 1..50 /\ z.mouse.down \in 1..50
  BY <1>1 DEF PageOK, MouseOK, Buttons
<1>2. /\ PageOK(a) /\ a.spin = a.mouse.btn /\ SameMouse(p, a) /\ a.mouse.status = p.mouse.status
      /\ a.prev = p.prev /\ a.radio = p.radio /\ SameChoice(p, a) /\ SameSens(p, a)
  <2>1. CASE p.spin = p.mouse.btn
    BY <2>1 DEF SameMouse, SameChoice, SameSens
  <2>2. CASE p.spin # p.mouse.btn
    BY <1>1, <2>2, BtnIs DEF SameMouse
  <2> QED
    BY <2>1, <2>2
<1> HIDE DEF a, b
<1>3. /\ PageOK(b) /\ b.up = b.mouse.up /\ b.spin = a.spin /\ SameMouse(a, b)
      /\ b.mouse.status = a.mouse.status
      /\ b.prev = a.prev /\ b.radio = a.radio /\ SameChoice(a, b) /\ SameSens(a, b)
  <2>1. CASE a.up = a.mouse.up
    BY <1>2, <2>1 DEF SameMouse, SameChoice, SameSens, b
  <2>2. CASE a.up # a.mouse.up
    <3>1. b = Up(a, a.mouse.up) /\ PageOK(a) /\ a.mouse.up \in 1..50
      BY <1>1, <1>2, <2>2 DEF b
    <3> QED
      <4>1. LET q == Up(a, a.mouse.up)
            IN  /\ PageOK(q) /\ q.up = a.mouse.up /\ q.mouse.up = a.mouse.up
                /\ q.down = a.down /\ q.mouse.down = a.mouse.down
                /\ q.mouse.status = a.mouse.status /\ q.mouse.ids = a.mouse.ids
                /\ q.mouse.btn = a.mouse.btn /\ q.spin = a.spin /\ q.prev = a.prev
                /\ q.radio = a.radio /\ SameChoice(a, q) /\ SameSens(a, q)
        BY <3>1, UpIs
      <4> QED
        BY <3>1, <4>1 DEF SameMouse
  <2> QED
    BY <2>1, <2>2
<1> HIDE DEF c
<1>4. /\ PageOK(c) /\ c.down = c.mouse.down /\ c.up = b.up /\ c.spin = b.spin /\ SameMouse(b, c)
      /\ c.mouse.status = b.mouse.status
      /\ c.prev = b.prev /\ c.radio = b.radio /\ SameChoice(b, c) /\ SameSens(b, c)
  <2>1. CASE b.down = b.mouse.down
    BY <1>3, <2>1 DEF SameMouse, SameChoice, SameSens, c
  <2>2. CASE b.down # b.mouse.down
    <3>1. c = Down(b, b.mouse.down) /\ PageOK(b) /\ b.mouse.down \in 1..50
      BY <1>1, <1>3, <2>2 DEF c
    <3> QED
      <4>1. LET q == Down(b, b.mouse.down)
            IN  /\ PageOK(q) /\ q.down = b.mouse.down /\ q.mouse.down = b.mouse.down
                /\ q.up = b.up /\ q.mouse.up = b.mouse.up
                /\ q.mouse.status = b.mouse.status /\ q.mouse.ids = b.mouse.ids
                /\ q.mouse.btn = b.mouse.btn /\ q.spin = b.spin /\ q.prev = b.prev
                /\ q.radio = b.radio /\ SameChoice(b, q) /\ SameSens(b, q)
        BY <3>1, DownIs
      <4> QED
        BY <3>1, <4>1 DEF SameMouse
  <2> QED
    BY <2>1, <2>2
<1>5. SpinsShown(p) = c
  BY DEF SpinsShown, a, b, c
<1> QED
  BY <1>2, <1>3, <1>4, <1>5 DEF SameMouse, SameChoice, SameSens
-----------------------------------------------------------------------------
(* The refresh. *)

\* The mode that enabling brings back is the mouse's, or none.
OwnMode(p) == p.mouse.status # REVOCO_DISABLED => p.prev \in {REVOCO_DISABLED, p.mouse.status}

\* The fields show the mouse.
Shown(p) ==
  LET s == p.mouse.status
  IN  /\ p.cb = (s # REVOCO_DISABLED) /\ p.sensMode = p.cb
      /\ p.cb => p.radio = s /\ p.sensCb
      /\ p.sensBtn = (s = REVOCO_MANUAL_MODE) /\ p.sensScroll = (s = REVOCO_AUTO_MODE)
      /\ p.sensCb => p.spin = p.mouse.btn /\ p.up = p.mouse.up /\ p.down = p.mouse.down

\* The page q is what a refresh is to make of p.
Settled(p, q) ==
  /\ PageOK(q) /\ Shown(q) /\ OwnMode(q)
  /\ SameMouse(p, q) /\ q.labels = p.labels
  /\ q.mouse.status = IF Detected(p) THEN p.mouse.status ELSE REVOCO_DISABLED
  /\ q.mouse.status = REVOCO_DISABLED => q.prev = p.prev
  /\ q.sensCb = Detected(p)

LEMMA ModesAre == Modes = (0..4) \ {REVOCO_DISABLED} /\ REVOCO_DISABLED \in 0..4
BY DEF Modes, REVOCO_DISABLED, REVOCO_FREE_MODE, REVOCO_AUTO_MODE

LEMMA BegunIs ==
  ASSUME NEW p, PageOK(p)
  PROVE  LET q == Begun(p)
         IN  /\ PageOK(q) /\ q.mouse = p.mouse /\ q.prev = p.prev /\ q.radio = p.radio /\ q.cb = p.cb
             /\ q.labels = p.labels /\ q.sensCb = Detected(p) /\ q.sensMode = On(p)
             /\ q.sensBtn = On(p) /\ q.sensScroll = On(p)
<1>1. Detected(p) \in BOOLEAN /\ On(p) \in BOOLEAN
  BY DEF Detected, On
<1> QED
  BY <1>1 DEF PageOK, Begun, WidgetStatus

\* The second half of a refresh, once the check box is as it should be.
LEMMA EndedIs ==
  ASSUME NEW p, PageOK(p), NEW q, PageOK(q), OwnMode(q), SameMouse(p, q), q.labels = p.labels,
         q.cb = On(p), q.sensCb = Detected(p), q.sensMode = On(p),
         ~On(p) => q.sensBtn = FALSE /\ q.sensScroll = FALSE,
         Detected(p) => q.mouse.status = p.mouse.status,
         ~On(p) => q.prev = p.prev
  PROVE  Settled(p, Ended(p, q))
<1> DEFINE e == Ended(p, q)
           s == q.mouse.status
<1>1. CASE ~Detected(p)
  <2>1. e = [q EXCEPT !.mouse = SetStatus(@, REVOCO_DISABLED)]
    BY <1>1 DEF Ended
  <2>2. /\ PageOK(e) /\ e.mouse.status = REVOCO_DISABLED /\ e.prev = q.prev /\ e.radio = q.radio
        /\ SameMouse(q, e) /\ SameSpins(q, e) /\ SameChoice(q, e) /\ SameSens(q, e)
    BY <2>1, ModesAre, StatusSet
  <2> HIDE DEF e
  <2>3. ~On(p)
    BY <1>1 DEF On
  <2>4. /\ e.cb = On(p) /\ e.sensMode = On(p) /\ e.sensCb = Detected(p)
        /\ e.sensBtn = FALSE /\ e.sensScroll = FALSE /\ e.labels = p.labels /\ e.prev = p.prev
    BY <2>2, <2>3 DEF SameChoice, SameSens
  <2>7. On(p) = FALSE /\ Detected(p) = FALSE
    BY <1>1, <2>3 DEF On, Detected
  <2>5. Shown(e)
    <3>1. /\ (e.mouse.status # REVOCO_DISABLED) = FALSE
          /\ (e.mouse.status = REVOCO_MANUAL_MODE) = FALSE /\ (e.mouse.status = REVOCO_AUTO_MODE) = FALSE
      BY <2>2 DEF REVOCO_DISABLED, REVOCO_MANUAL_MODE, REVOCO_AUTO_MODE
    <3> QED
      BY <2>4, <2>7, <3>1 DEF Shown
  <2>6. OwnMode(e) /\ SameMouse(p, e)
    BY <2>2 DEF OwnMode, SameMouse
  <2> QED
    BY <1>1, <2>2, <2>4, <2>5, <2>6 DEF Settled, e
<1>2. CASE Detected(p)
  <2> DEFINE r == Radio(q, s)
             f == ModeFields(r, s)
             g == IF s \in Modes THEN f ELSE q
             h == SpinsShown(g)
  <2>1. e = h
    BY <1>2 DEF Ended
  <2>2. s \in 0..4 /\ s = p.mouse.status /\ (On(p) <=> s \in Modes)
    BY <1>2, ModesAre DEF PageOK, MouseOK, On
  <2>3. /\ PageOK(g) /\ g.mouse.status = s /\ SameMouse(q, g) /\ SameChoice(q, g)
        /\ s \in Modes => g.radio = s /\ g.prev \in {q.prev, s}
        /\ s \notin Modes => g.prev = q.prev
        /\ g.sensBtn = (s = REVOCO_MANUAL_MODE) /\ g.sensScroll = (s = REVOCO_AUTO_MODE)
    <3>1. CASE s \in Modes
      <4>1. /\ PageOK(r) /\ r.radio = s /\ r.mouse.status = s /\ r.prev \in {q.prev, s}
            /\ SameMouse(q, r) /\ SameChoice(q, r)
        BY <3>1, RadioIs
      <4> HIDE DEF r
      <4>2. /\ PageOK(f) /\ f.mouse = r.mouse /\ f.prev = r.prev /\ f.radio = r.radio
            /\ SameChoice(r, f)
            /\ f.sensBtn = (s = REVOCO_MANUAL_MODE) /\ f.sensScroll = (s = REVOCO_AUTO_MODE)
        BY <3>1, <4>1, ModeIs
      <4> HIDE DEF f
      <4> QED
        BY <3>1, <4>1, <4>2 DEF SameMouse, SameChoice
    <3>2. CASE s \notin Modes
      <4>1. ~On(p) /\ s = REVOCO_DISABLED
        BY <2>2, <3>2, ModesAre
      <4>2. q.sensBtn = FALSE /\ q.sensScroll = FALSE /\ s # REVOCO_MANUAL_MODE /\ s # REVOCO_AUTO_MODE
        BY <4>1 DEF REVOCO_DISABLED, REVOCO_MANUAL_MODE, REVOCO_AUTO_MODE
      <4> QED
        BY <3>2, <4>2 DEF SameMouse, SameChoice
    <3> QED
      BY <3>1, <3>2
  <2> HIDE DEF g
  <2>4. /\ PageOK(h) /\ h.mouse.status = g.mouse.status /\ SameMouse(g, h)
        /\ h.spin = h.mouse.btn /\ h.up = h.mouse.up /\ h.down = h.mouse.down
        /\ h.prev = g.prev /\ h.radio = g.radio /\ SameChoice(g, h) /\ SameSens(g, h)
    BY <2>3, SpinsAre
  <2> HIDE DEF h, s
  <2>5. /\ h.mouse.status = s /\ h.cb = On(p) /\ h.sensCb = Detected(p) /\ h.sensMode = On(p)
        /\ h.labels = p.labels /\ SameMouse(p, h)
        /\ h.sensBtn = (s = REVOCO_MANUAL_MODE) /\ h.sensScroll = (s = REVOCO_AUTO_MODE)
    BY <2>3, <2>4 DEF SameChoice, SameMouse, SameSens
  <2>6. On(p) = (s # REVOCO_DISABLED) /\ Detected(p) = TRUE
    BY <1>2, <2>2, ModesAre DEF On, Detected
  <2>7. Shown(h)
    BY <1>2, <2>2, <2>3, <2>4, <2>5, <2>6 DEF Shown
  <2>8. OwnMode(h)
    BY <2>2, <2>3, <2>4, <2>5, <2>6 DEF OwnMode, s
  <2>9. s = REVOCO_DISABLED => h.prev = p.prev
    BY <2>2, <2>3, <2>4, <2>6
  <2> QED
    BY <1>2, <2>1, <2>2, <2>4, <2>5, <2>7, <2>8, <2>9 DEF Settled
<1> QED
  BY <1>1, <1>2

\* The check box that changes sets the mode.
LEMMA TurnedIs ==
  ASSUME NEW p, PageOK(p), NEW on \in BOOLEAN
  PROVE  LET q == Turned(p, on)
         IN  /\ PageOK(q) /\ q.cb = on /\ SameMouse(p, q) /\ q.labels = p.labels
             /\ q.sensCb = p.sensCb
             /\ ~on => q.mouse.status = REVOCO_DISABLED /\ q.prev = p.prev
             /\ on => q.mouse.status # REVOCO_DISABLED
             /\ on /\ p.mouse.status # REVOCO_DISABLED /\ OwnMode(p)
                  => q.mouse.status = p.mouse.status /\ q.prev = p.prev
             /\ OwnMode(p) => OwnMode(q)
<1> DEFINE a == [p EXCEPT !.cb = on]
           b == Enabled(a, on)
           st == p.mouse.status
<1>1. /\ PageOK(a) /\ a.cb = on /\ a.mouse = p.mouse /\ a.prev = p.prev /\ a.labels = p.labels
      /\ a.sensCb = p.sensCb /\ a.prev \in 0..4 /\ a.radio \in Modes
  BY DEF PageOK
<1> HIDE DEF a
<1>2. Turned(p, on) = b
  BY DEF Turned, a
<1>3. CASE ~on
  <2>1. b = [a EXCEPT !.mouse = SetStatus(@, REVOCO_DISABLED)]
    BY <1>3 DEF Enabled
  <2> HIDE DEF b
  <2>2. /\ PageOK(b) /\ b.mouse.status = REVOCO_DISABLED /\ b.prev = a.prev
        /\ SameMouse(a, b) /\ SameChoice(a, b)
    BY <1>1, <2>1, ModesAre, StatusSet
  <2> QED
    BY <1>1, <1>2, <1>3, <2>2 DEF SameMouse, SameChoice, OwnMode
<1>4. CASE on /\ a.prev # REVOCO_DISABLED
  <2>1. b = [a EXCEPT !.mouse = SetStatus(@, a.prev)]
    BY <1>4 DEF Enabled
  <2> HIDE DEF b
  <2>2. /\ PageOK(b) /\ b.mouse.status = a.prev /\ b.prev = a.prev
        /\ SameMouse(a, b) /\ SameChoice(a, b)
    BY <1>1, <2>1, StatusSet
  <2> QED
    BY <1>1, <1>2, <1>4, <2>2 DEF SameMouse, SameChoice, OwnMode
<1>5. CASE on /\ a.prev = REVOCO_DISABLED /\ st # REVOCO_DISABLED
  <2>1. b = a
    BY <1>1, <1>5 DEF Enabled
  <2> HIDE DEF b
  <2> QED
    BY <1>1, <1>2, <1>5, <2>1 DEF SameMouse, SameChoice, OwnMode
<1>6. CASE on /\ a.prev = REVOCO_DISABLED /\ st = REVOCO_DISABLED
  <2> DEFINE c == [a EXCEPT !.mouse = SetStatus(@, REVOCO_FREE_MODE)]
  <2>1. b = Radio(c, REVOCO_FREE_MODE)
    BY <1>1, <1>6 DEF Enabled
  <2>2. REVOCO_FREE_MODE \in Modes /\ REVOCO_FREE_MODE \in 0..4 /\ REVOCO_FREE_MODE # REVOCO_DISABLED
    BY DEF Modes, REVOCO_FREE_MODE, REVOCO_AUTO_MODE, REVOCO_DISABLED
  <2>3. /\ PageOK(c) /\ c.mouse.status = REVOCO_FREE_MODE /\ c.prev = a.prev
        /\ SameMouse(a, c) /\ SameChoice(a, c)
    BY <1>1, <2>2, StatusSet
  <2> HIDE DEF b, c
  <2>4. /\ PageOK(b) /\ b.mouse.status = REVOCO_FREE_MODE /\ b.prev \in {REVOCO_DISABLED, REVOCO_FREE_MODE}
        /\ SameMouse(c, b) /\ SameChoice(c, b)
    BY <1>6, <2>1, <2>2, <2>3, RadioIs
  <2> QED
    BY <1>1, <1>2, <1>6, <2>2, <2>3, <2>4 DEF SameMouse, SameChoice, OwnMode
<1> QED
  BY <1>3, <1>4, <1>5, <1>6
-----------------------------------------------------------------------------
(* The check box and the refresh by one another. *)

LEMMA Booleans ==
  ASSUME NEW p, PageOK(p)
  PROVE  /\ p.cb \in BOOLEAN /\ On(p) \in BOOLEAN /\ Detected(p) \in BOOLEAN
         /\ On(p) = (Detected(p) /\ p.mouse.status # REVOCO_DISABLED)
BY DEF PageOK, On, Detected

\* A page that is settled with no mode has the check box off.
LEMMA SettledIs ==
  ASSUME NEW p, NEW q, Settled(p, q)
  PROVE  /\ q.cb = (q.mouse.status # REVOCO_DISABLED) /\ q.sensMode = q.cb
         /\ q.mouse.status = REVOCO_DISABLED => q.sensBtn = FALSE /\ q.sensScroll = FALSE
<1>1. Shown(q)
  BY DEF Settled
<1>2. q.mouse.status = REVOCO_DISABLED =>
        /\ (q.mouse.status = REVOCO_MANUAL_MODE) = FALSE
        /\ (q.mouse.status = REVOCO_AUTO_MODE) = FALSE
  BY DEF REVOCO_DISABLED, REVOCO_MANUAL_MODE, REVOCO_AUTO_MODE
<1> QED
  BY <1>1, <1>2 DEF Shown

\* The check box changes in a refresh of p; the refresh inside settles it.
LEMMA NestedIs ==
  ASSUME NEW p, PageOK(p), OwnMode(p), p.cb # On(p),
         NEW q, Settled(Turned(Begun(p), On(p)), q)
  PROVE  Settled(p, Ended(p, q))
<1> DEFINE b == Begun(p)
           t == Turned(b, On(p))
<1>1. /\ PageOK(b) /\ b.mouse = p.mouse /\ b.prev = p.prev /\ b.labels = p.labels
      /\ b.sensCb = Detected(p)
  BY BegunIs
<1>2. On(p) \in BOOLEAN /\ On(p) = (Detected(p) /\ p.mouse.status # REVOCO_DISABLED)
  BY Booleans
<1> HIDE DEF b
<1>3. OwnMode(b)
  BY <1>1 DEF OwnMode
<1>4. /\ PageOK(t) /\ SameMouse(b, t) /\ t.labels = b.labels
      /\ ~On(p) => t.mouse.status = REVOCO_DISABLED /\ t.prev = b.prev
      /\ On(p) => t.mouse.status = p.mouse.status /\ t.prev = b.prev
  <2>1. /\ PageOK(t) /\ t.cb = On(p) /\ SameMouse(b, t) /\ t.labels = b.labels
        /\ ~On(p) => t.mouse.status = REVOCO_DISABLED /\ t.prev = b.prev
        /\ On(p) /\ b.mouse.status # REVOCO_DISABLED /\ OwnMode(b)
             => t.mouse.status = b.mouse.status /\ t.prev = b.prev
    BY <1>1, <1>2, TurnedIs
  <2> HIDE DEF t
  <2>2. On(p) => b.mouse.status # REVOCO_DISABLED
    BY <1>1, <1>2
  <2> QED
    BY <1>1, <1>3, <2>1, <2>2
<1> HIDE DEF t
<1>5. Settled(t, q)
  BY DEF t, b
<1>6. Detected(t) = Detected(p)
  BY <1>1, <1>4 DEF SameMouse, Detected
<1>7. /\ PageOK(q) /\ OwnMode(q) /\ SameMouse(t, q) /\ q.labels = t.labels
      /\ q.mouse.status = IF Detected(p) THEN t.mouse.status ELSE REVOCO_DISABLED
      /\ q.mouse.status = REVOCO_DISABLED => q.prev = t.prev
      /\ q.sensCb = Detected(p)
  BY <1>5, <1>6 DEF Settled
<1>8. /\ q.cb = (q.mouse.status # REVOCO_DISABLED) /\ q.sensMode = q.cb
      /\ q.mouse.status = REVOCO_DISABLED => q.sensBtn = FALSE /\ q.sensScroll = FALSE
  BY <1>5, SettledIs
<1>9. (q.mouse.status # REVOCO_DISABLED) = On(p)
  BY <1>2, <1>4, <1>7
<1>10. SameMouse(p, q) /\ q.labels = p.labels
  BY <1>1, <1>4, <1>7 DEF SameMouse
<1>11. q.cb = On(p) /\ q.sensMode = On(p)
  BY <1>8, <1>9
<1>12. ~On(p) => q.sensBtn = FALSE /\ q.sensScroll = FALSE /\ q.prev = p.prev
  BY <1>1, <1>4, <1>7, <1>8, <1>9
<1>13. Detected(p) => q.mouse.status = p.mouse.status
  BY <1>2, <1>4, <1>7
<1> QED
  BY <1>7, <1>10, <1>11, <1>12, <1>13, EndedIs

LEMMA ThirdIs ==
  ASSUME NEW p, PageOK(p), OwnMode(p), p.cb = On(p)
  PROVE  Settled(p, Ended(p, Begun(p)))
<1> DEFINE b == Begun(p)
<1>1. /\ PageOK(b) /\ b.mouse = p.mouse /\ b.prev = p.prev /\ b.cb = p.cb
      /\ b.labels = p.labels /\ b.sensCb = Detected(p) /\ b.sensMode = On(p)
      /\ b.sensBtn = On(p) /\ b.sensScroll = On(p) /\ On(p) \in BOOLEAN
  BY BegunIs, Booleans
<1> HIDE DEF b
<1>2. OwnMode(b) /\ SameMouse(p, b)
  BY <1>1 DEF OwnMode, SameMouse
<1>3. Settled(p, Ended(p, b))
  BY <1>1, <1>2, EndedIs
<1> QED
  BY <1>3 DEF b

LEMMA InsideIs ==
  ASSUME NEW p, PageOK(p), OwnMode(p), p.cb = On(p) \/ ~Detected(p)
  PROVE  Settled(p, RefreshInside(p))
<1> DEFINE b == Begun(p)
           t == Turned(b, On(p))
<1>1. PageOK(b) /\ b.mouse = p.mouse /\ b.cb = p.cb /\ b.prev = p.prev
  BY BegunIs
<1>2. RefreshInside(p) = IF p.cb = On(p) THEN Ended(p, b) ELSE Ended(p, RefreshThird(t))
  BY <1>1 DEF RefreshInside, CheckInside
<1>3. CASE p.cb = On(p)
  BY <1>2, <1>3, ThirdIs
<1>4. CASE p.cb # On(p)
  <2>1. On(p) = FALSE /\ ~Detected(p)
    BY <1>4, Booleans DEF On
  <2> HIDE DEF b
  <2>2. OwnMode(b)
    BY <1>1 DEF OwnMode
  <2>3. /\ PageOK(t) /\ OwnMode(t) /\ SameMouse(b, t) /\ t.cb = On(p)
    BY <1>1, <2>1, <2>2, TurnedIs
  <2> HIDE DEF t
  <2>4. Detected(t) = FALSE /\ t.cb = On(t)
    BY <1>1, <2>1, <2>3 DEF SameMouse, Detected, On
  <2>5. Settled(t, RefreshThird(t))
    BY <2>3, <2>4, ThirdIs DEF RefreshThird
  <2>6. Settled(p, Ended(p, RefreshThird(t)))
    BY <1>4, <2>5, NestedIs DEF t, b
  <2> QED
    BY <1>2, <1>4, <2>6
<1> QED
  BY <1>3, <1>4

\* revoco_refresh_properties, whatever the page shows before.
LEMMA RefreshIs ==
  ASSUME NEW p, PageOK(p), OwnMode(p)
  PROVE  Settled(p, Refresh(p))
<1> DEFINE b == Begun(p)
           t == Turned(b, On(p))
<1>1. PageOK(b) /\ b.mouse = p.mouse /\ b.cb = p.cb /\ b.prev = p.prev
  BY BegunIs
<1>2. Refresh(p) = IF p.cb = On(p) THEN Ended(p, b) ELSE Ended(p, RefreshInside(t))
  BY <1>1 DEF Refresh, Check
<1>3. CASE p.cb = On(p)
  BY <1>2, <1>3, ThirdIs
<1>4. CASE p.cb # On(p)
  <2>1. On(p) \in BOOLEAN /\ On(p) = (Detected(p) /\ p.mouse.status # REVOCO_DISABLED)
    BY Booleans
  <2> HIDE DEF b
  <2>2. OwnMode(b)
    BY <1>1 DEF OwnMode
  <2>3. /\ PageOK(t) /\ OwnMode(t) /\ SameMouse(b, t) /\ t.cb = On(p)
        /\ ~On(p) => t.mouse.status = REVOCO_DISABLED
        /\ On(p) => t.mouse.status # REVOCO_DISABLED
    BY <1>1, <2>1, <2>2, TurnedIs
  <2> HIDE DEF t
  <2>4. Detected(t) = Detected(p)
    BY <1>1, <2>3 DEF SameMouse, Detected
  <2>5. t.cb = On(t)
    BY <2>1, <2>3, <2>4 DEF On
  <2>6. Settled(t, RefreshInside(t))
    BY <2>3, <2>5, InsideIs
  <2>7. Settled(p, Ended(p, RefreshInside(t)))
    BY <1>4, <2>6, NestedIs DEF t, b
  <2> QED
    BY <1>2, <1>4, <2>7
<1> QED
  BY <1>3, <1>4

\* A check box that is changed, by the user or by the program.
LEMMA CheckIs ==
  ASSUME NEW p, PageOK(p), OwnMode(p), NEW on \in BOOLEAN, p.cb # on
  PROVE  LET t == Turned(p, on)
         IN  /\ PageOK(t) /\ OwnMode(t) /\ t.cb = on /\ SameMouse(p, t) /\ t.labels = p.labels
             /\ ~on => t.mouse.status = REVOCO_DISABLED /\ t.prev = p.prev
             /\ Settled(t, Check(p, on))
<1> DEFINE t == Turned(p, on)
<1>1. /\ PageOK(t) /\ OwnMode(t) /\ t.cb = on /\ SameMouse(p, t) /\ t.labels = p.labels
      /\ ~on => t.mouse.status = REVOCO_DISABLED /\ t.prev = p.prev
      /\ on => t.mouse.status # REVOCO_DISABLED
  BY TurnedIs
<1>2. Check(p, on) = RefreshInside(t)
  BY DEF Check
<1> HIDE DEF t
<1>3. t.cb = On(t) \/ ~Detected(t)
  BY <1>1 DEF On, Detected
<1>4. Settled(t, RefreshInside(t))
  BY <1>1, <1>3, InsideIs
<1> QED
  BY <1>1, <1>2, <1>4 DEF t

\* revoco_refresh_properties sets the check box, and revoco_enabled_changed, which
\* that calls, refreshes again: on any page of the program, the calls the model
\* leaves out inside the third refresh would change nothing.
THEOREM CallsEnd ==
  ASSUME NEW p, PageOK(p), OwnMode(p), NEW on \in BOOLEAN
  PROVE  /\ Check(p, on) = IF p.cb = on THEN p ELSE Refresh(Turned(p, on))
         /\ Refresh(p) = Ended(p, Check(Begun(p), On(p)))
<1> DEFINE t == Turned(p, on)
           b == Begun(t)
           u == Turned(b, On(t))
           c == Begun(u)
<1>1. Refresh(p) = Ended(p, Check(Begun(p), On(p)))
  BY DEF Refresh
<1>2. CASE p.cb = on
  BY <1>1, <1>2 DEF Check
<1>3. CASE p.cb # on
  <2>1. PageOK(t) /\ (t.cb = On(t) \/ ~Detected(t)) /\ t.cb = on /\ Check(p, on) = RefreshInside(t)
    BY <1>3, TurnedIs DEF On, Detected, Check
  <2> HIDE DEF t
  <2>2. PageOK(b) /\ b.mouse = t.mouse /\ b.cb = t.cb
    BY <2>1, BegunIs
  <2>3. RefreshInside(t) = Ended(t, CheckInside(b, On(t))) /\ Refresh(t) = Ended(t, Check(b, On(t)))
    BY DEF RefreshInside, Refresh
  <2>4. CASE t.cb = On(t)
    BY <1>1, <1>3, <2>1, <2>2, <2>3, <2>4 DEF CheckInside, Check, t
  <2>5. CASE t.cb # On(t)
    <3>1. On(t) = FALSE /\ Detected(t) = FALSE
      BY <2>1, <2>5, Booleans DEF On
    <3>2. CheckInside(b, On(t)) = RefreshThird(u) /\ Check(b, On(t)) = RefreshInside(u)
      BY <2>2, <2>5 DEF CheckInside, Check
    <3> HIDE DEF b
    <3>3. PageOK(u) /\ u.cb = FALSE /\ SameMouse(b, u)
      BY <2>2, <3>1, TurnedIs
    <3> HIDE DEF u
    <3>4. On(u) = FALSE
      BY <2>2, <3>1, <3>3 DEF SameMouse, On, Detected
    <3>5. c.cb = u.cb
      BY <3>3, BegunIs
    <3>6. RefreshThird(u) = RefreshInside(u)
      BY <3>3, <3>4, <3>5 DEF RefreshThird, RefreshInside, CheckInside
    <3> QED
      BY <1>1, <1>3, <2>1, <2>3, <3>2, <3>6 DEF t
  <2> QED
    BY <2>4, <2>5
<1> QED
  BY <1>2, <1>3
-----------------------------------------------------------------------------
(* Opening, and the invariant. *)

\* The mouse block of a file is loaded into a page that remembers no mode.
LEMMA LoadedIs ==
  ASSUME NEW p, PageOK(p), NEW b, MouseOK(b)
  PROVE  LET q == Loaded(p, b)
         IN  /\ PageOK(q) /\ q.prev = p.prev
             /\ q.mouse.ids = b.ids /\ q.mouse.status = b.status
             /\ q.mouse.btn = b.btn /\ q.mouse.up = b.up /\ q.mouse.down = b.down
<1> DEFINE n == IF b.name = Null THEN p.mouse ELSE [p.mouse EXCEPT !.name = Value(b.name)]
           i == [n EXCEPT !.ids = b.ids]
           s == SetStatus(i, b.status)
           c == SetBtn(s, b.btn)
           u == SetUp(c, b.up)
           d == SetDown(u, b.down)
<1>1. b.ids \in Ids /\ b.status \in 0..4 /\ b.btn \in Buttons /\ b.up \in 1..50 /\ b.down \in 1..50
  BY DEF MouseOK
<1>2. Loaded(p, b) = [p EXCEPT !.mouse = d]
  BY DEF Loaded
<1>3. MouseOK(n)
  BY DEF PageOK, MouseOK
<1> HIDE DEF n
<1>4. MouseOK(i) /\ i.ids = b.ids
  BY <1>1, <1>3 DEF MouseOK
<1> HIDE DEF i
<1>5. MouseOK(s) /\ s.ids = b.ids /\ s.status = b.status
  BY <1>1, <1>4 DEF MouseOK, SetStatus, REVOCO_DISABLED, REVOCO_INVALID_MODE
<1> HIDE DEF s
<1>6. MouseOK(c) /\ c.ids = b.ids /\ c.status = b.status /\ c.btn = b.btn
  BY <1>1, <1>5 DEF MouseOK, SetBtn, Buttons
<1> HIDE DEF c
<1>7. MouseOK(u) /\ u.ids = b.ids /\ u.status = b.status /\ u.btn = b.btn /\ u.up = b.up
  BY <1>1, <1>6 DEF MouseOK, SetUp
<1> HIDE DEF u
<1>8. MouseOK(d) /\ d.ids = b.ids /\ d.status = b.status /\ d.btn = b.btn /\ d.up = b.up /\ d.down = b.down
  BY <1>1, <1>7 DEF MouseOK, SetDown
<1> HIDE DEF d
<1>9. LET q == [p EXCEPT !.mouse = d] IN PageOK(q) /\ q.mouse = d /\ q.prev = p.prev
  BY <1>8, MouseSet
<1> QED
  BY <1>2, <1>8, <1>9

\* The page with all it shows: whatever is refreshed shows the mouse's ids.
Fresh(p) ==
  /\ PageOK(p) /\ Shown(p) /\ OwnMode(p)
  /\ p.sensCb => p.labels \in Revolution

LEMMA AllIs ==
  ASSUME NEW p, PageOK(p), OwnMode(p)
  PROVE  LET q == RefreshAll(p)
         IN  /\ Fresh(q) /\ SameMouse(p, q)
             /\ q.mouse.status = IF Detected(p) THEN p.mouse.status ELSE REVOCO_DISABLED
             /\ q.mouse.status = REVOCO_DISABLED => q.prev = p.prev
<1> DEFINE a == [p EXCEPT !.labels = p.mouse.ids,
                          !.entry = IF p.mouse.name = Null THEN Empty ELSE p.mouse.name]
           q == Refresh(a)
<1>1. PageOK(a) /\ a.mouse = p.mouse /\ a.prev = p.prev /\ a.labels = p.mouse.ids
  BY DEF PageOK, MouseOK
<1>2. RefreshAll(p) = q
  BY DEF RefreshAll
<1> HIDE DEF a
<1>3. OwnMode(a) /\ Detected(a) = Detected(p)
  BY <1>1 DEF OwnMode, Detected
<1>4. Settled(a, q)
  BY <1>1, <1>3, RefreshIs
<1> HIDE DEF q
<1>5. /\ PageOK(q) /\ Shown(q) /\ OwnMode(q) /\ q.sensCb = Detected(p) /\ q.labels = p.mouse.ids
      /\ SameMouse(p, q)
      /\ q.mouse.status = IF Detected(p) THEN p.mouse.status ELSE REVOCO_DISABLED
      /\ q.mouse.status = REVOCO_DISABLED => q.prev = p.prev
  BY <1>1, <1>3, <1>4 DEF Settled, SameMouse
<1>6. Fresh(q)
  BY <1>5 DEF Fresh, Detected
<1> QED
  BY <1>2, <1>5, <1>6

LEMMA NoMouseIs == MouseOK(NoMouse) /\ NoMouse.status = REVOCO_DISABLED /\ NoMouse.ids \notin Revolution
BY ConstantsOK DEF MouseOK, NoMouse, REVOCO_DISABLED, Buttons

\* config_clear_all: no mouse, and no mode is remembered.
LEMMA ClearedIs ==
  ASSUME NEW p, PageOK(p)
  PROVE  LET q == Cleared(p)
         IN  Fresh(q) /\ q.prev = REVOCO_DISABLED /\ q.mouse.status = REVOCO_DISABLED
<1> DEFINE a == [p EXCEPT !.mouse = NoMouse]
           w == WidgetStatus([a EXCEPT !.sensCb = FALSE], FALSE)
           t == Turned(w, FALSE)
           f == Check(w, FALSE)
           i == [f EXCEPT !.prev = f.mouse.status]
           q == RefreshAll(i)
<1>1. PageOK(a) /\ a.mouse = NoMouse
  BY NoMouseIs, MouseSet
<1> HIDE DEF a
<1>2. PageOK(w) /\ w.mouse = NoMouse
  BY <1>1 DEF PageOK, WidgetStatus
<1>3. Cleared(p) = q
  BY DEF Cleared, RevocoInit, ForceDisable, a
<1> HIDE DEF w
<1>4. PageOK(f) /\ f.mouse.status = REVOCO_DISABLED
  <2>1. CASE w.cb = FALSE
    BY <1>2, <2>1, NoMouseIs DEF Check
  <2>2. CASE w.cb # FALSE
    <3>1. OwnMode(w)
      BY <1>2, NoMouseIs DEF OwnMode
    <3>2. t.mouse.status = REVOCO_DISABLED /\ Settled(t, f)
      BY <1>2, <2>2, <3>1, CheckIs
    <3> QED
      BY <3>2 DEF Settled
  <2> QED
    BY <2>1, <2>2
<1> HIDE DEF f
<1>5. PageOK(i) /\ i.mouse.status = REVOCO_DISABLED /\ i.prev = REVOCO_DISABLED
  BY <1>4, ModesAre DEF PageOK
<1> HIDE DEF i
<1>6. OwnMode(i)
  BY <1>5 DEF OwnMode
<1>7. /\ Fresh(q) /\ q.mouse.status = REVOCO_DISABLED
      /\ q.mouse.status = REVOCO_DISABLED => q.prev = i.prev
  BY <1>5, <1>6, AllIs
<1> QED
  BY <1>3, <1>5, <1>7

LEMMA OpenedIs ==
  ASSUME NEW p, PageOK(p), NEW b, MouseOK(b)
  PROVE  LET q == Opened(p, b)
         IN  /\ Fresh(q)
             /\ q.mouse.status = IF b.ids \in Revolution THEN b.status ELSE REVOCO_DISABLED
             /\ q.mouse.btn = b.btn /\ q.mouse.up = b.up /\ q.mouse.down = b.down
<1> DEFINE c == Cleared(p)
           l == Loaded(c, b)
           q == RefreshAll(l)
<1>1. Opened(p, b) = q
  BY DEF Opened
<1>2. PageOK(c) /\ c.prev = REVOCO_DISABLED
  BY ClearedIs DEF Fresh
<1> HIDE DEF c
<1>3. /\ PageOK(l) /\ l.prev = REVOCO_DISABLED /\ l.mouse.ids = b.ids /\ l.mouse.status = b.status
      /\ l.mouse.btn = b.btn /\ l.mouse.up = b.up /\ l.mouse.down = b.down
  BY <1>2, LoadedIs
<1> HIDE DEF l
<1>4. OwnMode(l) /\ Detected(l) = (b.ids \in Revolution)
  BY <1>3 DEF OwnMode, Detected
<1>5. /\ Fresh(q) /\ SameMouse(l, q)
      /\ q.mouse.status = IF Detected(l) THEN l.mouse.status ELSE REVOCO_DISABLED
  BY <1>3, <1>4, AllIs
<1> QED
  BY <1>1, <1>3, <1>4, <1>5 DEF SameMouse

FilesOK == files \in [Configs -> {files[c] : c \in Configs}] /\ \A c \in Configs : MouseOK(files[c])
Inv == Fresh(m) /\ FilesOK /\ open \in Configs

LEMMA FileSet ==
  ASSUME FilesOK, NEW c \in Configs, NEW b, MouseOK(b), files' = [files EXCEPT ![c] = b]
  PROVE  FilesOK' /\ \A d \in Configs : files'[d] = IF d = c THEN b ELSE files[d]
<1>1. \A d \in Configs : files'[d] = IF d = c THEN b ELSE files[d]
  BY DEF FilesOK
<1>2. files' \in [Configs -> {files'[d] : d \in Configs}]
  BY DEF FilesOK
<1> QED
  BY <1>1, <1>2 DEF FilesOK

LEMMA InvStart == Init => Inv
<1> SUFFICES ASSUME Init
             PROVE  Inv
  OBVIOUS
<1>1. FilesOK /\ open \in Configs
  <2>1. \A b \in Blocks : MouseOK(b)
    BY ConstantsOK DEF Mouse, MouseOK
  <2> QED
    BY <2>1 DEF Init, FilesOK
<1>2. PICK radio \in Modes :
       m = Opened([mouse |-> NoMouse, prev |-> REVOCO_DISABLED, prevBtn |-> 3, cb |-> FALSE,
                   radio |-> radio, spin |-> 3, up |-> 5, down |-> 5, sensCb |-> FALSE,
                   sensMode |-> FALSE, sensBtn |-> FALSE, sensScroll |-> FALSE,
                   labels |-> 0, entry |-> Empty], files[open])
  BY DEF Init
<1> DEFINE p == [mouse |-> NoMouse, prev |-> REVOCO_DISABLED, prevBtn |-> 3, cb |-> FALSE,
                   radio |-> radio, spin |-> 3, up |-> 5, down |-> 5, sensCb |-> FALSE,
                   sensMode |-> FALSE, sensBtn |-> FALSE, sensScroll |-> FALSE,
                   labels |-> 0, entry |-> Empty]
<1>3. PageOK(p)
  BY NoMouseIs, ModesAre, ConstantsOK DEF PageOK, Buttons
<1> HIDE DEF p
<1>4. MouseOK(files[open])
  BY <1>1 DEF FilesOK
<1>5. Fresh(Opened(p, files[open]))
  BY <1>3, <1>4, OpenedIs
<1> QED
  BY <1>1, <1>2, <1>5 DEF Inv, p

LEMMA InvStep ==
  ASSUME Inv, [Next]_vars
  PROVE  Inv'
<1> USE DEF Inv
<1>1. PageOK(m) /\ Shown(m) /\ OwnMode(m) /\ (m.sensCb => m.labels \in Revolution)
  BY DEF Fresh
<1>2. ASSUME Fresh(m'), UNCHANGED <<files, open>>
      PROVE  Inv'
  BY <1>2 DEF FilesOK
<1>3. CASE ClickEnable
  <2> DEFINE on == ~m.cb
             t == Turned(m, on)
  <2>1. m.sensCb /\ m' = Check(m, on) /\ UNCHANGED <<files, open>> /\ m.labels \in Revolution
    BY <1>1, <1>3 DEF ClickEnable
  <2>2. on \in BOOLEAN /\ m.cb # on
    BY <1>1, Booleans
  <2> HIDE DEF on
  <2>3. t.labels = m.labels /\ Settled(t, Check(m, on))
    BY <1>1, <2>2, CheckIs
  <2> HIDE DEF t
  <2>4. Fresh(m')
    BY <2>1, <2>3 DEF Settled, Fresh
  <2> QED
    BY <1>2, <2>1, <2>4
<1>4. ASSUME NEW mode \in Modes, ClickRadio(mode)
      PROVE  Inv'
  <2>1. m.sensMode /\ m' = Radio(m, mode) /\ UNCHANGED <<files, open>>
    BY <1>4 DEF ClickRadio
  <2>2. m.cb = TRUE /\ m.sensMode = TRUE /\ m.sensCb = TRUE /\ m.radio = m.mouse.status
    BY <1>1, <2>1, Booleans DEF Shown, PageOK
  <2>3. CASE m.radio = mode
    <3>1. m' = m
      BY <1>1, <2>1, <2>3, RadioIs
    <3> QED
      BY <1>2, <2>1, <3>1
  <2>4. CASE m.radio # mode
    <3>1. /\ PageOK(m') /\ m'.radio = mode
          /\ SameMouse(m, m') /\ SameSpins(m, m') /\ SameChoice(m, m')
          /\ m'.mouse.status = mode /\ m'.prev = mode
          /\ m'.sensBtn = (mode = REVOCO_MANUAL_MODE) /\ m'.sensScroll = (mode = REVOCO_AUTO_MODE)
      BY <1>1, <2>1, <2>4, RadioIs
    <3>2. (mode # REVOCO_DISABLED) = TRUE
      BY ModesAre
    <3>3. Shown(m')
      BY <1>1, <2>2, <3>1, <3>2 DEF Shown, SameChoice, SameSpins, SameMouse
    <3>4. OwnMode(m') /\ (m'.sensCb => m'.labels \in Revolution)
      BY <1>1, <3>1 DEF OwnMode, SameChoice
    <3> QED
      BY <1>2, <2>1, <3>1, <3>3, <3>4 DEF Fresh
  <2> QED
    BY <2>3, <2>4
<1>5. ASSUME NEW v \in 3..13, TurnBtn(v)
      PROVE  Inv'
  <2>1. m' = Btn(m, v) /\ UNCHANGED <<files, open>>
    BY <1>5 DEF TurnBtn
  <2>2. /\ PageOK(m') /\ m'.spin = m'.mouse.btn
        /\ m'.mouse.status = m.mouse.status
        /\ m'.mouse.up = m.mouse.up /\ m'.mouse.down = m.mouse.down
        /\ m'.up = m.up /\ m'.down = m.down /\ m'.prev = m.prev /\ m'.radio = m.radio
        /\ SameChoice(m, m') /\ SameSens(m, m')
    BY <1>1, <2>1, BtnIs
  <2>3. Fresh(m')
    BY <1>1, <2>2 DEF Fresh, Shown, OwnMode, SameChoice, SameSens
  <2> QED
    BY <1>2, <2>1, <2>3
<1>6. ASSUME NEW v \in 1..50, TurnScroll(v)
      PROVE  Inv'
  <2>1. UNCHANGED <<files, open>> /\ m.sensScroll
    BY <1>6 DEF TurnScroll
  <2>4. m.sensCb
    <3>1. m.sensScroll = TRUE
      BY <1>1, <2>1 DEF PageOK
    <3>2. m.mouse.status = REVOCO_AUTO_MODE
      BY <1>1, <3>1 DEF Shown
    <3>3. (m.mouse.status # REVOCO_DISABLED) = TRUE
      BY <3>2 DEF REVOCO_AUTO_MODE, REVOCO_DISABLED
    <3>4. m.cb = TRUE
      BY <1>1, <3>3 DEF Shown
    <3> QED
      BY <1>1, <3>4 DEF Shown
  <2>2. CASE m' = Up(m, v)
    <3>1. /\ PageOK(m') /\ m'.up = v /\ m'.mouse.up = v
          /\ m'.down = m.down /\ m'.mouse.down = m.mouse.down
          /\ m'.mouse.status = m.mouse.status
          /\ m'.mouse.btn = m.mouse.btn /\ m'.spin = m.spin /\ m'.prev = m.prev
          /\ m'.radio = m.radio /\ SameChoice(m, m') /\ SameSens(m, m')
      BY <1>1, <2>2, UpIs
    <3>2. Fresh(m')
      BY <1>1, <2>4, <3>1 DEF Fresh, Shown, OwnMode, SameChoice, SameSens
    <3> QED
      BY <1>2, <2>1, <3>2
  <2>3. CASE m' = Down(m, v)
    <3>1. /\ PageOK(m') /\ m'.down = v /\ m'.mouse.down = v
          /\ m'.up = m.up /\ m'.mouse.up = m.mouse.up
          /\ m'.mouse.status = m.mouse.status
          /\ m'.mouse.btn = m.mouse.btn /\ m'.spin = m.spin /\ m'.prev = m.prev
          /\ m'.radio = m.radio /\ SameChoice(m, m') /\ SameSens(m, m')
      BY <1>1, <2>3, DownIs
    <3>2. Fresh(m')
      BY <1>1, <2>4, <3>1 DEF Fresh, Shown, OwnMode, SameChoice, SameSens
    <3> QED
      BY <1>2, <2>1, <3>2
  <2> QED
    BY <1>6, <2>2, <2>3 DEF TurnScroll
<1>7. ASSUME NEW t \in Typed, TypeName(t)
      PROVE  Inv'
  <2>1. m' = [m EXCEPT !.entry = t, !.mouse.name = t] /\ UNCHANGED <<files, open>>
    BY <1>7 DEF TypeName
  <2> DEFINE c == [m.mouse EXCEPT !.name = t]
  <2>2. /\ MouseOK(c) /\ c.status = m.mouse.status /\ c.btn = m.mouse.btn
        /\ c.up = m.mouse.up /\ c.down = m.mouse.down
    BY <1>1 DEF PageOK, MouseOK
  <2>3. m' = [m EXCEPT !.entry = t, !.mouse = c]
    BY <2>1
  <2> HIDE DEF c
  <2>4. /\ PageOK(m') /\ m'.mouse = c /\ m'.prev = m.prev /\ m'.radio = m.radio
        /\ SameSpins(m, m') /\ SameChoice(m, m') /\ SameSens(m, m')
    BY <1>1, <2>2, <2>3 DEF PageOK, SameSpins, SameChoice, SameSens
  <2>5. Fresh(m')
    BY <1>1, <2>2, <2>4 DEF Fresh, Shown, OwnMode, SameSpins, SameChoice, SameSens
  <2> QED
    BY <1>2, <2>1, <2>5
<1>8. ASSUME NEW ids \in Ids, NEW ok \in BOOLEAN, Detect(ids, ok)
      PROVE  Inv'
  <2> DEFINE p == [m EXCEPT !.mouse.ids = ids]
             c == [m.mouse EXCEPT !.ids = ids]
  <2>1. m' = (IF ok THEN RefreshAll(p) ELSE p) /\ UNCHANGED <<files, open>>
    BY <1>8 DEF Detect
  <2>2. /\ MouseOK(c) /\ c.status = m.mouse.status /\ c.btn = m.mouse.btn
        /\ c.up = m.mouse.up /\ c.down = m.mouse.down
    BY <1>1 DEF PageOK, MouseOK
  <2>3. p = [m EXCEPT !.mouse = c]
    OBVIOUS
  <2> HIDE DEF c, p
  <2>4. /\ PageOK(p) /\ p.mouse = c /\ p.prev = m.prev /\ p.radio = m.radio
        /\ SameSpins(m, p) /\ SameChoice(m, p) /\ SameSens(m, p)
    BY <1>1, <2>2, <2>3, MouseSet
  <2>5. Fresh(p)
    BY <1>1, <2>2, <2>4 DEF Fresh, Shown, OwnMode, SameSpins, SameChoice, SameSens
  <2>6. Fresh(RefreshAll(p))
    BY <2>5, AllIs DEF Fresh
  <2>7. Fresh(m')
    BY <2>1, <2>5, <2>6
  <2> QED
    BY <1>2, <2>1, <2>7
<1>9. MouseOK(m.mouse)
  BY <1>1 DEF PageOK
<1>10. CASE Save
  <2>1. files' = [files EXCEPT ![open] = m.mouse] /\ m' = m /\ open' = open
    BY <1>10 DEF Save, Saved
  <2>2. FilesOK'
    BY <1>9, <2>1, FileSet
  <2> QED
    BY <2>1, <2>2
<1>11. ASSUME NEW c \in Configs, Open(c)
       PROVE  Inv'
  <2>1. files' = [files EXCEPT ![open] = m.mouse] /\ m' = Opened(m, files'[c]) /\ open' = c
    BY <1>11 DEF Open, Saved
  <2>2. FilesOK'
    BY <1>9, <2>1, FileSet
  <2>3. MouseOK(files'[c])
    BY <2>2 DEF FilesOK
  <2>4. Fresh(m')
    BY <1>1, <2>1, <2>3, OpenedIs
  <2> QED
    BY <2>1, <2>2, <2>4
<1>12. ASSUME NEW c \in Configs, New(c)
       PROVE  Inv'
  <2>1. m' = Cleared(m) /\ open' = c /\ files' = [files EXCEPT ![c] = NoMouse]
    BY <1>12 DEF New
  <2>2. FilesOK' /\ Fresh(m')
    BY <1>1, <2>1, NoMouseIs, FileSet, ClearedIs
  <2> QED
    BY <2>1, <2>2
<1>13. CASE UNCHANGED vars
  BY <1>2, <1>13 DEF vars
<1> QED
  BY <1>3, <1>4, <1>5, <1>6, <1>7, <1>8, <1>10, <1>11, <1>12, <1>13 DEF Next

LEMMA Invariant == Spec => []Inv
<1>1. Inv /\ [Next]_vars => Inv'
  BY InvStep
<1> QED
  BY <1>1, InvStart, PTL DEF Spec

\* However the callbacks of the page are nested, its fields show the mouse that
\* would be saved, only an MX Revolution has a mode, and the mode that enabling
\* brings back is its own (revoco_refresh_properties, revoco_enabled_changed).
THEOREM PageIsMouse == Spec => []PageShowsMouse
<1>1. Inv => PageShowsMouse
  <2> SUFFICES ASSUME Inv
               PROVE  PageShowsMouse
    OBVIOUS
  <2>1. Shown(m) /\ OwnMode(m) /\ (m.sensCb => m.labels \in Revolution) /\ PageOK(m)
    BY DEF Inv, Fresh
  <2>2. FieldsShowMouse
    BY <2>1 DEF FieldsShowMouse, Shown
  <2>3. OnlyForRevolution /\ RemembersOwnMode
    BY <2>1, Booleans DEF OnlyForRevolution, RemembersOwnMode, Shown, OwnMode
  <2> QED
    BY <2>2, <2>3 DEF PageShowsMouse
<1> QED
  BY <1>1, Invariant, PTL

\* Opening a configuration brings its mode, button and speeds, although the refresh
\* runs callbacks that set them (config_manager_open_config).
THEOREM OpenedAsWritten == Spec => OpenGivesFile
<1>1. ASSUME Inv, NEW c \in Configs, Open(c)
      PROVE  LET b == files'[c]
             IN  /\ m'.mouse.status = IF b.ids \in Revolution THEN b.status ELSE REVOCO_DISABLED
                 /\ m'.mouse.btn = b.btn /\ m'.mouse.up = b.up /\ m'.mouse.down = b.down
  <2>1. files' = [files EXCEPT ![open] = m.mouse] /\ m' = Opened(m, files'[c])
    BY <1>1 DEF Open, Saved
  <2>2. PageOK(m) /\ MouseOK(m.mouse) /\ FilesOK /\ open \in Configs
    BY <1>1 DEF Inv, Fresh, PageOK
  <2>3. MouseOK(files'[c])
    BY <2>1, <2>2, FileSet DEF FilesOK
  <2> QED
    BY <2>1, <2>2, <2>3, OpenedIs
<1>2. Inv => (\A c \in Configs : Open(c) =>
                LET b == files'[c]
                IN  /\ m'.mouse.status = IF b.ids \in Revolution THEN b.status ELSE REVOCO_DISABLED
                    /\ m'.mouse.btn = b.btn /\ m'.mouse.up = b.up /\ m'.mouse.down = b.down)
  BY <1>1
<1> QED
  BY <1>2, Invariant, PTL DEF OpenGivesFile
=============================================================================
