------------------------------- MODULE Revoco -------------------------------
(***************************************************************************)
(* The mouse of a configuration (mouse.c) and the page that sets up revoco *)
(* for it (revoco.c and its callbacks in callbacks_config.c), with the     *)
(* labels and entries that show it (config.c) and the mouse block of the   *)
(* configuration files.                                                    *)
(*                                                                         *)
(* m.mouse      mouse.c's record; its ids decide whether revoco applies    *)
(* m.prev       revoco_prev_mode                                           *)
(* m.prevBtn    revoco_prev_btn                                            *)
(* m.cb, radio, spin, up, down      what the page's fields show            *)
(* m.sensCb, sensMode, sensBtn, sensScroll    which of them can be used    *)
(* m.labels     the ids the main window shows; m.entry, the name           *)
(* files, open  the mouse blocks on disk and the open configuration        *)
(*                                                                         *)
(* The callbacks of this page set each other's fields: every call of GTK   *)
(* that changes a field runs its callback before the next line.            *)
(***************************************************************************)
EXTENDS ConfigFile

CONSTANTS
  Configs,     \* the configurations
  Ids,         \* pairs of a vendor and a product id: 0 for none
  Revolution,  \* those of the MX Revolution
  Typed,       \* the product names the user types
  Blocks       \* the mouse blocks a file may have: the program wrote them

VARIABLES m, files, open
vars == <<m, files, open>>

Modes   == REVOCO_FREE_MODE..REVOCO_AUTO_MODE
Buttons == (3..13) \ {10, 12}

\* A file keeps the pair of ids as one.
Mouse == [name : Typed \cup {Empty, Null}, ids : Ids, status : 0..4,
          btn : Buttons, up : 1..50, down : 1..50]
NoMouse == [name |-> Null, ids |-> 0, status |-> REVOCO_DISABLED,
            btn |-> 3, up |-> 5, down |-> 5]

ASSUME ConstantsOK ==
  /\ Revolution \subseteq Ids /\ 0 \in Ids \ Revolution
  /\ Blocks \subseteq Mouse

Detected(p) == p.mouse.ids \in Revolution
-----------------------------------------------------------------------------
(* The spin buttons: revoco_btn_changed and the two scroll speeds. *)

\* There are no buttons 10 and 12; which way they are skipped depends on where
\* the value came from.
Skipped(p, v) ==
  CASE v < 3  -> 3
    [] v > 13 -> 13
    [] v = 10 -> IF p.prevBtn < 10 THEN 11 ELSE 9
    [] v = 12 -> IF p.prevBtn < 12 THEN 13 ELSE 11
    [] OTHER  -> v

Btn(p, v) ==
  LET b == Skipped(p, v)
  IN  [p EXCEPT !.spin = b, !.mouse = SetBtn(@, b), !.prevBtn = b]

Up(p, v)   == [p EXCEPT !.up = v, !.mouse = SetUp(@, v)]
Down(p, v) == [p EXCEPT !.down = v, !.mouse = SetDown(@, v)]

\* gtk_spin_button_set_value calls back only when the value changes.
SpinsShown(p) ==
  LET a == IF p.spin = p.mouse.btn THEN p ELSE Btn(p, p.mouse.btn)
      b == IF a.up = a.mouse.up THEN a ELSE Up(a, a.mouse.up)
  IN  IF b.down = b.mouse.down THEN b ELSE Down(b, b.mouse.down)
-----------------------------------------------------------------------------
(* The radio buttons: revoco_free_selected and its three fellows. *)

ModeFields(p, mode) ==
  [p EXCEPT !.sensBtn = mode = REVOCO_MANUAL_MODE, !.sensScroll = mode = REVOCO_AUTO_MODE]

ModeSelected(p, mode) ==
  ModeFields([p EXCEPT !.prev = mode, !.mouse = SetStatus(@, mode)], mode)

\* The callback does not ask whether its button came on or went off, and both
\* are called: that of the one that goes off first.
RadioNewFirst(p, mode) ==
  IF p.radio = mode THEN p
  ELSE ModeSelected(ModeSelected([p EXCEPT !.radio = mode], mode), p.radio)
Radio(p, mode) ==
  IF p.radio = mode THEN p
  ELSE ModeSelected(ModeSelected([p EXCEPT !.radio = mode], p.radio), mode)
-----------------------------------------------------------------------------
(* The check box and the refresh, which call one another. *)

\* revoco_enabled_changed, up to its refresh.
Enabled(p, on) ==
  IF ~on THEN [p EXCEPT !.mouse = SetStatus(@, REVOCO_DISABLED)]
  ELSE IF p.prev # REVOCO_DISABLED THEN [p EXCEPT !.mouse = SetStatus(@, p.prev)]
  ELSE IF p.mouse.status # REVOCO_DISABLED THEN p
  ELSE Radio([p EXCEPT !.mouse = SetStatus(@, REVOCO_FREE_MODE)], REVOCO_FREE_MODE)

\* The check box changes: its callback runs.
Turned(p, on) == Enabled([p EXCEPT !.cb = on], on)

\* revoco_set_widget_status, up to the check box.
WidgetStatus(p, on) == [p EXCEPT !.sensMode = on, !.sensBtn = on, !.sensScroll = on]

\* revoco_refresh_properties, up to the check box: it will be on, or off.
On(p) == Detected(p) /\ p.mouse.status # REVOCO_DISABLED
Begun(p) == WidgetStatus([p EXCEPT !.sensCb = Detected(p)], On(p))

\* The rest of it, where the check box and its callback left q.
Ended(p, q) ==
  IF ~Detected(p) THEN [q EXCEPT !.mouse = SetStatus(@, REVOCO_DISABLED)]
  ELSE SpinsShown(IF q.mouse.status \in Modes
                    THEN ModeFields(Radio(q, q.mouse.status), q.mouse.status)
                  ELSE q)

\* The check box calls back when it changes, the callback refreshes, the refresh
\* sets the check box.  The third refresh inside one another changes it no more:
\* the second runs after enabling a mouse that is no MX Revolution, and takes
\* that back.
RefreshThird(p)    == Ended(p, Begun(p))
CheckInside(p, on) == IF p.cb = on THEN p ELSE RefreshThird(Turned(p, on))
RefreshInside(p)   == Ended(p, CheckInside(Begun(p), On(p)))
Check(p, on)       == IF p.cb = on THEN p ELSE RefreshInside(Turned(p, on))
Refresh(p)         == Ended(p, Check(Begun(p), On(p)))

ForceDisable(p) == Check(WidgetStatus([p EXCEPT !.sensCb = FALSE], FALSE), FALSE)

\* revoco_init
RevocoInitKeeping(p) == ForceDisable(p)
RevocoInit(p) ==
  LET q == ForceDisable(p) IN [q EXCEPT !.prev = q.mouse.status]

\* config_refresh_mouse_properties, then the rest of config_refresh_all_fields.
RefreshAll(p) ==
  Refresh([p EXCEPT !.labels = p.mouse.ids,
                    !.entry = IF p.mouse.name = Null THEN Empty ELSE p.mouse.name])

\* mouse_free, revoco_init and the refresh of config_clear_all.
Cleared(p) == RefreshAll(RevocoInit([p EXCEPT !.mouse = NoMouse]))

\* The mouse block of a file, option by option: the name is trimmed, and a mode,
\* button or speed out of range is passed over.
Loaded(p, b) ==
  LET n == IF b.name = Null THEN p.mouse ELSE [p.mouse EXCEPT !.name = Value(b.name)]
  IN  [p EXCEPT !.mouse =
         SetDown(SetUp(SetBtn(SetStatus([n EXCEPT !.ids = b.ids], b.status), b.btn),
                       b.up), b.down)]

Opened(p, b) == RefreshAll(Loaded(Cleared(p), b))
Saved(f) == [f EXCEPT ![open] = m.mouse]

Init ==
  /\ files \in [Configs -> Blocks]
  /\ open \in Configs
  /\ \E radio \in Modes :
       m = Opened([mouse |-> NoMouse, prev |-> REVOCO_DISABLED, prevBtn |-> 3, cb |-> FALSE,
                   radio |-> radio, spin |-> 3, up |-> 5, down |-> 5, sensCb |-> FALSE,
                   sensMode |-> FALSE, sensBtn |-> FALSE, sensScroll |-> FALSE,
                   labels |-> 0, entry |-> Empty], files[open])
-----------------------------------------------------------------------------
(* What the user does. *)

ClickEnable ==
  /\ m.sensCb
  /\ m' = Check(m, ~m.cb)
  /\ UNCHANGED <<files, open>>

ClickRadio(mode) ==
  /\ m.sensMode /\ mode \in Modes
  /\ m' = Radio(m, mode)
  /\ UNCHANGED <<files, open>>

TurnBtn(v) ==
  /\ m.sensBtn /\ v \in 3..13 /\ v # m.spin
  /\ m' = Btn(m, v)
  /\ UNCHANGED <<files, open>>

TurnScroll(v) ==
  /\ m.sensScroll /\ v \in 1..50
  /\ m' = Up(m, v) \/ m' = Down(m, v)
  /\ UNCHANGED <<files, open>>

\* config_update_mouse_properties, when the entry loses the focus.
TypeName(t) ==
  /\ t \in Typed
  /\ m' = [m EXCEPT !.entry = t, !.mouse.name = t]
  /\ UNCHANGED <<files, open>>

\* A mouse is detected (moused_set_mouse) and the button window closed, with OK
\* or with Cancel, which does not show the mouse.
Detect(ids, ok) ==
  /\ ids \in Ids \ {0}
  /\ LET p == [m EXCEPT !.mouse.ids = ids]
     IN  m' = IF ok THEN RefreshAll(p) ELSE p
  /\ UNCHANGED <<files, open>>

Save ==
  /\ files' = Saved(files)
  /\ UNCHANGED <<m, open>>

Open(c) ==
  /\ c \in Configs \ {open}
  /\ files' = Saved(files)
  /\ m' = Opened(m, files'[c])
  /\ open' = c

\* A new configuration that copies nothing takes the place of c.
New(c) ==
  /\ c \in Configs \ {open}
  /\ m' = Cleared(m)
  /\ open' = c
  /\ files' = [files EXCEPT ![c] = NoMouse]

Next ==
  \/ ClickEnable
  \/ \E mode \in Modes : ClickRadio(mode)
  \/ \E v \in 3..13 : TurnBtn(v)
  \/ \E v \in 1..50 : TurnScroll(v)
  \/ \E t \in Typed : TypeName(t)
  \/ \E ids \in Ids, ok \in BOOLEAN : Detect(ids, ok)
  \/ Save
  \/ \E c \in Configs : Open(c) \/ New(c)

Spec == Init /\ [][Next]_vars
-----------------------------------------------------------------------------
(* Properties. *)

\* revoco is only on for the mouse that the window shows, and only if that is
\* an MX Revolution.
OnlyForRevolution == m.mouse.status # REVOCO_DISABLED => m.labels \in Revolution

\* The page shows the mode, the button and the speeds that would be saved, and
\* lets the user change what belongs to the mode.
FieldsShowMouse ==
  LET s == m.mouse.status
  IN  /\ m.cb = (s # REVOCO_DISABLED) /\ m.sensMode = m.cb
      /\ m.cb => m.radio = s /\ m.sensCb
      /\ m.sensBtn = (s = REVOCO_MANUAL_MODE) /\ m.sensScroll = (s = REVOCO_AUTO_MODE)
      /\ m.sensCb => m.spin = m.mouse.btn /\ m.up = m.mouse.up /\ m.down = m.mouse.down

\* The mode that enabling brings back is the one there is, or none: it never
\* comes from another configuration.
RemembersOwnMode ==
  m.mouse.status # REVOCO_DISABLED => m.prev \in {REVOCO_DISABLED, m.mouse.status}

\* However the callbacks of the page were nested, its fields, the mouse they
\* describe and the mode it remembers go together.
PageShowsMouse == FieldsShowMouse /\ OnlyForRevolution /\ RemembersOwnMode

\* Opening a configuration brings its own mode, button and speeds, although the
\* refresh runs callbacks that set them.
OpenGivesFile ==
  [][\A c \in Configs : Open(c) =>
       LET b == files'[c]
       IN  /\ m'.mouse.status = IF b.ids \in Revolution THEN b.status ELSE REVOCO_DISABLED
           /\ m'.mouse.btn = b.btn /\ m'.mouse.up = b.up /\ m'.mouse.down = b.down]_vars
=============================================================================
