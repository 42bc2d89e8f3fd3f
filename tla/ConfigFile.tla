----------------------------- MODULE ConfigFile -----------------------------
(***************************************************************************)
(* The configuration file of btnx-config: what config_file_save writes for *)
(* the mouse (mouse.c) and the button table (buttons.c), and what          *)
(* config_file_parse reads back.                                           *)
(*                                                                         *)
(* A text is a sequence of pieces: runs of ordinary characters, the blank  *)
(* and the number sign, which starts a comment.  A file is a sequence of   *)
(* lines [opt, val]: an option with its value, or a block word, whose val  *)
(* is Null.  The value of a numeric option is the number itself.  Lines    *)
(* are shorter than the parser's buffer.                                   *)
(*                                                                         *)
(* Options the code treats alike are one here: enabled stands for          *)
(* force_release too, mod for mod1, mod2 and mod3.  The option type says   *)
(* nothing that the raw code does not.                                     *)
(***************************************************************************)
EXTENDS Integers, Sequences, SequencesExt

CONSTANT Null   \* the null pointer

Blank  == " "
Hash   == "#"
Empty  == <<>>
NONE   == <<"NONE">>
Words  == {"Mouse", "EndMouse", "Button", "EndButton"}

EVTYPE_KEY     == 0
EVTYPE_CONFIG  == 1
EVTYPE_COMMAND == 2

CONFIG_SWITCH_NONE == 0
CONFIG_SWITCH_NEXT == 1
CONFIG_SWITCH_PREV == 2
CONFIG_SWITCH_TO   == 3

REVOCO_DISABLED     == 0
REVOCO_FREE_MODE    == 1
REVOCO_CLICK_MODE   == 2
REVOCO_MANUAL_MODE  == 3
REVOCO_AUTO_MODE    == 4
REVOCO_INVALID_MODE == 5
-----------------------------------------------------------------------------
(* The button table. *)

\* A button that buttons_add has just put there.
NewSettings ==
  [name |-> Null, enabled |-> FALSE, delay |-> 0, evtype |-> EVTYPE_KEY,
   keycode |-> NONE, mod |-> NONE, command |-> Null, uid |-> 0,
   switch_type |-> CONFIG_SWITCH_NONE, switch_name |-> NONE]
NewButton(rc) == [rawcode |-> rc, set |-> NewSettings]

\* buttons_exists, one-based; 0 if no button has the raw code.
IndexOf(t, rc) == SelectInSeq(t, LAMBDA b : b.rawcode = rc)

Added(t, rc) == IF IndexOf(t, rc) # 0 THEN t ELSE Append(t, NewButton(rc))

(* The mouse. *)

NewMouse ==
  [vendor_name |-> Null, product_name |-> Null, vendor_id |-> 0, product_id |-> 0,
   status |-> REVOCO_DISABLED, btn |-> 3, up |-> 5, down |-> 5]

\* mouse_set_revoco_*: a value out of range changes nothing.
SetStatus(m, s) ==
  IF s \in REVOCO_DISABLED..REVOCO_INVALID_MODE - 1 THEN [m EXCEPT !.status = s] ELSE m
SetBtn(m, b) == IF b \in (3..13) \ {10, 12} THEN [m EXCEPT !.btn = b] ELSE m
SetUp(m, s) == IF s \in 1..50 THEN [m EXCEPT !.up = s] ELSE m
SetDown(m, s) == IF s \in 1..50 THEN [m EXCEPT !.down = s] ELSE m
-----------------------------------------------------------------------------
(* Writing: config_file_save. *)

Word(o) == [opt |-> o, val |-> Null]
Opt(o, v) == [opt |-> o, val |-> v]

\* "%s" of the null pointer, and " = " before the text.
Printed(text) == <<Blank>> \o (IF text = Null THEN <<"(null)">> ELSE text)

NameLine(o, text) == IF text = Null THEN <<>> ELSE <<Opt(o, Printed(text))>>

MouseLines(m) ==
  <<Word("Mouse")>> \o NameLine("vendor_name", m.vendor_name)
                    \o NameLine("product_name", m.product_name) \o
  <<Opt("vendor_id", m.vendor_id), Opt("product_id", m.product_id),
    Opt("revoco_mode", m.status), Opt("revoco_btn", m.btn),
    Opt("revoco_up_scroll", m.up), Opt("revoco_down_scroll", m.down),
    Word("EndMouse")>>

\* Only the options of the button's event type are written: the reader takes
\* the event type from them.
EventLines(s) ==
  CASE s.evtype = EVTYPE_KEY ->
         <<Opt("keycode", Printed(s.keycode)), Opt("mod", Printed(s.mod))>>
    [] s.evtype = EVTYPE_COMMAND ->
         <<Opt("command", Printed(s.command)), Opt("uid", s.uid)>>
    [] s.evtype = EVTYPE_CONFIG ->
         <<Opt("switch_type", s.switch_type), Opt("switch_name", Printed(s.switch_name))>>
    [] OTHER -> <<>>

ButtonLines(b) ==
  <<Word("Button"), Opt("name", Printed(b.set.name)), Opt("rawcode", b.rawcode),
    Opt("enabled", b.set.enabled), Opt("delay", b.set.delay)>>
    \o EventLines(b.set) \o <<Word("EndButton")>>

Format(m, t) == MouseLines(m) \o FlattenSeq([i \in 1..Len(t) |-> ButtonLines(t[i])])
-----------------------------------------------------------------------------
(* Reading: config_file_parse. *)

\* What follows a '#' is a comment, unless the '#' is the first thing after
\* the '='.
Uncommented(v) ==
  LET h == SelectInSeq(v, LAMBDA c : c = Hash)
  IN  IF h > 1 THEN SubSeq(v, 1, h - 1) ELSE v

Inked(v) == {i \in 1..Len(v) : v[i] # Blank}
Stripped(v) ==
  IF Inked(v) = {} THEN Empty
  ELSE SubSeq(v, CHOOSE i \in Inked(v) : \A j \in Inked(v) : i <= j,
                 CHOOSE i \in Inked(v) : \A j \in Inked(v) : j <= i)

Value(v) == Stripped(Uncommented(v))

\* config_file_add_value on the button s: an option that belongs to an event
\* type sets it.
SetOptionNoType(s, o, v) ==
  CASE o = "name" -> [s EXCEPT !.name = Value(v)]
    [] o = "enabled" -> [s EXCEPT !.enabled = v]
    [] o = "delay" -> [s EXCEPT !.delay = v]
    [] o = "keycode" -> [s EXCEPT !.keycode = Value(v), !.evtype = EVTYPE_KEY]
    [] o = "mod" -> [s EXCEPT !.mod = Value(v)]
    [] o = "command" -> [s EXCEPT !.command = Value(v), !.evtype = EVTYPE_COMMAND]
    [] o = "uid" -> [s EXCEPT !.uid = v]
    [] o = "switch_type" -> [s EXCEPT !.switch_type = v]
    [] o = "switch_name" -> [s EXCEPT !.switch_name = Value(v)]
    [] OTHER -> s
SetOption(s, o, v) ==
  CASE o = "name" -> [s EXCEPT !.name = Value(v)]
    [] o = "enabled" -> [s EXCEPT !.enabled = v]
    [] o = "delay" -> [s EXCEPT !.delay = v]
    [] o = "keycode" -> [s EXCEPT !.keycode = Value(v), !.evtype = EVTYPE_KEY]
    [] o = "mod" -> [s EXCEPT !.mod = Value(v)]
    [] o = "command" -> [s EXCEPT !.command = Value(v), !.evtype = EVTYPE_COMMAND]
    [] o = "uid" -> [s EXCEPT !.uid = v]
    [] o = "switch_type" -> [s EXCEPT !.switch_type = v]
    [] o = "switch_name" -> [s EXCEPT !.switch_name = Value(v), !.evtype = EVTYPE_CONFIG]
    [] OTHER -> s

SetMouseOption(m, o, v) ==
  CASE o = "vendor_name" -> [m EXCEPT !.vendor_name = Value(v)]
    [] o = "product_name" -> [m EXCEPT !.product_name = Value(v)]
    [] o = "vendor_id" -> [m EXCEPT !.vendor_id = v]
    [] o = "product_id" -> [m EXCEPT !.product_id = v]
    [] o = "revoco_mode" -> SetStatus(m, v)
    [] o = "revoco_btn" -> SetBtn(m, v)
    [] o = "revoco_up_scroll" -> SetUp(m, v)
    [] o = "revoco_down_scroll" -> SetDown(m, v)
    [] OTHER -> m

\* The reader's state.  block_end is 1 from the start and never 0, so a block
\* word always opens its block; begun is block_begin.  The i-th block of
\* buttons adds the raw code i - 1 first, and the file's own one replaces it.
Start == [mouse |-> NewMouse, table |-> <<>>, i |-> 0, block |-> "none", begun |-> FALSE]

ReadLine(st, line) ==
  CASE line.opt = "Button" ->
         [st EXCEPT !.block = "button", !.begun = TRUE, !.i = @ + 1,
                    !.table = Added(@, st.i)]
    [] line.opt = "Mouse" -> [st EXCEPT !.block = "mouse", !.begun = TRUE]
    [] line.opt \in {"EndButton", "EndMouse"} ->
         IF st.begun THEN [st EXCEPT !.block = "none"] ELSE st
    [] line.opt \notin Words /\ st.block = "mouse" ->
         [st EXCEPT !.mouse = SetMouseOption(@, line.opt, line.val)]
    [] line.opt \notin Words /\ st.block = "button" /\ st.i <= Len(st.table) ->
         IF line.opt = "rawcode" THEN [st EXCEPT !.table[st.i].rawcode = line.val]
         ELSE [st EXCEPT !.table[st.i].set = SetOption(@, line.opt, line.val)]
    [] OTHER -> st

Parse(lines) ==
  LET after[n \in 0..Len(lines)] ==
        IF n = 0 THEN Start ELSE ReadLine(after[n - 1], lines[n])
  IN  after[Len(lines)]
-----------------------------------------------------------------------------
(* The round trip. *)

\* A text the file can hold: no '#' and no blank at its ends.
Plain(text) == text # Null => Value(Printed(text)) = text

\* What the program makes of the button: the settings of its event type.
Effective(b) ==
  LET s == b.set
      common == <<b.rawcode, s.name, s.enabled, s.delay, s.evtype>>
  IN  CASE s.evtype = EVTYPE_KEY -> common \o <<s.keycode, s.mod>>
        [] s.evtype = EVTYPE_COMMAND -> common \o <<s.command, s.uid>>
        [] s.evtype = EVTYPE_CONFIG -> common \o <<s.switch_type, s.switch_name>>
        [] OTHER -> common

PlainButton(b) ==
  LET s == b.set
  IN  /\ s.name # Null /\ Plain(s.name) /\ Plain(s.keycode) /\ Plain(s.mod)
      /\ s.command # Null \/ s.evtype # EVTYPE_COMMAND
      /\ s.switch_name # Null \/ s.evtype # EVTYPE_CONFIG
      /\ Plain(s.command) /\ Plain(s.switch_name)

\* Saving a configuration and opening it again gives every button back, as it
\* is in effect, however many there are and whatever the others hold.
ReadsBack(m, t) ==
  LET back == Parse(Format(m, t)).table
  IN  /\ Len(back) = Len(t)
      /\ \A k \in 1..Len(t) : PlainButton(t[k]) => Effective(back[k]) = Effective(t[k])
=============================================================================
