---------------------------- MODULE ButtonEditor ----------------------------
(***************************************************************************)
(* The button editor of the main window: the table of buttons (buttons.c), *)
(* the tree that shows it (tree_buttons.c), the fields that edit one       *)
(* button of it (config.c, callbacks_config.c, keycodes_entry.c) and the   *)
(* configuration files the table is saved to and read from (config_file.c).*)
(*                                                                         *)
(* page.table      the button table                                        *)
(* page.rows, sel  the tree's rows, as the buttons they show, and the      *)
(*                 selected one (0: none)                                  *)
(* page.w          what the fields of the editor show, as the settings     *)
(*                 they would store; a delay or a uid may be no number     *)
(* page.sens       the event type whose fields are sensitive (-1: none);   *)
(*                 toSens: whether the list of targets is                  *)
(* page.combo      the names in the list of targets                        *)
(* edit            edit_rawcode, the button the fields edit (0: none)      *)
(* names, cur      configs.name and configs.current + 1                    *)
(* files           the configuration files, NoFile where there is none     *)
(* careful         no step has gone into one of the traps (see Trapped)    *)
(*                                                                         *)
(* An entry stores what was typed when it loses the focus, so typing and   *)
(* storing are one step.  GTK is modelled by what its calls are used for:  *)
(* setting a check box, a radio button or a list to what it shows already  *)
(* signals nothing, setting it to anything else calls its callback at      *)
(* once; setting the text of an entry calls nothing.                       *)
(***************************************************************************)
EXTENDS ConfigFile

CONSTANTS
  Rawcodes,    \* the buttons of the mouse
  Keycodes,    \* the key codes the program knows
  Mods,        \* the modifiers it knows
  Typable,     \* Typable[f]: what the user may put into the field f
  Opening,     \* the tables a configuration may begin with
  FirstNames,  \* the configurations there are at the start, in order
  NewNames,    \* the names a new configuration may take, in order
  Half,        \* half the range of an int
  Junk,        \* what is left where a text has been freed
  NoFile,
  MaxEdits     \* bound: the changes of fields and of the table

Fields == DOMAIN NewSettings
Texts  == {"name", "command", "keycode"}
Ints   == -Half..Half - 1

\* What the program has stored in a button, and so what it has saved.
Sound(s) ==
  /\ s = [f \in Fields |-> s[f]]
  /\ s.evtype \in EVTYPE_KEY..EVTYPE_COMMAND
  /\ s.switch_type \in CONFIG_SWITCH_NONE..CONFIG_SWITCH_TO
  /\ s.keycode \in Keycodes /\ s.mod \in Mods
  /\ s.delay \in Ints /\ s.uid \in Ints
SoundTable(t) ==
  /\ t \in Seq(Range(t))
  /\ \A k \in 1..Len(t) : t[k] \in [rawcode : Rawcodes, set : {t[k].set}] /\ Sound(t[k].set)
  /\ \A j, k \in 1..Len(t) : t[j].rawcode = t[k].rawcode => j = k

\* The raw code i is the place holder of the i-th block while a file is read: a
\* raw code has its event type in the upper byte and is larger than that.
ASSUME ConstantsOK ==
  /\ Rawcodes \subseteq Nat /\ IsFiniteSet(Rawcodes)
  /\ \A rc \in Rawcodes : rc > Cardinality(Rawcodes)
  /\ NONE \in Keycodes \cap Mods
  /\ \A text \in Keycodes \cup Mods : text # Null /\ Plain(text)
  /\ Half \in Nat \ {0} /\ MaxEdits \in Nat
  /\ FirstNames \in Seq(Range(FirstNames)) \ {<<>>} /\ NewNames \in Seq(Range(NewNames))
  /\ Null \notin Range(FirstNames) \cup Range(NewNames) \cup {Empty}

\* The lists offer what the program knows, and no entry holds the null pointer.
ASSUME InputsOK ==
  /\ \A f \in Texts : Null \notin Typable[f]
  /\ Typable["mod"] \subseteq Mods
  /\ Typable["evtype"] \subseteq EVTYPE_KEY..EVTYPE_COMMAND
  /\ Typable["switch_type"] \subseteq CONFIG_SWITCH_NEXT..CONFIG_SWITCH_TO
  /\ \A t \in Opening : SoundTable(t)

VARIABLES page, edit, names, cur, files, edits, careful
vars == <<page, edit, names, cur, files, edits, careful>>
-----------------------------------------------------------------------------
(* The table and the tree. *)

Place(p, rc) == IndexOf(p.table, rc)
Known(p, rc) == Place(p, rc) # 0
SetOf(p, rc) == p.table[Place(p, rc)].set
EventOf(p, rc) == IF Known(p, rc) THEN SetOf(p, rc).evtype ELSE -1

\* tree_buttons_replace: the rows are made anew and none is selected.
Replaced(p) == [p EXCEPT !.rows = p.table, !.sel = 0]

\* tree_buttons_update_button: the row of the button is replaced by a new one,
\* which is selected.
RowUpdatedNot(p, rc) == p
RowUpdated(p, rc) ==
  LET r == IndexOf(p.rows, rc)
  IN  IF r = 0 THEN p
      ELSE [p EXCEPT !.rows[r] = p.table[Place(p, rc)], !.sel = r]

\* tree_buttons_remove_button, when the button has left the table: the selected
\* row goes and the next one is selected, after the last row the first one, but
\* none when the table has one button left.
RowRemoved(p) ==
  IF p.sel = 0 THEN p
  ELSE LET rs == RemoveAt(p.rows, p.sel)
       IN  [p EXCEPT !.rows = rs,
                     !.sel = IF p.sel <= Len(rs) THEN p.sel
                             ELSE IF Len(p.table) <= 1 THEN 0 ELSE 1]

Selected(p) == IF p.sel = 0 THEN 0 ELSE p.rows[p.sel].rawcode
-----------------------------------------------------------------------------
(* Storing the fields: config_update_button_properties. *)

\* strtol, then the conversion to int.
IntOf(n) == ((n + Half) % (2 * Half)) - Half

\* config_check_integer: digits only, so no negative number passes.
IsNumber(t) == t \in Nat

Stored(w) == [w EXCEPT !.delay = IntOf(@), !.uid = IntOf(@)]

Update(p, rc) ==
  LET w == [p.w EXCEPT !.keycode = IF @ = Empty THEN NONE ELSE @]
  IN  IF ~Known(p, rc) \/ ~IsNumber(w.delay) \/ ~IsNumber(w.uid) THEN p
      ELSE IF w.keycode \notin Keycodes THEN [p EXCEPT !.w = w]
      ELSE RowUpdated([p EXCEPT !.w = w, !.table[Place(p, rc)].set = Stored(w)], rc)

\* config_update_evtype
EventFields(p, evtype) ==
  [p EXCEPT !.sens = evtype,
            !.toSens = p.w.switch_type = CONFIG_SWITCH_TO /\ evtype = EVTYPE_CONFIG]

\* A check box, a radio button or a list is set to v.  Its callback stores all
\* the fields unless block_update is set; the one of the event type looks at
\* what was stored afterwards.  A radio button's decides on the list of
\* targets first.
Signalled(p, rc, f, v, blocked) ==
  LET q == IF f = "switch_type" THEN [p EXCEPT !.w[f] = v, !.toSens = v = CONFIG_SWITCH_TO]
           ELSE [p EXCEPT !.w[f] = v]
      u == [Update(q, rc) EXCEPT !.fired = TRUE]
  IN  IF p.w[f] = v THEN p
      ELSE IF blocked THEN q
      ELSE IF f = "evtype" THEN EventFields(u, EventOf(u, rc))
      ELSE u
-----------------------------------------------------------------------------
(* Showing a button: config_refresh_button_properties. *)

\* The texts were looked up before the first callback.  If one has stored the
\* fields since, they have been freed: what is there now is the old text, the
\* one stored in its place, or neither.
Lookup(p, rc, s, f) == IF p.fired THEN {s[f], SetOf(p, rc)[f], Junk} ELSE {s[f]}

OrEmpty(text) == IF text = Null THEN Empty ELSE text
OrNone(text)  == IF text = Null THEN NONE ELSE text

\* The two boxes and the radio buttons, then the entries, ...
ShowBoxes(p, rc, s, blocked) ==
  LET q == Signalled(EventFields(p, s.evtype), rc, "enabled", s.enabled, blocked)
  IN  IF s.switch_type = CONFIG_SWITCH_NONE
        THEN Signalled(q, rc, "switch_type", CONFIG_SWITCH_NEXT, blocked)
      ELSE IF s.switch_type \in CONFIG_SWITCH_NEXT..CONFIG_SWITCH_TO
        THEN Signalled(q, rc, "switch_type", s.switch_type, blocked)
      ELSE q

WithEntriesNoDelay(p, s, n, c, k) ==
  [p EXCEPT !.w.name = OrEmpty(n), !.w.command = OrEmpty(c), !.w.keycode = OrNone(k),
            !.w.uid = s.uid]
WithEntries(p, s, n, c, k) ==
  [p EXCEPT !.w.name = OrEmpty(n), !.w.command = OrEmpty(c), !.w.keycode = OrNone(k),
            !.w.delay = s.delay, !.w.uid = s.uid]
ShowEntries(p, rc, s) ==
  {WithEntries(p, s, n, c, k) :
     n \in Lookup(p, rc, s, "name"), c \in Lookup(p, rc, s, "command"),
     k \in Lookup(p, rc, s, "keycode")}

\* ... the modifiers, the event type ...
ShowLists(p, rc, s, blocked) ==
  LET Item(text) == IF OrNone(text) \in Mods THEN OrNone(text) ELSE Null
  IN  {Signalled(Signalled(p, rc, "mod", Item(t), blocked), rc, "evtype", s.evtype, blocked) :
         t \in Lookup(p, rc, s, "mod")}

\* ... and the target: config_refresh_config_combobox.  A name the list does
\* not have is forgotten, in the table and not in the tree.
ShowTarget(p, rc, name, blocked) ==
  LET q == IF name = Null \/ p.combo = <<>> THEN p
           ELSE Signalled(p, rc, "switch_name", IF Contains(p.combo, name) THEN name ELSE NONE,
                          blocked)
  IN  IF Contains(p.combo, name) THEN q
      ELSE [q EXCEPT !.table[Place(q, rc)].set.switch_name = NONE]

Shown(p) == [p EXCEPT !.canDelete = TRUE, !.fired = FALSE]
Refresh(p, rc, blocked) ==
  IF ~Known(p, rc) THEN {p}
  ELSE LET s == SetOf(p, rc)
       IN  UNION {UNION {
             {Shown(ShowTarget(r, rc, t, blocked)) : t \in Lookup(r, rc, s, "switch_name")} :
             r \in ShowLists(q, rc, s, blocked)} :
             q \in ShowEntries(ShowBoxes(p, rc, s, blocked), rc, s)}

\* config_refresh_all_fields, which blocks nothing.
RefreshAll(p, rc) == {Replaced(q) : q \in Refresh(p, rc, FALSE)}

\* config_clear_all leaves no button; edit_rawcode stays.
Cleared(p) == Replaced([p EXCEPT !.table = <<>>])

\* init_config_button_field
NoButton(p) ==
  EventFields([p EXCEPT !.w.enabled = FALSE, !.w.name = Empty, !.w.command = Empty,
                        !.w.delay = 0, !.w.uid = 0, !.w.keycode = NONE, !.w.mod = NONE,
                        !.w.evtype = EVTYPE_KEY, !.canDelete = FALSE], -1)

\* config_update_config_combobox: clearing the list calls its callback, with no
\* target chosen.
Retargeted(p, rc, ns) ==
  [Update([p EXCEPT !.w.switch_name = Null], rc) EXCEPT !.combo = <<NONE>> \o ns]
-----------------------------------------------------------------------------
(* The configurations. *)

IsOpen == cur \in 1..Len(names)
Lines(f, n) == IF f[n] = NoFile THEN <<>> ELSE f[n]

\* config_save: to the file of the current configuration, if there is one.
Saved(f) == IF IsOpen THEN [f EXCEPT ![names[cur]] = Format(NewMouse, page.table)] ELSE f

\* config_manager_open_config of the i-th of ns on the files f.
OpenedOnTop(p, rc, ns, i, f) ==
  RefreshAll([p EXCEPT !.table = @ \o Parse(Lines(f, ns[i])).table], rc)
Opened(p, rc, ns, i, f) ==
  RefreshAll([Cleared(p) EXCEPT !.table = Parse(Lines(f, ns[i])).table], rc)

Init ==
  /\ names = FirstNames /\ cur = 1 /\ edit = 0 /\ edits = 0 /\ careful = TRUE
  /\ \E t \in [1..Len(FirstNames) -> Opening] :
       files = [n \in Range(FirstNames) \cup Range(NewNames) |->
                  IF Contains(FirstNames, n)
                    THEN Format(NewMouse, t[CHOOSE i \in 1..Len(FirstNames) : FirstNames[i] = n])
                    ELSE NoFile]
  /\ page = LET blank == [table |-> <<>>, rows |-> <<>>, sel |-> 0, sens |-> -1,
                          toSens |-> FALSE, combo |-> <<NONE>> \o FirstNames,
                          canDelete |-> FALSE, fired |-> FALSE,
                          w |-> [NewSettings EXCEPT !.name = Empty, !.command = Empty,
                                   !.switch_type = CONFIG_SWITCH_NEXT, !.switch_name = Null]]
            IN  Replaced([blank EXCEPT !.table = Parse(files[FirstNames[1]]).table])
-----------------------------------------------------------------------------
(* What the user does. *)

Counted == edits < MaxEdits /\ edits' = edits + 1

\* tree_config_cursor_changed: a row is selected.  The button that is edited
\* already is not shown again.
SelectUnblocked(r) ==
  LET rc == page.rows[r].rawcode
      p == [page EXCEPT !.sel = r]
  IN  /\ r \in 1..Len(page.rows)
      /\ IF rc = edit \/ ~Known(p, rc) THEN page' = p /\ UNCHANGED edit
         ELSE edit' = rc /\ page' \in Refresh(p, rc, FALSE)
      /\ UNCHANGED <<names, cur, files, edits>>
Select(r) ==
  LET rc == page.rows[r].rawcode
      p == [page EXCEPT !.sel = r]
  IN  /\ r \in 1..Len(page.rows)
      /\ IF rc = edit \/ ~Known(p, rc) THEN page' = p /\ UNCHANGED edit
         ELSE edit' = rc /\ page' \in Refresh(p, rc, TRUE)
      /\ UNCHANGED <<names, cur, files, edits>>

Sensitive(f) ==
  CASE f \in {"keycode", "mod"}     -> page.sens = EVTYPE_KEY
    [] f \in {"command", "uid"}     -> page.sens = EVTYPE_COMMAND
    [] f = "switch_type"            -> page.sens = EVTYPE_CONFIG
    [] f = "switch_name"            -> page.toSens
    [] OTHER                        -> page.sens # -1

Offers(f) == IF f = "switch_name" THEN Range(page.combo) ELSE Typable[f]

\* A text is typed into an entry, which then loses the focus, ...
Type(f, v) ==
  /\ f \in Texts \cup {"delay", "uid"} /\ Sensitive(f) /\ v \in Offers(f)
  /\ page' = Update([page EXCEPT !.w[f] = v], edit)
  /\ Counted
  /\ UNCHANGED <<edit, names, cur, files>>

\* ... or a box, a radio button or an item of a list is clicked.
Click(f, v) ==
  /\ f \notin Texts \cup {"delay", "uid"} /\ Sensitive(f) /\ v \in Offers(f)
  /\ page' = [Signalled(page, edit, f, v, FALSE) EXCEPT !.fired = FALSE]
  /\ Counted
  /\ UNCHANGED <<edit, names, cur, files>>

\* config_delete_selected_button
DeleteButton ==
  LET t == IF Known(page, edit) THEN RemoveAt(page.table, Place(page, edit)) ELSE page.table
      p == RowRemoved([page EXCEPT !.table = t])
  IN  /\ page.canDelete /\ edit # 0
      /\ edit' = IF t = <<>> THEN 0 ELSE Selected(p)
      /\ page' \in IF t = <<>> THEN {NoButton(p)} ELSE Refresh(p, Selected(p), TRUE)
      /\ Counted
      /\ UNCHANGED <<names, cur, files>>

\* The button detection adds the button rc and closes with OK.
WithButton(p, rc, name) ==
  [p EXCEPT !.table = Append(@, [NewButton(rc) EXCEPT !.set.name = name])]
Detect(rc, name) ==
  /\ IsOpen /\ ~Known(page, rc) /\ name \in Typable["name"]
  /\ page' \in RefreshAll(WithButton(page, rc, name), edit)
  /\ Counted
  /\ UNCHANGED <<edit, names, cur, files>>

\* btn_save_config_clicked; restarting btnx saves as well.
Save ==
  /\ IsOpen
  /\ files' = Saved(files)
  /\ UNCHANGED <<page, edit, names, cur, edits>>

\* tree_configs_row_activated: the values are saved, another configuration is
\* opened.
Open(i) ==
  /\ i \in 1..Len(names) /\ i # cur
  /\ files' = Saved(files)
  /\ cur' = i
  /\ page' \in Opened(page, edit, names, i, files')
  /\ UNCHANGED <<edit, names, edits>>

FreeName == SelectInSeq(NewNames, LAMBDA n : ~Contains(names, n))

\* btn_new_config_clicked and config_manager_new.
New(copy) ==
  /\ FreeName # 0 /\ (copy => cur # 0)
  /\ names' = Append(names, NewNames[FreeName])
  /\ cur' = Len(names')
  /\ page' = Retargeted(IF copy THEN page ELSE Cleared(page), edit, names')
  /\ Counted
  /\ UNCHANGED <<edit, files>>

\* btn_delete_config_clicked and config_manager_delete of the i-th one.
DeleteConfig(i) ==
  LET ns == RemoveAt(names, i)
      p == Retargeted(page, edit, ns)
  IN  /\ IsOpen /\ i \in 1..Len(names)
      /\ names' = ns
      /\ files' = [files EXCEPT ![names[i]] = NoFile]
      /\ IF ns = <<>> THEN cur' = 0 /\ page' = page
         ELSE IF i # cur THEN cur' = cur /\ page' = p
         ELSE /\ cur' = IF i > Len(ns) THEN Len(ns) ELSE i
              /\ page' \in Opened(p, edit, ns, cur', files')
      /\ Counted
      /\ UNCHANGED edit

\* config_name_changed: the file is renamed, the list of targets is not.
Rename(n) ==
  /\ IsOpen /\ n \in Range(NewNames) /\ ~Contains(names, n)
  /\ names' = [names EXCEPT ![cur] = n]
  /\ files' = IF files[names[cur]] = NoFile THEN files
              ELSE [files EXCEPT ![n] = files[names[cur]], ![names[cur]] = NoFile]
  /\ Counted
  /\ UNCHANGED <<page, edit, cur>>

\* Showing the button rc on p changes no list, box or radio button: no
\* callback stores the fields half way.
Quiet(p, rc) == \A q \in Refresh(p, rc, FALSE) : q \in Refresh(p, rc, TRUE)

\* It is so when a configuration is opened, or a button added, that does not
\* have the raw code being edited, or has it with the settings the fields show.
OpensQuietly(i, p, ns, f) ==
  Quiet([Cleared(p) EXCEPT !.table = Parse(Lines(f, ns[i])).table], edit)
DeletesQuietly(i) ==
  i = cur /\ names' # <<>> => OpensQuietly(cur', Retargeted(page, edit, names'), names', files')

\* Choosing an event type makes its fields sensitive only if it is stored, and
\* config_update_button_properties refuses it while one of these is wrong.
Refused(w) == ~IsNumber(w.delay) \/ ~IsNumber(w.uid) \/ w.keycode \notin Keycodes

\* The user's steps but for three traps ...
CarefulNext ==
  \/ \E r \in 1..Len(page.rows) : Select(r)
  \/ \E f \in Fields : \E v \in Offers(f) :
       Type(f, v) \/ ((f = "evtype" => ~Refused(page.w)) /\ Click(f, v))
  \/ page.sel # 0 /\ DeleteButton
  \/ \E rc \in Rawcodes, n \in Typable["name"] :
       Quiet(WithButton(page, rc, n), edit) /\ Detect(rc, n)
  \/ Save
  \/ \E i \in 1..Len(names) : \/ OpensQuietly(i, page, names, Saved(files)) /\ Open(i)
                              \/ DeleteConfig(i) /\ DeletesQuietly(i)
  \/ \E copy \in BOOLEAN : New(copy)
  \/ \E n \in Range(NewNames) : Rename(n)

\* ... and these: an event type chosen while a field is wrong, a button deleted
\* while no row is selected, and a refresh that runs the callbacks.
Trapped ==
  \/ \E v \in Offers("evtype") : Refused(page.w) /\ Click("evtype", v)
  \/ page.sel = 0 /\ DeleteButton
  \/ \E rc \in Rawcodes, n \in Typable["name"] :
       ~Quiet(WithButton(page, rc, n), edit) /\ Detect(rc, n)
  \/ \E i \in 1..Len(names) : \/ ~OpensQuietly(i, page, names, Saved(files)) /\ Open(i)
                              \/ DeleteConfig(i) /\ ~DeletesQuietly(i)

Next == \/ CarefulNext /\ UNCHANGED careful
        \/ Trapped /\ careful' = FALSE

Spec == Init /\ [][Next]_vars

\* Any user, up to and including the first step into a trap.
CarefulSpec == Init /\ [][careful /\ Next]_vars
-----------------------------------------------------------------------------
(* Properties.  The invariants are those of a user who keeps off the traps. *)

\* The tree shows the buttons of the table, with their values (a target the
\* list does not have is forgotten in the table only): tree_buttons_* is called
\* wherever the table changes.
ShowsAs(b, r) ==
  /\ r.rawcode = b.rawcode
  /\ b.set \in {r.set, [r.set EXCEPT !.switch_name = NONE]}
TreeShowsTable ==
  careful =>
    /\ Len(page.rows) = Len(page.table)
    /\ \A i \in 1..Len(page.rows) : ShowsAs(page.table[i], page.rows[i])

\* The row that looks selected is the button the fields edit, so that what is
\* typed and what Delete removes belong to it.
SelectedIsEdited ==
  page.sel # 0 => page.sel <= Len(page.rows) /\ Selected(page) = edit

\* The fields show the settings of the edited button, which is the one selected,
\* unless one of them holds a value that config_update_button_properties refuses.
FieldsShowButton ==
  careful =>
    /\ SelectedIsEdited
    /\ Known(page, edit) /\ ~Refused(page.w) =>
      LET s == SetOf(page, edit)
          w == Stored(page.w)
      IN  /\ page.sens = s.evtype
          /\ \A f \in {"enabled", "delay", "uid", "evtype"} : w[f] = s[f]
          /\ w.name = OrEmpty(s.name) /\ w.command = OrEmpty(s.command)
          /\ w.keycode = OrNone(s.keycode) /\ w.mod = OrNone(s.mod)
          /\ s.switch_type # CONFIG_SWITCH_NONE => w.switch_type = s.switch_type
          /\ s.switch_name # NONE => w.switch_name = s.switch_name

\* Whatever the editor has made of the table, saving and opening it again gives
\* every button back (config_file_save and config_file_parse).
TableReadsBack == careful => ReadsBack(NewMouse, page.table)

\* Selecting a row is looking, not editing: no button changes but for a target
\* that is no configuration (block_update).
SelectKeepsValues ==
  [][UNCHANGED <<cur, edits>> =>
       /\ Len(page'.table) = Len(page.table)
       /\ \A i \in 1..Len(page.table) : ShowsAs(page'.table[i], page.table[i])]_vars

\* Opening a configuration, with any button in the editor and any of its fields
\* changed or refused, gives the table that configuration's buttons in their
\* order and, but for one, with the settings its file has.  The one is the button
\* of the raw code that is being edited: while the fields are filled their
\* callbacks store into it what they still show (config_refresh_all_fields has
\* no block_update).  It has its settings too if they showed them already.
OpenShowsFile ==
  [][cur' # cur /\ UNCHANGED edits =>
       \A t \in {Parse(Lines(files', names'[cur'])).table} :
         /\ Len(page'.table) = Len(t)
         /\ \A k \in 1..Len(t) :
              /\ page'.table[k].rawcode = t[k].rawcode
              /\ t[k].rawcode # edit \/ careful' => ShowsAs(page'.table[k], t[k])]_vars
=============================================================================
