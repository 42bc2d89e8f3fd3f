--------------------------- MODULE MCButtonEditor ---------------------------
(* A small instance of ButtonEditor: two configurations, two buttons, and   *)
(* for every field a value that is refused or read back differently.        *)
EXTENDS ButtonEditor

A == <<"A">>
B == <<"B">>
C == <<"C">>
First == <<A, B>>
New1  == <<C>>

Ctrl == <<"ctrl">>
Key  == <<"KEY">>
Keys == {NONE, Key}
Modifiers == {NONE, Ctrl}

Inputs ==
  [f \in Fields |->
     CASE f = "enabled"     -> BOOLEAN
       [] f = "name"        -> {<<"a", Blank, "b">>}
       [] f = "delay"       -> {Half + 1}
       [] f = "uid"         -> {Junk}
       [] f = "keycode"     -> {Empty, <<"KYE">>}
       [] f = "mod"         -> {Ctrl}
       [] f = "command"     -> {<<"ls">>}
       [] f = "evtype"      -> EVTYPE_KEY..EVTYPE_COMMAND
       [] f = "switch_type" -> {CONFIG_SWITCH_PREV, CONFIG_SWITCH_TO}
       [] OTHER             -> {}]

Button(rc, name) == [NewButton(rc) EXCEPT !.set.name = name]
Switch(rc) ==
  [rawcode |-> rc,
   set |-> [NewSettings EXCEPT !.name = <<"s">>, !.evtype = EVTYPE_CONFIG,
              !.switch_type = CONFIG_SWITCH_TO, !.switch_name = B]]
Shell(rc) ==
  [rawcode |-> rc,
   set |-> [NewSettings EXCEPT !.name = <<"x">>, !.enabled = TRUE,
              !.evtype = EVTYPE_COMMAND, !.command = <<"cmd">>]]

Tables == {<<Button(11, <<"k">>), Switch(12)>>, <<Shell(12), Button(11, <<"k">>)>>}
=============================================================================
