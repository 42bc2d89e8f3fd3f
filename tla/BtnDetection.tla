---------------------------- MODULE BtnDetection ----------------------------
(***************************************************************************)
(* Button detection as the parent process and its window see it: the press *)
(* counting of btnd.c, the window's buttons (callbacks_btnd.c), the dialog *)
(* that opens when counting fails (dialog_btnd.c) and the button table     *)
(* they add to (buttons.c).  How a report gets here is not this module's   *)
(* business: while a detection runs, any code may be reported at any time. *)
(*                                                                         *)
(* window     the window that is shown: WIN_CONFIG or WIN_BTND             *)
(* dialog     whether WIN_DIALOG_BTND is open (it is modal)                *)
(* detecting  btnd_detecting(): detecting == 1 and pid_btnd != -1          *)
(* cur, num, total   cur_rawcode, num_pressed, total_num_pressed           *)
(* rcs        rawcodes.c's table: the codes seen and their presses         *)
(* addOn      whether BTN_ADD_BTND is sensitive                            *)
(* label      what BTN_CONTROL_BTND says it does: "start" or "stop"        *)
(* buttons    for each code: no button has it ("none"), one that was there *)
(*            ("old"), or one with the "new" flag set                      *)
(*                                                                         *)
(* Four history variables no code reads: presses counts the presses of     *)
(* each code since the detection began, votes those of them that counted   *)
(* for it (no button had the code when they came); settled is the code the *)
(* running window announced as detected, if any; before is the button      *)
(* table as the window was opened on it.                                   *)
(***************************************************************************)
EXTENDS RawCodes

CONSTANTS
  Codes,            \* the rawcodes a mouse sends
  DetectionPresses, \* BTND_DETECTION_PRESSES
  MaxPresses,       \* MAX_NUM_PRESSES
  ForkFails         \* whether fork() may fail

NoCode == 0

ASSUME CodesOK == Codes \subseteq Int /\ NoCode \notin Codes
\* btnd.h has 5 presses, btnd.c a limit of 12.
ASSUME PressesOK ==
  /\ DetectionPresses \in Nat \ {0}
  /\ MaxPresses \in Nat /\ MaxPresses > DetectionPresses
  /\ MaxPresses <= 3 * DetectionPresses
ASSUME ForkFailsOK == ForkFails \in BOOLEAN

AnyCode == Codes \cup {NoCode}

VARIABLES window, dialog, detecting, cur, num, total, rcs, addOn, label,
          buttons, presses, votes, settled, before

counters == <<cur, num, total, rcs, presses, votes>>
widgets  == <<addOn, label>>
vars == <<window, dialog, detecting, counters, widgets, buttons, settled, before>>

Exists(c) == buttons[c] # "none"

\* init_btnd and btnd_enable_save: what they do to the two buttons.
InitBtnd   == addOn' = FALSE /\ label' = "start" /\ settled' = NoCode
EnableSave(c) == addOn' = TRUE /\ label' = "start" /\ settled' = c

Init ==
  /\ window = "config" /\ dialog = FALSE /\ detecting = FALSE
  /\ cur = NoCode /\ num = 0 /\ total = 0 /\ rcs = <<>>
  /\ addOn = FALSE /\ label = "start"
  /\ buttons \in [AnyCode -> {"none", "old"}] /\ buttons[NoCode] = "none"
  /\ presses = [c \in Codes |-> 0] /\ votes = [c \in Codes |-> 0]
  /\ settled = NoCode
  /\ before = buttons
-----------------------------------------------------------------------------
\* btn_detect_config_clicked, when the mouse is known.
OpenWindow ==
  /\ window = "config" /\ ~dialog
  /\ window' = "btnd"
  /\ InitBtnd
  /\ before' = buttons
  /\ UNCHANGED <<dialog, detecting, counters, buttons>>

\* What happens to the table in the main window: a button is deleted, or
\* another configuration is opened that has one more or one less.
EditButtons(c) ==
  /\ window = "config" /\ ~dialog
  /\ buttons' = [buttons EXCEPT ![c] = IF @ = "none" THEN "old" ELSE "none"]
  /\ UNCHANGED <<window, dialog, detecting, counters, widgets, settled, before>>

Usable == window = "btnd" /\ ~dialog

\* btn_control_btnd_clicked on the way to btnd_start.
ResetCountersOnly ==  \* the table of codes is not freed
  /\ cur' = NoCode /\ num' = 0 /\ total' = 0 /\ UNCHANGED rcs
  /\ presses' = [c \in Codes |-> 0] /\ votes' = [c \in Codes |-> 0]
ResetCounters ==
  /\ cur' = NoCode /\ num' = 0 /\ total' = 0 /\ rcs' = <<>>
  /\ presses' = [c \in Codes |-> 0] /\ votes' = [c \in Codes |-> 0]

Start ==
  /\ Usable /\ ~detecting
  /\ ResetCounters
  /\ detecting' = TRUE
  /\ label' = "stop"
  /\ settled' = NoCode
  /\ UNCHANGED <<window, dialog, addOn, buttons, before>>

\* fork() failed: btnd_start calls init_btnd, its caller sets the label.
StartFails ==
  /\ ForkFails
  /\ Usable /\ ~detecting
  /\ ResetCounters
  /\ addOn' = FALSE
  /\ label' = "stop"
  /\ settled' = NoCode
  /\ UNCHANGED <<window, dialog, detecting, buttons, before>>

\* btn_control_btnd_clicked while detecting.
Stop ==
  /\ Usable /\ detecting
  /\ detecting' = FALSE
  /\ InitBtnd
  /\ UNCHANGED <<window, dialog, counters, buttons, before>>

\* btnd_check_start_timer finds that the detection it waits for has been ended.
LateTimer ==
  /\ ~detecting
  /\ InitBtnd
  /\ UNCHANGED <<window, dialog, detecting, counters, buttons, before>>
-----------------------------------------------------------------------------
(* btnd_handle_button_report. *)

\* The press that reaches the limit opens the dialog, whatever the count says.
Exhaust(c) ==
  /\ total + 1 >= MaxPresses
  /\ detecting' = FALSE /\ dialog' = TRUE
  /\ UNCHANGED <<cur, num, votes, widgets, settled>>

\* A code some button has counts towards the limit only.
Ignore(c) ==
  /\ total + 1 < MaxPresses
  /\ Exists(c)
  /\ UNCHANGED <<detecting, dialog, cur, num, votes, widgets, settled>>

\* The leading code after a press of c, and its lead.
NoLead == cur = NoCode \/ num <= 0
Leader(c) == IF NoLead THEN c ELSE cur
LeadKept(c) == IF NoLead THEN 1 ELSE IF c = cur THEN num + 1 ELSE num
Lead(c) == IF NoLead THEN 1 ELSE IF c = cur THEN num + 1 ELSE num - 1

Count(c) ==
  /\ total + 1 < MaxPresses
  /\ ~Exists(c)
  /\ cur' = Leader(c)
  /\ num' = Lead(c)
  /\ votes' = [votes EXCEPT ![c] = @ + 1]
  /\ \/ num' = DetectionPresses /\ detecting' = FALSE /\ EnableSave(cur')
     \/ num' # DetectionPresses /\ UNCHANGED <<detecting, widgets, settled>>
  /\ UNCHANGED dialog

Report(c) ==
  /\ detecting
  /\ total' = total + 1
  /\ rcs' = rawcodes_report(rcs, c)
  /\ presses' = [presses EXCEPT ![c] = @ + 1]
  /\ Exhaust(c) \/ Ignore(c) \/ Count(c)
  /\ UNCHANGED <<window, buttons, before>>
-----------------------------------------------------------------------------
\* btn_add_btnd_clicked, with a name that is neither empty nor taken:
\* btnd_save_button takes the button that has the code, or adds one.
WithButtonOld == [buttons EXCEPT ![cur] = "old"]
WithButton == [buttons EXCEPT ![cur] = "new"]

Add ==
  /\ Usable /\ addOn
  /\ buttons' = WithButton
  /\ InitBtnd
  /\ UNCHANGED <<window, dialog, detecting, counters, before>>

\* btn_ok_btnd_clicked: buttons_set_old_all, and the window closes.
Ok ==
  /\ Usable
  /\ buttons' = [c \in AnyCode |-> IF buttons[c] = "new" THEN "old" ELSE buttons[c]]
  /\ window' = "config"
  /\ UNCHANGED <<dialog, detecting, counters, widgets, settled, before>>

\* btn_cancel_btnd_clicked: buttons_remove_new, and the window closes.
Cancel ==
  /\ Usable
  /\ detecting' = FALSE
  /\ buttons' = [c \in AnyCode |-> IF buttons[c] = "new" THEN "none" ELSE buttons[c]]
  /\ window' = "config"
  /\ UNCHANGED <<dialog, counters, widgets, settled, before>>

\* dialog_btnd_add_rawcode: what the dialog shows.  It is modal: what its rows were
\* made from when it opened stays until it closes.
DialogRows ==
  LET codes == dialog_btnd_populate(rcs)
  IN [i \in DOMAIN codes |-> [code |-> codes[i].code, clicks |-> codes[i].pressed,
                              detected |-> Exists(codes[i].code)]]

\* dialog_btnd_get_rawcode refuses the codes a button has.
OfferedAny(c) == \E i \in DOMAIN DialogRows : DialogRows[i].code = c
Offered(c) == \E i \in DOMAIN DialogRows : DialogRows[i].code = c /\ ~DialogRows[i].detected

DialogOk(c) ==
  /\ dialog /\ Offered(c)
  /\ dialog' = FALSE
  /\ cur' = c
  /\ EnableSave(c)
  /\ UNCHANGED <<window, detecting, num, total, rcs, presses, votes, buttons, before>>

DialogCancel ==
  /\ dialog
  /\ dialog' = FALSE
  /\ InitBtnd
  /\ UNCHANGED <<window, detecting, counters, buttons, before>>
-----------------------------------------------------------------------------
Next ==
  \/ OpenWindow \/ Start \/ StartFails \/ Stop \/ LateTimer
  \/ Add \/ Ok \/ Cancel \/ DialogCancel
  \/ \E c \in AnyCode : EditButtons(c)
  \/ \E c \in Codes : Report(c) \/ DialogOk(c)

Spec == Init /\ [][Next]_vars
-----------------------------------------------------------------------------
(* Properties. *)

\* What rawcodes.c's table can be.
Entry == [code : Codes, pressed : Nat]
Table == Seq(Entry)

TypeOK ==
  /\ window \in {"config", "btnd"} /\ label \in {"start", "stop"}
  /\ dialog \in BOOLEAN /\ detecting \in BOOLEAN /\ addOn \in BOOLEAN
  /\ cur \in AnyCode /\ settled \in AnyCode
  /\ num \in Nat /\ total \in Nat
  /\ rcs \in Table
  /\ presses \in [Codes -> Nat] /\ votes \in [Codes -> Nat]
  /\ buttons \in [AnyCode -> {"none", "old", "new"}]
  /\ before \in [AnyCode -> {"none", "old", "new"}]

\* The code a count settles on was pressed DetectionPresses times at least, and
\* more often than any other that could have been added: that the counter is
\* one lead, not one count per code, never lets another code win.
VoteIsClear ==
  num = DetectionPresses =>
    /\ cur \in Codes
    /\ votes[cur] >= DetectionPresses
    /\ \A c \in Codes \ {cur} : votes[c] < votes[cur]

\* rawcodes.c's table holds every code pressed since the detection began once, with
\* the number of its presses.
TableCounts ==
  /\ \A i, j \in DOMAIN rcs : rcs[i].code = rcs[j].code => i = j
  /\ \A i \in DOMAIN rcs : rcs[i].pressed = presses[rcs[i].code]
  /\ \A c \in Codes : presses[c] > 0 => Found(rcs, c)

\* When no code settles, the dialog has every code that was pressed in this detection
\* (and none of an earlier one) in one row, with its presses, the most pressed
\* first, and says of each whether a button has it already.
DialogShowsPresses ==
  dialog =>
    LET rows == DialogRows
    IN /\ {rows[i].code : i \in DOMAIN rows} = {c \in Codes : presses[c] > 0}
       /\ \A i \in DOMAIN rows :
            /\ rows[i].clicks = presses[rows[i].code]
            /\ rows[i].detected = Exists(rows[i].code)
            /\ \A j \in 1..(i - 1) :
                 rows[j].code # rows[i].code /\ rows[j].clicks >= rows[i].clicks

\* Why VoteIsClear holds.  While a count runs, and where one ended with a winner, every
\* press that was not for the leader either took one off its lead or was made
\* up for by one that was: no code has more than half of the presses, give or
\* take the lead.  The limit on the presses does the rest.
LeadBounds ==
  /\ num > 0 => cur \in Codes /\ num <= votes[cur]
  /\ \A c \in Codes :
       IF c = cur THEN 2 * votes[c] <= total + num ELSE 2 * votes[c] + num <= total

VoteInv ==
  /\ num <= DetectionPresses
  /\ dialog => ~detecting /\ num < DetectionPresses
  /\ detecting => num < DetectionPresses /\ total < MaxPresses
  /\ num = DetectionPresses => total < MaxPresses
  /\ detecting \/ num = DetectionPresses => LeadBounds
=============================================================================
