--------------------------- MODULE MouseDetection ---------------------------
(***************************************************************************)
(* Mouse detection: the wizard's first window (callbacks_moused.c), the    *)
(* parent's side (moused.c, timers.c, handlers.c), and the children it     *)
(* forks to watch all input devices.  A child reports a device once, when  *)
(* it first moves, and stops watching it.                                  *)
(*                                                                         *)
(* window     "config", "moused", "btnd", or "gone": the program has ended *)
(* detecting  moused_detecting()                                           *)
(* pid        pid_moused; 0 for -1                                         *)
(* handlers   handlers[0 .. num_handlers-1] of the parent, as devices      *)
(* forward    whether BTN_FORWARD_MOUSED (and BTN_UNDO_MOUSED) is          *)
(*            sensitive                                                    *)
(* label      what BTN_CONTROL_MOUSED says it does                         *)
(* mouse      the IDs in mouse.c, the open configuration's                 *)
(* forks, phase, up, stopped, waiting, polling: as in BtnSession           *)
(* fresh      the devices each child watches (set_fd = 1)                  *)
(*                                                                         *)
(* Two history variables no code reads: early has the devices each child   *)
(* reported before its IP_START_MOUSED, before is the mouse the wizard was *)
(* opened with (outside of it, the mouse).                                 *)
(*                                                                         *)
(* What never changes, chosen at the start: the devices there are, first,  *)
(* the one that is event0, and calm, whether this is a behaviour in which  *)
(* messages do not join in a pipe and the user is patient.                 *)
(***************************************************************************)
EXTENDS Integers, Sequences, FiniteSets, SequencesExt

CONSTANTS
  Devices,   \* the event devices of the machine
  Mice,      \* vendor and product IDs, as one value
  IdsOf,     \* IdsOf[d]: the IDs of d
  NoMouse,   \* IDs 0x0000
  Casts,     \* bound: the machines and users, [devices, first, calm]
  MaxForks   \* bound: how often a child is forked

ASSUME DetectionOK ==
  /\ IsFiniteSet(Devices) /\ IdsOf \in [Devices -> Mice] /\ NoMouse \notin Mice
  /\ \A c \in Casts : c.devices \subseteq Devices /\ c.calm \in BOOLEAN
  /\ MaxForks \in Nat

VARIABLES window, detecting, pid, handlers, forward, label, mouse,
          forks, phase, fresh, up, stopped, waiting, polling, early, before,
          devices, first, calm

widgets == <<window, forward, label>>
child   == <<forks, phase, fresh, up, early>>
timers  == <<waiting, polling>>
vars    == <<widgets, detecting, pid, handlers, mouse, child, stopped, timers, before>>
cast    == <<devices, first, calm>>

Children == 1..MaxForks
START == [header |-> "START"]
REPORT(d) == [header |-> "REPORT", device |-> d]
Messages == {START} \cup {REPORT(d) : d \in Devices}

Init ==
  /\ \E c \in Casts : devices = c.devices /\ first = c.first /\ calm = c.calm
  /\ window = "config" /\ forward = FALSE /\ label = "start"
  /\ detecting = FALSE /\ pid = 0 /\ handlers = <<>>
  /\ mouse \in Mice \cup {NoMouse} /\ before = mouse
  /\ forks = 0
  /\ phase = [k \in Children |-> "none"]
  /\ fresh = [k \in Children |-> {}] /\ early = [k \in Children |-> {}]
  /\ up = [k \in Children |-> <<>>]
  /\ stopped = {}
  /\ waiting = 0 /\ polling = 0
-----------------------------------------------------------------------------
Reads(k) == up' = [up EXCEPT ![k] = <<>>]
Has(k, h) == up[k] # <<>> /\ Head(up[k]).header = h

\* init_moused: what it does to the buttons.
InitMoused == forward' = FALSE /\ label' = "start"

\* moused_stop.
Stops ==
  /\ detecting' = FALSE
  /\ stopped' = IF detecting THEN stopped \cup {pid} ELSE stopped

\* handlers_add_by_ids finds these.
OfMouse(m) == {d \in devices : IdsOf[d] = m}
-----------------------------------------------------------------------------
(* The windows. *)

\* Another configuration is opened, with another mouse or none.
OpenConfig(m) ==
  /\ window = "config"
  /\ mouse' = m /\ before' = m
  /\ UNCHANGED <<widgets, detecting, pid, handlers, child, stopped, timers>>

\* btn_detect_config_clicked: straight to the buttons if the mouse is known and
\* plugged in.
Detect ==
  /\ window = "config"
  /\ \/ /\ OfMouse(mouse) # {}
        /\ handlers' = handlers \o SetToSeq(OfMouse(mouse))
        /\ window' = "btnd"
        /\ UNCHANGED <<forward, label>>
     \/ /\ OfMouse(mouse) = {}
        /\ window' = "moused"
        /\ InitMoused
        /\ UNCHANGED handlers
  /\ UNCHANGED <<detecting, pid, mouse, child, stopped, timers, before>>

\* btn_control_moused_clicked and moused_start: the child is forked and linked
\* (it opens its devices then, and settles for 3 s).
Start ==
  /\ window = "moused" /\ ~detecting /\ forks < MaxForks
  /\ handlers' = <<>>
  /\ detecting' = TRUE
  /\ forks' = forks + 1 /\ pid' = forks + 1
  /\ phase' = [phase EXCEPT ![forks + 1] = "settling"]
  /\ fresh' = [fresh EXCEPT ![forks + 1] = devices]
  /\ waiting' = waiting + 1
  /\ label' = "stop"
  /\ UNCHANGED <<window, forward, mouse, up, early, stopped, polling, before>>

\* The process is gone; nobody tells a child that runs.
Exits ==
  /\ window' = "gone" /\ label' = "start" /\ forward' = FALSE
  /\ detecting' = FALSE /\ pid' = 0 /\ handlers' = <<>>
  /\ waiting' = 0 /\ polling' = 0
  /\ UNCHANGED <<mouse, child, stopped, before>>

\* It cannot be forked or linked: exit(1).
StartFails == window = "moused" /\ ~detecting /\ Exits

\* The window manager closes a window, which ends the program.
Close == window # "gone" /\ Exits

Stop ==
  /\ window = "moused" /\ detecting
  /\ Stops
  /\ label' = "start"
  /\ UNCHANGED <<window, forward, pid, handlers, mouse, child, timers, before>>

\* btn_forward_moused_clicked: moused_set_mouse changes nothing without handlers,
\* and the window closes all the same.
Forward ==
  /\ window = "moused" /\ forward
  /\ Stops
  /\ mouse' = IF handlers = <<>> THEN mouse ELSE IdsOf[Head(handlers)]
  /\ window' = "btnd"
  /\ UNCHANGED <<forward, label, pid, handlers, child, timers, before>>

Cancel ==
  /\ window = "moused"
  /\ Stops
  /\ handlers' = <<>>
  /\ window' = "config"
  /\ UNCHANGED <<forward, label, pid, mouse, child, timers, before>>

Undo ==
  /\ window = "moused" /\ forward
  /\ Stops
  /\ handlers' = <<>>
  /\ InitMoused
  /\ UNCHANGED <<window, pid, mouse, child, timers, before>>

\* btn_ok_btnd_clicked and btn_cancel_btnd_clicked; what else they do is in
\* BtnDetection.
LeaveBtnd ==
  /\ window = "btnd"
  /\ handlers' = <<>>
  /\ window' = "config"
  /\ before' = mouse
  /\ UNCHANGED <<forward, label, detecting, pid, mouse, child, stopped, timers>>
BtndOk == LeaveBtnd
BtndCancel == LeaveBtnd
-----------------------------------------------------------------------------
(* The timers: moused_check_start_timer, moused_check_handler_report_timer. *)

StartTimerEnds ==
  /\ waiting > 0 /\ ~detecting
  /\ waiting' = waiting - 1
  /\ UNCHANGED <<widgets, detecting, pid, handlers, mouse, child, stopped, polling, before>>

StartTimerStarts ==
  /\ waiting > 0 /\ detecting
  /\ Has(pid, "START")
  /\ Reads(pid)
  /\ waiting' = waiting - 1 /\ polling' = polling + 1
  /\ UNCHANGED <<widgets, detecting, pid, handlers, mouse, forks, phase, fresh, early, stopped, before>>

StartTimerDropsNone ==
  /\ waiting > 0 /\ detecting
  /\ Has(pid, "REPORT")
  /\ Reads(pid)
  /\ waiting' = waiting - 1 /\ polling' = polling + 1
  /\ handlers' = Append(handlers, Head(up[pid]).device)
  /\ UNCHANGED <<widgets, detecting, pid, mouse, forks, phase, fresh, early, stopped, before>>
StartTimerDrops ==
  /\ waiting > 0 /\ detecting
  /\ Has(pid, "REPORT")
  /\ Reads(pid)
  /\ UNCHANGED <<widgets, detecting, pid, handlers, mouse, forks, phase, fresh, early, stopped, timers, before>>

ReportTimerEnds ==
  /\ polling > 0 /\ ~detecting
  /\ polling' = polling - 1
  /\ UNCHANGED <<widgets, detecting, pid, handlers, mouse, child, stopped, waiting, before>>

ReportTimerDrops ==
  /\ polling > 0 /\ detecting
  /\ Has(pid, "START")
  /\ Reads(pid)
  /\ UNCHANGED <<widgets, detecting, pid, handlers, mouse, forks, phase, fresh, early, stopped, timers, before>>

\* moused_add_handler.  strcat puts the path of event0 one byte too early, over
\* the index that is 0, and the parent opens another file;
AddFirst(d) ==
  /\ d = first
  /\ UNCHANGED <<handlers, widgets, detecting, stopped>>

\* handlers_check_id_conflicts: a device of another mouse ends the detection;
SameMouse(s) == \A i \in 1..Len(s) : IdsOf[s[i]] = IdsOf[s[1]]

AddClashingStill(d) ==
  /\ d # first /\ ~SameMouse(Append(handlers, d))
  /\ handlers' = Append(handlers, d)
  /\ Stops
  /\ UNCHANGED widgets
AddClashing(d) ==
  /\ d # first /\ ~SameMouse(Append(handlers, d))
  /\ handlers' = Append(handlers, d)
  /\ Stops
  /\ InitMoused
  /\ UNCHANGED window

\* one of the same mouse is shown.
AddShownFirst(d) ==
  /\ d # first /\ SameMouse(Append(handlers, d))
  /\ handlers' = IF handlers = <<>> THEN <<d>> ELSE handlers
  /\ forward' = TRUE
  /\ UNCHANGED <<window, label, detecting, stopped>>
AddShown(d) ==
  /\ d # first /\ SameMouse(Append(handlers, d))
  /\ handlers' = Append(handlers, d)
  /\ forward' = TRUE
  /\ UNCHANGED <<window, label, detecting, stopped>>

ReportTimerAdds ==
  /\ polling > 0 /\ detecting
  /\ Has(pid, "REPORT")
  /\ LET d == Head(up[pid]).device IN AddFirst(d) \/ AddClashing(d) \/ AddShown(d)
  /\ Reads(pid)
  /\ UNCHANGED <<pid, mouse, forks, phase, fresh, early, timers, before>>

Ticks == \/ StartTimerEnds \/ StartTimerStarts \/ StartTimerDrops
         \/ ReportTimerEnds \/ ReportTimerDrops \/ ReportTimerAdds
-----------------------------------------------------------------------------
(* A child: moused_detect. *)

Writes(k, m) == (calm => up[k] = <<>>) /\ up' = [up EXCEPT ![k] = Append(@, m)]

\* What moved in the first 3 s is forgotten (moused_clear_handler_buffers).
Settles(k) ==
  /\ phase[k] = "settling"
  /\ phase' = [phase EXCEPT ![k] = "ignoring"]
  /\ UNCHANGED <<widgets, detecting, pid, handlers, mouse, forks, fresh, up, early,
                 stopped, timers, before>>

\* More than 5 s have passed.
Begins(k) ==
  /\ phase[k] = "ignoring"
  /\ phase' = [phase EXCEPT ![k] = "reporting"]
  /\ Writes(k, START)
  /\ UNCHANGED <<widgets, detecting, pid, handlers, mouse, forks, fresh, early,
                 stopped, timers, before>>

\* A device that is watched moves: it is reported, whether IP_START_MOUSED has
\* been sent or not.
Moves(k, d) ==
  /\ phase[k] \in {"ignoring", "reporting"} /\ d \in fresh[k]
  /\ fresh' = [fresh EXCEPT ![k] = @ \ {d}]
  /\ Writes(k, REPORT(d))
  /\ early' = IF phase[k] = "ignoring" THEN [early EXCEPT ![k] = @ \cup {d}] ELSE early
  /\ UNCHANGED <<widgets, detecting, pid, handlers, mouse, forks, phase, stopped,
                 timers, before>>

ChildStops(k) ==
  /\ k \in stopped /\ phase[k] \in {"settling", "ignoring", "reporting"}
  /\ phase' = [phase EXCEPT ![k] = "gone"]
  /\ fresh' = [fresh EXCEPT ![k] = {}] /\ early' = [early EXCEPT ![k] = {}]
  /\ UNCHANGED <<widgets, detecting, pid, handlers, mouse, forks, up, stopped, timers, before>>
-----------------------------------------------------------------------------
Clicks == \/ Detect \/ Start \/ StartFails \/ Stop \/ Forward \/ Cancel \/ Undo
          \/ BtndOk \/ BtndCancel \/ Close
          \/ \E m \in Mice \cup {NoMouse} : OpenConfig(m)

Steps == \/ Clicks \/ Ticks
         \/ \E k \in Children : \/ Settles(k) \/ Begins(k) \/ ChildStops(k)
                                \/ \E d \in Devices : Moves(k, d)

\* A patient user starts a detection when the timers of the last one have ended
\* (they do within 100 ms).
Hasty == Start /\ waiting + polling > 0

Next == Steps /\ (calm => ~Hasty) /\ UNCHANGED cast

\* The timers run, and so do the children.
Fairness ==
  /\ WF_vars(StartTimerEnds) /\ WF_vars(StartTimerStarts) /\ WF_vars(StartTimerDrops)
  /\ WF_vars(ReportTimerEnds) /\ WF_vars(ReportTimerDrops) /\ WF_vars(ReportTimerAdds)
  /\ \A k \in Children : WF_vars(Settles(k)) /\ WF_vars(Begins(k)) /\ WF_vars(ChildStops(k))

Spec == Init /\ [][Next]_<<vars, cast>>
FairSpec == Spec /\ Fairness
-----------------------------------------------------------------------------
(* Properties. *)

\* While Forward is offered, what is listed is one mouse, and so it is for the
\* whole button detection that follows: the list a clash leaves mixed is gone
\* before Forward is sensitive again.
OneMouse ==
  \/ window = "moused" /\ forward
  \/ window = "btnd"
  => SameMouse(handlers)

\* What a running detection lists was reported by its own child, once; and with a
\* patient user by a child that had begun: what moves before the user is told to
\* move the mouse is not taken for it.
ListedIsReported ==
  detecting =>
    /\ \A i \in 1..Len(handlers) :
         handlers[i] \notin fresh[pid] /\ (calm => handlers[i] \notin early[pid])
    /\ \A i, j \in 1..Len(handlers) : handlers[i] = handlers[j] => i = j

\* Of all children, the one of the running detection alone watches every input
\* device: whichever way a detection ends, its child is told.
OneWatcher ==
  window # "gone" =>
    \A k \in Children :
      phase[k] \in {"settling", "ignoring", "reporting"} /\ k \notin stopped
        => detecting /\ k = pid

\* Every device that moves while a detection lists devices is listed, if the
\* detection goes on (all but event0, whose path is spoilt).
MovedIsListed ==
  \A d \in Devices :
    calm /\ detecting /\ phase[pid] = "reporting" /\ d \in devices \ {first}
         /\ d \notin fresh[pid] \cup early[pid]
      ~> ~detecting \/ \E i \in 1..Len(handlers) : handlers[i] = d
=============================================================================
