----------------------------- MODULE BtnSession -----------------------------
(***************************************************************************)
(* Button detection with its processes: the parent of BtnDetection, the    *)
(* children it forks to read the mouse (btnd_detect in btnd.c), the pipes  *)
(* between them (ip_pipe.c) and the timers that read the pipes (timers.c). *)
(*                                                                         *)
(* pid      pid_btnd: the child the parent reads from, 0 for -1            *)
(* linking  the child whose IP_ACK the parent waits for, 0 if none: the    *)
(*          parent does nothing else meanwhile                             *)
(* forks    how many children there have been; they are 1 .. forks         *)
(* phase    what each child is at                                          *)
(* up       for each child, what it wrote and the parent has not read      *)
(* stopped  the children with an IP_STOP_BTND in their pipe                *)
(* struck   a SIGCHLD came while the parent waited for the IP_ACK          *)
(* waiting  how many btnd_check_start_timer there are                      *)
(* polling  how many btnd_check_button_report_timer there are              *)
(* calm     never changes: whether this is a behaviour in which children   *)
(*          are quick and do not die, messages do not join, and the user   *)
(*          is patient                                                     *)
(***************************************************************************)
EXTENDS BtnDetection, Sequences

CONSTANTS
  MaxForks,   \* bound: how often a child is forked
  MaxQueue    \* bound: messages in a pipe

ASSUME SessionOK == MaxForks \in Nat /\ MaxQueue \in Nat \ {0}

VARIABLES pid, linking, forks, phase, up, stopped, struck, waiting, polling, calm

link   == <<linking, forks, struck>>
child  == <<phase, up, stopped>>
timers == <<waiting, polling>>
svars  == <<vars, pid, link, child, timers>>

Children == 1..MaxForks
ACK == [header |-> "ACK", code |-> NoCode]
START == [header |-> "START", code |-> NoCode]
REPORT(c) == [header |-> "REPORT", code |-> c]
Messages == {ACK, START} \cup {REPORT(c) : c \in Codes}

SInit ==
  /\ Init
  /\ pid = 0 /\ linking = 0 /\ forks = 0 /\ struck = FALSE
  /\ phase = [k \in Children |-> "none"]
  /\ up = [k \in Children |-> <<>>]
  /\ stopped = {}
  /\ waiting = 0 /\ polling = 0
  /\ calm \in BOOLEAN
-----------------------------------------------------------------------------
(* The pipes.  read() takes all that is there (a pipe never holds the 512   *)
(* bytes it asks for), and only the first message in it is looked at.       *)

Writes(k, m) == Len(up[k]) < MaxQueue /\ up' = [up EXCEPT ![k] = Append(@, m)]
Reads(k) == up' = [up EXCEPT ![k] = <<>>]
Has(k, h) == up[k] # <<>> /\ Head(up[k]).header = h

\* btnd_stop: a detection that is running is told to end.
StopsNone == UNCHANGED stopped /\ pid' = 0
Stops ==
  /\ stopped' = IF detecting THEN stopped \cup {pid} ELSE stopped
  /\ pid' = 0

\* What an action of BtnDetection that may call btnd_stop does to the child.
StopsIf(b) == IF b THEN Stops ELSE UNCHANGED <<stopped, pid>>
-----------------------------------------------------------------------------
(* The parent: btnd_start, threads_fork_with_pipe, ip_pipe_link_parent. *)

Idle == linking = 0

Fork ==
  /\ Idle /\ Usable /\ ~detecting
  /\ forks < MaxForks
  /\ forks' = forks + 1 /\ linking' = forks + 1 /\ struck' = FALSE
  /\ phase' = [phase EXCEPT ![forks + 1] = "forked"]
  /\ pid' = 0
  /\ UNCHANGED <<vars, up, stopped, timers>>

LinkedUntimed ==
  /\ linking # 0 /\ Has(linking, "ACK")
  /\ Start
  /\ Reads(linking)
  /\ pid' = linking /\ linking' = 0
  /\ UNCHANGED <<forks, struck, phase, stopped, timers>>
\* The IP_ACK is there, perhaps with what the child wrote after it.
Linked ==
  /\ linking # 0 /\ Has(linking, "ACK")
  /\ Start
  /\ Reads(linking)
  /\ pid' = linking /\ linking' = 0
  /\ waiting' = waiting + 1
  /\ UNCHANGED <<forks, struck, phase, stopped, polling>>

NotLinkedRuns ==
  /\ linking # 0 /\ up[linking] = <<>>
  /\ ~calm \/ struck
  /\ Start
  /\ linking' = 0
  /\ UNCHANGED <<pid, forks, struck, child, timers>>
\* It is not, for 2 s or until a signal interrupts the wait: btnd_start gives
\* up, the child goes on.
NotLinked ==
  /\ linking # 0 /\ up[linking] = <<>>
  /\ ~calm \/ struck
  /\ StartFails
  /\ linking' = 0
  /\ UNCHANGED <<pid, forks, struck, child, timers>>

\* The buttons of the window and the dialog.
Clicks ==
  /\ Idle
  /\ \/ Stop /\ Stops
     \/ Cancel /\ StopsIf(detecting)
     \/ /\ \/ OpenWindow \/ Add \/ Ok \/ DialogCancel
           \/ \E c \in AnyCode : EditButtons(c)
           \/ \E c \in Codes : DialogOk(c)
        /\ UNCHANGED <<pid, stopped>>
  /\ UNCHANGED <<link, phase, up, timers>>
-----------------------------------------------------------------------------
(* The timers (timers.c). *)

\* btnd_check_start_timer: nothing is detected any more,
StartTimerLate ==
  /\ Idle /\ waiting > 0
  /\ LateTimer
  /\ waiting' = waiting - 1
  /\ UNCHANGED <<pid, link, child, polling>>

\* or the child has begun,
StartTimerStarts ==
  /\ Idle /\ waiting > 0 /\ detecting
  /\ Has(pid, "START")
  /\ Reads(pid)
  /\ waiting' = waiting - 1 /\ polling' = polling + 1
  /\ UNCHANGED <<vars, pid, link, phase, stopped>>

\* or has written something else, which is dropped.
StartTimerDrops ==
  /\ Idle /\ waiting > 0 /\ detecting
  /\ up[pid] # <<>> /\ ~Has(pid, "START")
  /\ Reads(pid)
  /\ UNCHANGED <<vars, pid, link, phase, stopped, timers>>

\* btnd_check_button_report_timer and btnd_check_button_report.
ReportTimerEnds ==
  /\ Idle /\ polling > 0 /\ ~detecting
  /\ polling' = polling - 1
  /\ UNCHANGED <<vars, pid, link, child, waiting>>

ReportTimerReports ==
  /\ Idle /\ polling > 0 /\ detecting
  /\ Has(pid, "REPORT")
  /\ Report(Head(up[pid]).code)
  /\ Reads(pid)
  /\ StopsIf(~detecting')
  /\ UNCHANGED <<link, phase, timers>>

ReportTimerDrops ==
  /\ Idle /\ polling > 0 /\ detecting
  /\ up[pid] # <<>> /\ ~Has(pid, "REPORT")
  /\ Reads(pid)
  /\ UNCHANGED <<vars, pid, link, phase, stopped, timers>>

Ticks == \/ StartTimerLate \/ StartTimerStarts \/ StartTimerDrops
         \/ ReportTimerEnds \/ ReportTimerReports \/ ReportTimerDrops
-----------------------------------------------------------------------------
(* A child: ip_pipe_link_child, then btnd_detect. *)

ChildAcks(k) ==
  /\ phase[k] = "forked"
  /\ phase' = [phase EXCEPT ![k] = "linked"]
  /\ Writes(k, ACK)
  /\ UNCHANGED <<vars, pid, link, stopped, timers>>

\* The child sleeps 1 ms before it goes on, for the parent to read the IP_ACK.
ChildStarts(k) ==
  /\ phase[k] = "linked"
  /\ ~calm \/ up[k] = <<>>
  /\ phase' = [phase EXCEPT ![k] = "reading"]
  /\ Writes(k, START)
  /\ UNCHANGED <<vars, pid, link, stopped, timers>>

\* A press of c reaches the child's descriptor.
ChildReports(k, c) ==
  /\ phase[k] = "reading"
  /\ Writes(k, REPORT(c))
  /\ UNCHANGED <<vars, pid, link, phase, stopped, timers>>

\* The child is gone; the parent gets a SIGCHLD.
Exits(k) ==
  /\ phase' = [phase EXCEPT ![k] = "gone"]
  /\ struck' = (struck \/ (linking \notin {0, k} /\ up[linking] = <<>>))
  /\ UNCHANGED <<vars, pid, linking, forks, up, stopped, timers>>

ChildStopsRead(k) ==
  phase[k] = "reading" /\ k \in stopped /\ up[k] = <<>> /\ Exits(k)
ChildStops(k) == phase[k] = "reading" /\ k \in stopped /\ Exits(k)

ChildDies(k) == ~calm /\ phase[k] = "reading" /\ Exits(k)

Steps ==
  \/ Fork \/ Linked \/ NotLinked \/ Clicks \/ Ticks
  \/ \E k \in Children :
       \/ ChildAcks(k) \/ ChildStarts(k) \/ ChildStops(k) \/ ChildDies(k)
       \/ \E c \in Codes : ChildReports(k, c)

\* What a patient user does not do: start again before the last detection has
\* wound down (its timers have seen that it ended, its child is gone) or before
\* what it detected was added, and press OK while one runs.
Hasty ==
  \/ Fork /\ \/ waiting + polling > 0 \/ addOn
             \/ \E k \in Children : phase[k] \notin {"none", "gone"}
  \/ Ok /\ detecting

SNext == Steps /\ (calm => ~Hasty) /\ UNCHANGED calm

SSpec == SInit /\ [][SNext]_<<svars, calm>>

\* The kernel runs the children, GLib runs the timers, and the user presses
\* buttons of the mouse while a detection runs.
Presses(k) == \E c \in Codes : ChildReports(k, c)
Fairness ==
  /\ WF_svars(Linked)
  /\ WF_svars(StartTimerLate) /\ WF_svars(StartTimerStarts) /\ WF_svars(StartTimerDrops)
  /\ WF_svars(ReportTimerEnds)
  /\ WF_svars(ReportTimerReports) /\ WF_svars(ReportTimerDrops)
  /\ \A k \in Children : /\ WF_svars(ChildAcks(k)) /\ WF_svars(ChildStarts(k))
                         /\ WF_svars(ChildStops(k)) /\ WF_svars(Presses(k))
FairSSpec == SSpec /\ Fairness
-----------------------------------------------------------------------------
(* Properties. *)

\* A detection that runs has a child that reads the mouse, or will; nobody told
\* that child to stop.
DetectionHasChild ==
  detecting => /\ pid \in Children \ stopped
               /\ phase[pid] \in {"linked", "reading"} \/ ~calm

\* Of all the processes that hold the mouse's device open, one at most has not
\* been told to stop, and the parent knows it.
OneListener ==
  calm => \A k \in Children :
    phase[k] \in {"forked", "linked", "reading"} /\ k \notin stopped
      => k \in {pid, linking}

\* Whoever keeps pressing gets an answer, from pipe to progress bar.
PressesCount == calm /\ detecting ~> ~detecting

\* What is told to stop does.
StoppedEnds == \A k \in Children : k \in stopped ~> phase[k] = "gone"

\* Add is offered for the code that was announced, which no button has.
AddIsForDetected ==
  calm /\ addOn /\ window = "btnd" =>
    /\ ~detecting
    /\ cur = settled /\ cur # NoCode
    /\ ~Exists(cur)

\* Cancel leaves the button table as the window found it, whatever was added to
\* it meanwhile and however many detections there were.
CancelDiscards == [][calm /\ Cancel => buttons' = before]_svars
=============================================================================
