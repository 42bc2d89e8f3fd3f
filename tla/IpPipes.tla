------------------------------- MODULE IpPipes -------------------------------
(***************************************************************************)
(* The parent's table of pipes (ip_pipe.c) and the children behind them:   *)
(* forking and linking (threads.c), the SIGCHLD handler that notes who has *)
(* died, and the timer that frees the pipes of the dead, one statement at  *)
(* a time, for the handler may run between any two of them.                *)
(*                                                                         *)
(* pipes     ip_pipes[0 .. num_pipes-1]: who reads, who writes             *)
(* alive     the children that run; dead, those no waitpid() has reaped    *)
(* signal    a SIGCHLD is pending                                          *)
(* handled   threads_sigchld is installed, and not SIG_DFL                 *)
(* archiving the parent waits for tar in threads_fork_execv                *)
(* old, num  pids_unhandled, as long as it is allocated, and num_unhandled *)
(* pc, i, j  where ip_pipe_handle_old_pids is, with its indices + 1        *)
(* forks, failed   how many fork()s have worked, and failed                *)
(* quiet     never changes: whether this is a behaviour in which tar is    *)
(*           not run and no SIGCHLD falls into the removal of an entry     *)
(***************************************************************************)
EXTENDS Integers, Sequences, SequencesExt

CONSTANTS
  MaxForks,    \* bound: children forked
  MaxFailed    \* bound: fork()s that fail

ASSUME PipesOK == MaxForks \in Nat /\ MaxFailed \in Nat

NoPid == -1
Parent == 0
Unset == 0      \* what an entry of old holds that nobody wrote, or wrote 0 to
Children == 1..MaxForks

VARIABLES pipes, alive, dead, signal, handled, archiving, old, num, pc, i, j,
          forks, failed, quiet

procs   == <<alive, dead, forks, failed>>
cleanup == <<pc, i, j>>
vars == <<pipes, procs, signal, handled, archiving, old, num, cleanup, quiet>>

Pipe == [to : Children \cup {NoPid, Parent}, from : Children \cup {NoPid, Parent}]

Init ==
  /\ pipes = <<>>
  /\ alive = {} /\ dead = {} /\ signal = FALSE
  /\ handled = TRUE /\ archiving = FALSE
  /\ old = <<>> /\ num = 0
  /\ pc = "idle" /\ i = 1 /\ j = 1
  /\ forks = 0 /\ failed = 0
  /\ quiet \in BOOLEAN

\* ip_pipe_get_bypid_both, one-based; 0 if there is none.
Index(s, to, from) == SelectInSeq(s, LAMBDA p : p.to = to /\ p.from = from)

Idle == pc = "idle" /\ ~archiving
-----------------------------------------------------------------------------
(* threads_fork_with_pipe: two ip_pipe_init, fork, and the link, which takes *)
(* the first pipes nobody is linked to, perhaps those of a fork that failed. *)

WithTwoMore == pipes \o <<[to |-> Parent, from |-> NoPid], [to |-> NoPid, from |-> NoPid]>>

LinkedOn(s, n, m, k) ==
  [s EXCEPT ![n].from = k, ![m] = [to |-> k, from |-> Parent]]

Fork ==
  LET k == forks + 1
      s == WithTwoMore
  IN  /\ Idle /\ forks < MaxForks
      /\ pipes' = LinkedOn(s, Index(s, Parent, NoPid), Index(s, NoPid, NoPid), k)
      /\ alive' = alive \cup {k}
      /\ forks' = k
      /\ UNCHANGED <<dead, failed, signal, handled, archiving, old, num, cleanup, quiet>>

ForkFails ==
  /\ Idle /\ failed < MaxFailed
  /\ pipes' = WithTwoMore
  /\ failed' = failed + 1
  /\ UNCHANGED <<alive, dead, forks, signal, handled, archiving, old, num, cleanup, quiet>>

\* A child ends.  With SIG_DFL its SIGCHLD is discarded.
Exit(k) ==
  /\ k \in alive
  /\ alive' = alive \ {k} /\ dead' = dead \cup {k}
  /\ signal' = (signal \/ handled)
  /\ UNCHANGED <<pipes, forks, failed, handled, archiving, old, num, cleanup, quiet>>

\* threads_fork_execv: the handler is off while tar runs, and stays off when
\* tar cannot be forked.
Archive ==
  /\ Idle /\ ~signal /\ ~quiet
  /\ handled' = FALSE
  /\ archiving' \in BOOLEAN
  /\ UNCHANGED <<pipes, procs, signal, old, num, cleanup, quiet>>

Archived ==
  /\ archiving
  /\ archiving' = FALSE /\ handled' = TRUE
  /\ UNCHANGED <<pipes, procs, signal, old, num, cleanup, quiet>>
-----------------------------------------------------------------------------
(* threads_sigchld. *)

\* realloc(): the array has n entries, new ones hold anything.
Resized(s, n) == [k \in 1..n |-> IF k <= Len(s) THEN s[k] ELSE Unset]

\* ip_pipe_flag_pid_old.
FlaggedFirst(k) == /\ old' = [Resized(old, num + 1) EXCEPT ![1] = k]
                   /\ num' = num + 1
Flagged(k) == /\ old' = [Resized(old, num + 1) EXCEPT ![num + 1] = k]
              /\ num' = num + 1

\* waitpid() finds k.  The handler goes on until no child is left to reap; that
\* two turns of its loop may have a step of the parent between them here is as
\* if the second child had ended later.
Reap(k) ==
  /\ signal /\ k \in dead
  /\ ~quiet \/ pc \in {"idle", "scan"}
  /\ dead' = dead \ {k}
  /\ signal' = (dead' # {})
  /\ Flagged(k)
  /\ UNCHANGED <<pipes, alive, forks, failed, handled, archiving, cleanup, quiet>>
-----------------------------------------------------------------------------
(* ip_pipe_handle_old_pids, called by a timer, and ip_pipe_free_bypid. *)

HandleOldPids ==
  /\ Idle
  /\ pc' = "scan" /\ i' = 1
  /\ UNCHANGED <<pipes, procs, signal, handled, archiving, old, num, j, quiet>>

HasPipes(k) == Index(pipes, k, Parent) # 0 /\ Index(pipes, Parent, k) # 0

\* The pipe to the child goes first, and the index of the other one is not
\* looked up again.
FreedFromFirst(s, k) ==
  RemoveAt(RemoveAt(s, Index(s, Parent, k)), Index(s, k, Parent))
Freed(s, k) == RemoveAt(RemoveAt(s, Index(s, k, Parent)), Index(s, Parent, k))

Frees ==
  /\ pc = "scan" /\ i <= num /\ HasPipes(old[i])
  /\ pipes' = Freed(pipes, old[i])
  /\ pc' = "shift" /\ j' = i + 1
  /\ UNCHANGED <<procs, signal, handled, archiving, old, num, i, quiet>>

Passes ==
  /\ pc = "scan" /\ i <= num /\ ~HasPipes(old[i])
  /\ i' = i + 1
  /\ UNCHANGED <<pipes, procs, signal, handled, archiving, old, num, pc, j, quiet>>

ScanEnds ==
  /\ pc = "scan" /\ i > num
  /\ pc' = "idle"
  /\ UNCHANGED <<pipes, procs, signal, handled, archiving, old, num, i, j, quiet>>

\* The entry is removed: the ones after it move down,
Shifts ==
  /\ pc = "shift"
  /\ \/ /\ j <= num
        /\ old' = [old EXCEPT ![j - 1] = old[j]]
        /\ j' = j + 1 /\ pc' = pc
     \/ /\ j > num
        /\ pc' = "zero"
        /\ UNCHANGED <<old, j>>
  /\ UNCHANGED <<pipes, procs, signal, handled, archiving, num, i, quiet>>

\* the last one is cleared,
Zeroes ==
  /\ pc = "zero"
  /\ old' = [old EXCEPT ![num] = Unset]
  /\ pc' = "shrink"
  /\ UNCHANGED <<pipes, procs, signal, handled, archiving, num, i, j, quiet>>

\* the array is reallocated,
ShrinksTwice ==
  /\ pc = "shrink"
  /\ old' = Resized(old, num - 2)
  /\ pc' = "count"
  /\ UNCHANGED <<pipes, procs, signal, handled, archiving, num, i, j, quiet>>
Shrinks ==
  /\ pc = "shrink"
  /\ old' = Resized(old, num - 1)
  /\ pc' = "count"
  /\ UNCHANGED <<pipes, procs, signal, handled, archiving, num, i, j, quiet>>

\* and counted.  The entry that has moved to i is passed over this time.
CountsDown ==
  /\ pc = "count"
  /\ num' = num - 1 /\ i' = i + 1
  /\ pc' = "scan"
  /\ UNCHANGED <<pipes, procs, signal, handled, archiving, old, j, quiet>>

Cleanup == \/ HandleOldPids \/ Frees \/ Passes \/ ScanEnds
           \/ Shifts \/ Zeroes \/ Shrinks \/ CountsDown
-----------------------------------------------------------------------------
Next ==
  \/ Fork \/ ForkFails \/ Archive \/ Archived \/ Cleanup
  \/ \E k \in Children : Exit(k) \/ Reap(k)

Spec == Init /\ [][Next]_vars

\* The timer fires again and again, a pending signal is delivered, tar ends.
FairSpec == /\ Spec /\ WF_vars(Cleanup) /\ WF_vars(Archived)
            /\ \A k \in Children : WF_vars(Reap(k))
-----------------------------------------------------------------------------
(* Properties. *)

TypeOK ==
  /\ pipes \in Seq(Pipe)
  /\ alive \subseteq Children /\ dead \subseteq Children
  /\ signal \in BOOLEAN /\ handled \in BOOLEAN /\ archiving \in BOOLEAN /\ quiet \in BOOLEAN
  /\ old \in Seq(Children \cup {Unset}) /\ num \in Nat
  /\ pc \in {"idle", "scan", "shift", "zero", "shrink", "count"}
  /\ i \in Nat \ {0} /\ j \in Nat \ {0}
  /\ forks \in 0..MaxForks /\ failed \in 0..MaxFailed

\* The array is as long as num_unhandled says whenever it is read or written:
\* a signal between two statements may lose an entry, but never sends a write
\* outside the array.
InBounds ==
  /\ num <= IF pc = "count" THEN Len(old) + 1 ELSE Len(old)
  /\ pc \in {"shift", "zero", "shrink", "count"} => num >= 1
  /\ pc = "shift" => i < j

\* The table is a row of pairs, each of one child or of none yet.
PairsOK ==
  /\ Len(pipes) % 2 = 0
  /\ \A n \in 1..Len(pipes) : n % 2 = 1 =>
       \/ pipes[n] = [to |-> Parent, from |-> NoPid] /\ pipes[n + 1] = [to |-> NoPid, from |-> NoPid]
       \/ \E k \in Children : pipes[n] = [to |-> Parent, from |-> k]
                              /\ pipes[n + 1] = [to |-> k, from |-> Parent]
  /\ \A n, m \in 1..Len(pipes) :
       pipes[n] = pipes[m] /\ NoPid \notin {pipes[n].to, pipes[n].from} => n = m

\* When pipes are freed, they are both pipes of one child, that child has ended,
\* and nobody else's go with them or change places.
FreesItsOwn ==
  [][Len(pipes') < Len(pipes) =>
       \E k \in Children \ alive, n \in 1..Len(pipes) - 1 :
         /\ pipes[n] = [to |-> Parent, from |-> k] /\ pipes[n + 1] = [to |-> k, from |-> Parent]
         /\ \A m \in 1..Len(pipes) : k \in {pipes[m].to, pipes[m].from} => m \in {n, n + 1}
         /\ pipes' = [m \in 1..Len(pipes) - 2 |-> pipes[IF m < n THEN m ELSE m + 2]]]_vars

\* A child has both pipes or none, and one that was reaped is on the list until
\* they are gone, when no signal disturbs the removal of another.
DeadAreListed ==
  /\ PairsOK
  /\ quiet => \A k \in Children \ (alive \cup dead) :
       HasPipes(k) => \E n \in 1..num : old[n] = k

\* Nobody's pipes outlive him for ever then.
DeadAreFreed == \A k \in Children : quiet /\ k \in dead ~> ~HasPipes(k)
=============================================================================
