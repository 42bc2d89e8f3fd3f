------------------------------- MODULE RwLock -------------------------------
(***************************************************************************)
(* gl_rwlock_t (src/intl/lock.c), the lock around libintl's bindings,      *)
(* catalogs and cache, as it is built where the system has none:           *)
(*   "pthread"  a mutex, two conditions, a count of waiting writers;       *)
(*   "win32"    a critical section and two queues of events, where the one *)
(*              who unlocks takes the lock for the one he wakes.           *)
(* What a thread does inside the mutex is one step here.                   *)
(*                                                                         *)
(* pc[t]  "out", "init" and "spin" (before the lock is initialised, win32),*)
(*        "enter" (before the mutex), "wait", "poll" (no memory for an     *)
(*        event: Sleep(1) and look again), "in", "aborted", "gone" (Once)  *)
(* may[t], role[t] what t may ask for, and what it asked for last          *)
(* awake           the waiting threads whose condition or event is set     *)
(* runcount        number of readers running, or -1 when a writer runs     *)
(* waitingWriters  waiting_writers_count (pthread)                         *)
(* readers, writers  waiting_readers and waiting_writers (win32)           *)
(* done, started   the guard of the lock's initialisation (win32)          *)
(***************************************************************************)
EXTENDS Integers, Sequences, FiniteSets

CONSTANTS
  Threads,
  Casts,     \* bound: builds, each with what every thread may ask for in it
  Once,      \* bound: the threads that ask only once
  Unlucky    \* threads that may get no memory for a place in a queue

ASSUME LockOK ==
  /\ IsFiniteSet(Threads) /\ Unlucky \subseteq Threads
  /\ Once \subseteq Threads
  /\ Casts \subseteq [build : {"pthread", "win32"}, may : [Threads -> SUBSET {"read", "write"}]]

VARIABLES build, may, pc, role, awake, runcount, waitingWriters, readers, writers, done, started

thread == <<pc, role, awake>>
queues == <<readers, writers>>
guard  == <<done, started>>
vars   == <<build, may, thread, runcount, waitingWriters, queues, guard>>

\* gl_waitqueue_init.
EmptyQueue == [array |-> <<>>, count |-> 0, alloc |-> 0, offset |-> 0]

Init ==
  /\ \E c \in Casts : build = c.build /\ may = c.may
  /\ pc = [t \in Threads |-> "out"] /\ role = [t \in Threads |-> "read"]
  /\ awake = {} /\ runcount = 0 /\ waitingWriters = 0
  /\ readers = EmptyQueue /\ writers = EmptyQueue
  /\ done = (build = "pthread") /\ started = -1
-----------------------------------------------------------------------------
(* The queue: a ring of events in an array that grows when it is full. *)

\* Where the i-th in the queue is (counting from 0; the array from 1).
Index(q, i) == 1 + (IF q.offset + i >= q.alloc THEN q.offset + i - q.alloc ELSE q.offset + i)

Queued(q) == [i \in 1..q.count |-> q.array[Index(q, i - 1)]]

\* The array of 2 * alloc + 1: what had wrapped around is put behind the rest,
\* and all of it is moved to the front.
GrownCut(q) ==
  [array |-> [i \in 1..(2 * q.alloc + 1) |->
                IF i <= q.alloc - q.offset THEN q.array[q.offset + i] ELSE "none"],
   count |-> q.count, alloc |-> 2 * q.alloc + 1, offset |-> 0]
Grown(q) ==
  LET size    == 2 * q.alloc + 1
      wrapped == q.offset + q.count - q.alloc
      long    == [i \in 1..size |-> IF i <= q.alloc THEN q.array[i]
                                    ELSE IF i - q.alloc <= wrapped THEN q.array[i - q.alloc]
                                    ELSE "none"]
  IN [array |-> [i \in 1..size |-> IF i <= q.count THEN long[q.offset + i] ELSE long[i]],
      count |-> q.count, alloc |-> size, offset |-> 0]

\* gl_waitqueue_add: the array has room, then the event is created.
Roomy(q) == IF q.count = q.alloc THEN Grown(q) ELSE q
Added(q, t) ==
  LET g == Roomy(q)
  IN [g EXCEPT !.array[Index(g, g.count)] = t, !.count = @ + 1]

\* gl_waitqueue_notify_first and gl_waitqueue_notify_all: the queue that remains.
FirstOff(q) ==
  [q EXCEPT !.count = @ - 1,
            !.offset = IF q.count = 1 \/ q.offset + 1 = q.alloc THEN 0 ELSE q.offset + 1]
AllOff(q) == [q EXCEPT !.count = 0, !.offset = 0]
-----------------------------------------------------------------------------
(* Taking the lock. *)

\* A thread calls glthread_rwlock_rdlock or glthread_rwlock_wrlock.  On win32 the
\* first one to come initialises the lock, and the others wait until he has.
Asks(t, r) ==
  /\ pc[t] = "out" /\ r \in may[t]
  /\ role' = [role EXCEPT ![t] = r]
  /\ \/ done /\ pc' = [pc EXCEPT ![t] = "enter"] /\ UNCHANGED started
     \/ /\ ~done /\ started' = started + 1
        /\ pc' = [pc EXCEPT ![t] = IF started' = 0 THEN "init" ELSE "spin"]
  /\ UNCHANGED <<build, may, awake, runcount, waitingWriters, queues, done>>

Initialises(t) ==
  /\ pc[t] = "init"
  /\ readers' = EmptyQueue /\ writers' = EmptyQueue /\ runcount' = 0 /\ done' = TRUE
  /\ pc' = [pc EXCEPT ![t] = "enter"]
  /\ UNCHANGED <<build, may, role, awake, waitingWriters, started>>

SpinsNot(t) ==
  /\ pc[t] = "spin" /\ pc' = [pc EXCEPT ![t] = "enter"]
  /\ UNCHANGED <<build, may, role, awake, runcount, waitingWriters, queues, guard>>
Spins(t) ==
  /\ pc[t] = "spin" /\ done /\ pc' = [pc EXCEPT ![t] = "enter"]
  /\ UNCHANGED <<build, may, role, awake, runcount, waitingWriters, queues, guard>>

\* Whether the lock can be taken now.  pthread gives the writers who wait a
\* higher priority; win32 does not look at them.
MayAny(t) == IF role[t] = "read" THEN runcount >= 0 ELSE runcount = 0
May(t) ==
  IF role[t] = "read" THEN runcount >= 0 /\ (build = "pthread" => waitingWriters = 0)
                      ELSE runcount = 0

Counted(t) == IF role[t] = "read" THEN runcount + 1 ELSE runcount - 1

\* Inside the mutex: the lock is taken, or the thread starts to wait.
EntersFree(t) ==
  /\ pc[t] = "enter" /\ May(t)
  /\ runcount' = Counted(t) /\ pc' = [pc EXCEPT ![t] = "in"]
  /\ UNCHANGED <<build, may, role, awake, waitingWriters, queues, guard>>

EntersWaiting(t) ==
  /\ build = "pthread" /\ pc[t] = "enter" /\ ~May(t)
  /\ pc' = [pc EXCEPT ![t] = "wait"]
  /\ waitingWriters' = IF role[t] = "write" THEN waitingWriters + 1 ELSE waitingWriters
  /\ UNCHANGED <<build, may, role, awake, runcount, queues, guard>>

EntersQueued(t) ==
  /\ build = "win32" /\ pc[t] = "enter" /\ ~May(t)
  /\ pc' = [pc EXCEPT ![t] = "wait"]
  /\ \/ role[t] = "read" /\ readers' = Added(readers, t) /\ UNCHANGED writers
     \/ role[t] = "write" /\ writers' = Added(writers, t) /\ UNCHANGED readers
  /\ UNCHANGED <<build, may, role, awake, runcount, waitingWriters, guard>>

\* Allocation failure.  Weird.  It may be the array or, when that has grown, the
\* event.
EntersPolling(t) ==
  /\ build = "win32" /\ t \in Unlucky /\ pc[t] = "enter" /\ ~May(t)
  /\ pc' = [pc EXCEPT ![t] = "poll"]
  /\ \/ UNCHANGED queues
     \/ role[t] = "read" /\ readers' = Roomy(readers) /\ UNCHANGED writers
     \/ role[t] = "write" /\ writers' = Roomy(writers) /\ UNCHANGED readers
  /\ UNCHANGED <<build, may, role, awake, runcount, waitingWriters, guard>>

Polls(t) ==
  /\ pc[t] = "poll" /\ May(t)
  /\ runcount' = Counted(t) /\ pc' = [pc EXCEPT ![t] = "in"]
  /\ UNCHANGED <<build, may, role, awake, waitingWriters, queues, guard>>

\* pthread_cond_wait returns, signalled or not, and the loop tests again: a
\* writer is taken off the count before, and put back on if it has to go on.
Retries(t) ==
  /\ build = "pthread" /\ pc[t] = "wait" /\ awake' = awake \ {t}
  /\ \/ /\ May(t)
        /\ runcount' = Counted(t) /\ pc' = [pc EXCEPT ![t] = "in"]
        /\ waitingWriters' = IF role[t] = "write" THEN waitingWriters - 1 ELSE waitingWriters
     \/ ~May(t) /\ UNCHANGED <<runcount, waitingWriters, pc>>
  /\ UNCHANGED <<build, may, role, queues, guard>>
Wakes(t) == t \in awake /\ Retries(t)
WakesForNothing(t) == t \notin awake /\ Retries(t)

\* WaitForSingleObject returns: the one who set the event has done the counting.
Follows(t) ==
  /\ build = "win32" /\ t \in awake /\ awake' = awake \ {t}
  /\ pc' = [pc EXCEPT ![t] = IF IF role[t] = "read" THEN runcount > 0 ELSE runcount = -1
                             THEN "in" ELSE "aborted"]
  /\ UNCHANGED <<build, may, role, runcount, waitingWriters, queues, guard>>
-----------------------------------------------------------------------------
(* glthread_rwlock_unlock. *)
Left == IF runcount < 0 THEN 0 ELSE runcount - 1

Outside(t) == IF t \in Once THEN "gone" ELSE "out"

Sleeping(r) == {u \in Threads : pc[u] = "wait" /\ role[u] = r /\ u \notin awake}

\* The lock is still held by other readers.
LeavesOthers(t) ==
  /\ pc[t] = "in" /\ Left # 0
  /\ runcount' = Left /\ pc' = [pc EXCEPT ![t] = Outside(t)]
  /\ UNCHANGED <<build, may, role, awake, waitingWriters, queues, guard>>

\* pthread: one writer is signalled if any is counted, all readers otherwise.
SignalledReaders == awake' = awake \cup Sleeping("read")
Signalled ==
  \/ /\ waitingWriters > 0
     /\ \/ \E u \in Sleeping("write") : awake' = awake \cup {u}
        \/ Sleeping("write") = {} /\ UNCHANGED awake
  \/ waitingWriters = 0 /\ awake' = awake \cup Sleeping("read")

LeavesSignalling(t) ==
  /\ build = "pthread" /\ pc[t] = "in" /\ Left = 0
  /\ runcount' = 0 /\ pc' = [pc EXCEPT ![t] = Outside(t)]
  /\ Signalled
  /\ UNCHANGED <<build, may, role, waitingWriters, queues, guard>>

\* win32: the lock is taken for the first writer, or for all readers in the queue.
LeavesHanding(t) ==
  /\ build = "win32" /\ pc[t] = "in" /\ Left = 0
  /\ pc' = [pc EXCEPT ![t] = Outside(t)]
  /\ \/ /\ writers.count > 0
        /\ runcount' = -1
        /\ awake' = awake \cup {Queued(writers)[1]} /\ writers' = FirstOff(writers)
        /\ UNCHANGED readers
     \/ /\ writers.count = 0
        /\ runcount' = readers.count
        /\ awake' = awake \cup {Queued(readers)[i] : i \in 1..readers.count}
        /\ readers' = AllOff(readers)
        /\ UNCHANGED writers
  /\ UNCHANGED <<build, may, role, waitingWriters, guard>>

Enters(t) == EntersFree(t) \/ EntersWaiting(t) \/ EntersQueued(t) \/ EntersPolling(t)
Leaves(t) == LeavesOthers(t) \/ LeavesSignalling(t) \/ LeavesHanding(t)

Next ==
  \E t \in Threads :
    \/ \E r \in {"read", "write"} : Asks(t, r)
    \/ Initialises(t) \/ Spins(t) \/ Enters(t) \/ Polls(t)
    \/ Wakes(t) \/ WakesForNothing(t) \/ Follows(t) \/ Leaves(t)

\* A thread that can go on does, and gives the lock back: the calls of libintl
\* never keep it.  Nobody has to ask for it.
Fairness ==
  \A t \in Threads :
    /\ WF_vars(Initialises(t)) /\ WF_vars(Spins(t)) /\ WF_vars(Enters(t))
    /\ WF_vars(Polls(t)) /\ WF_vars(Wakes(t)) /\ WF_vars(Follows(t)) /\ WF_vars(Leaves(t))

Spec == Init /\ [][Next]_vars /\ Fairness
-----------------------------------------------------------------------------
(* Properties. *)

\* A win32 thread whose event is set holds the lock already.
Holding(r) ==
  {t \in Threads : role[t] = r /\ (pc[t] = "in" \/ (build = "win32" /\ t \in awake))}

Waiting(r) == {t \in Threads : role[t] = r /\ pc[t] = "wait"}

\* runcount (lock.h: "number of readers running, or -1 when a writer runs") tells
\* the truth: never a writer with anybody else, no reader lost, none counted
\* twice, wherever threads wait, are woken or wake for nothing.
RuncountIsTrue ==
  /\ Holding("write") # {} =>
       runcount = -1 /\ Cardinality(Holding("write")) = 1 /\ Holding("read") = {}
  /\ Holding("write") = {} => runcount = Cardinality(Holding("read"))

\* No wake-up is lost: a thread that waits and that nobody has woken waits for
\* one who holds the lock, or has been woken and will have it; and what
\* glthread_rwlock_rdlock checks with abort() when it wakes is so.
NoWakeUpLost ==
  /\ \A t \in Waiting("write") \ awake :
       runcount # 0 \/ Waiting("write") \cap awake # {}
  /\ \A t \in Waiting("read") \ awake :
       runcount # 0 \/ (build = "pthread" /\ waitingWriters > 0)
  /\ build = "pthread" => waitingWriters = Cardinality(Waiting("write"))
  /\ \A t \in Threads : pc[t] # "aborted"

\* Both builds implement the lock lock.h promises; on win32 the writers in the
\* queue get it in the order they came, however the ring grows and wraps.
Lock == INSTANCE ReadWriteLock WITH
  reading <- Holding("read"), writing <- Holding("write"), line <- Queued(writers)
ImplementsLock == Lock!Spec

\* POSIX recommends that "write locks shall take precedence over read locks", to
\* avoid "writer starvation": with readers coming all the time, a writer that
\* waits in the pthread build lets one in.
WritersGetIn ==
  (build = "pthread" /\ Waiting("write") # {}) ~> (Holding("write") # {})
=============================================================================
