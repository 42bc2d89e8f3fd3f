--------------------------- MODULE ReadWriteLock ---------------------------
(***************************************************************************)
(* What lock.h promises of a gl_rwlock_t: threads that read hold it        *)
(* together, one that writes holds it alone, and a writer that lines up is *)
(* let in before those that lined up after it.  How a thread waits is left *)
(* to the implementation (RwLock).                                         *)
(***************************************************************************)
EXTENDS Sequences, FiniteSets

CONSTANT Threads

VARIABLES reading, writing, line

vars == <<reading, writing, line>>

Free == reading = {} /\ writing = {}

Init == Free /\ line = <<>>

\* Readers come in, one or many at a time.
ReadersIn(R) ==
  /\ writing = {} /\ R \cap reading = {}
  /\ reading' = reading \cup R /\ UNCHANGED <<writing, line>>

WriterIn(t) == Free /\ writing' = {t} /\ UNCHANGED <<reading, line>>

\* A writer lines up while the lock is held.
LinesUp(t) == ~Free /\ line' = Append(line, t) /\ UNCHANGED <<reading, writing>>

Out(t) ==
  \/ t \in reading /\ reading' = reading \ {t} /\ UNCHANGED <<writing, line>>
  \/ writing = {t} /\ writing' = {} /\ UNCHANGED <<reading, line>>

\* The last one hands the lock to the first in line, or to readers.
HandsOver(t) ==
  /\ reading \cup writing = {t}
  /\ \/ /\ line # <<>>
        /\ writing' = {Head(line)} /\ reading' = {} /\ line' = Tail(line)
     \/ /\ line = <<>>
        /\ reading' \in SUBSET (Threads \ {t}) /\ writing' = {} /\ UNCHANGED line

Next ==
  \/ \E R \in SUBSET Threads : ReadersIn(R)
  \/ \E t \in Threads : WriterIn(t) \/ LinesUp(t) \/ Out(t) \/ HandsOver(t)

Spec == Init /\ [][Next]_vars
=============================================================================
