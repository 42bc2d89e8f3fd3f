------------------------ MODULE MouseDetectionProofs ------------------------
(***************************************************************************)
(* For any devices, makes, machines and number of detections: what Forward *)
(* offers is one mouse, what is listed was reported by the child of this   *)
(* detection, and no other child goes on watching without having been told *)
(* to stop.                                                                *)
(***************************************************************************)
EXTENDS MouseDetection, FiniteSetTheorems, SequenceTheorems, TLAPS

Lists  == Seq(Devices)
Pipes  == [Children -> Seq(Messages)]
Phases == [Children -> {"none", "settling", "ignoring", "reporting", "gone"}]
Sets   == [Children -> SUBSET Devices]

TypesOK ==
  /\ window \in {"config", "moused", "btnd", "gone"}
  /\ detecting \in BOOLEAN /\ forward \in BOOLEAN /\ calm \in BOOLEAN
  /\ devices \subseteq Devices /\ handlers \in Lists
  /\ forks \in 0..MaxForks /\ pid \in 0..forks /\ (detecting => pid \in Children)
  /\ phase \in Phases
  /\ fresh \in Sets /\ early \in Sets
  /\ up \in Pipes
  /\ stopped \subseteq Children
  /\ waiting \in Nat /\ polling \in Nat

\* A child that is not forked yet has done nothing, and only what is detecting has a
\* child that was not told to stop.
WatchOK ==
  /\ \A k \in Children : k > forks => /\ phase[k] = "none" /\ k \notin stopped
                                      /\ up[k] = <<>> /\ early[k] = {}
  /\ detecting => window = "moused" /\ pid \notin stopped
  /\ OneWatcher

\* The list is empty outside of the wizard.
ListOK ==
  /\ window = "config" => handlers = <<>>
  /\ OneMouse

InQueue(q, m) == \E i \in 1..Len(q) : q[i] = m

\* What the child of the detection has reported and the parent has not read: it
\* watches these devices no more, and the parent does not list them yet.
UnreadOK ==
  detecting => \A d \in Devices : InQueue(up[pid], REPORT(d)) =>
    d \notin fresh[pid] /\ \A i \in 1..Len(handlers) : handlers[i] # d

\* IP_START_MOUSED is sent by a child that reports from then on.
StartOK == detecting /\ InQueue(up[pid], START) => phase[pid] = "reporting"

EarlyOK == \A k \in Children : early[k] \cap fresh[k] = {}

\* With a patient user one timer runs, and a pipe holds one message; once the timer
\* looks for reports, what was reported too early is out of the pipe.
CalmOK ==
  calm =>
    /\ waiting + polling <= 1 /\ \A k \in Children : Len(up[k]) <= 1
    /\ detecting /\ polling > 0 =>
         /\ phase[pid] = "reporting"
         /\ ~InQueue(up[pid], START)
         /\ \A d \in Devices : InQueue(up[pid], REPORT(d)) => d \notin early[pid]

ReportedOK == ListedIsReported /\ UnreadOK /\ StartOK /\ EarlyOK /\ CalmOK

Inv == TypesOK /\ WatchOK /\ ListOK /\ ReportedOK
-----------------------------------------------------------------------------
\* handlers_add_by_ids lists devices of these IDs only.
LEMMA ListOfSet ==
  ASSUME NEW S \in SUBSET Devices
  PROVE  SetToSeq(S) \in Seq(S)
<1>1. IsFiniteSet(S)
  BY FS_Subset, DetectionOK
<1>2. PICK f : f \in Bijection(1..Cardinality(S), S)
  BY <1>1, FS_CardinalityType DEF ExistsBijection
<1>3. f \in [1..Cardinality(S) -> S] /\ IsInjective(f)
  BY <1>2 DEF Bijection, Injection, IsInjective
<1>4. SetToSeq(S) \in [1..Cardinality(S) -> S]
  BY <1>3, Zenon DEF SetToSeq
<1> QED
  BY <1>1, <1>4, FS_CardinalityType, SeqDef

\* A message is the start or a report.
LEMMA MessageIs ==
  ASSUME NEW m \in Messages
  PROVE  /\ m.header = "START" => m = START
         /\ m.header = "REPORT" => m.device \in Devices /\ m = REPORT(m.device)
BY DEF Messages, START, REPORT

\* What the head of a pipe is.
LEMMA HeadIs ==
  ASSUME TypesOK, NEW k \in Children, NEW h, Has(k, h)
  PROVE  /\ Head(up[k]) \in Messages /\ InQueue(up[k], Head(up[k]))
         /\ h = "START" => Head(up[k]) = START
         /\ h = "REPORT" => /\ Head(up[k]).device \in Devices
                            /\ Head(up[k]) = REPORT(Head(up[k]).device)
<1>1. up[k] \in Seq(Messages) /\ up[k] # <<>>
  BY DEF TypesOK, Has, Pipes
<1>2. Len(up[k]) \in Nat /\ 1 \in 1..Len(up[k]) /\ Head(up[k]) = up[k][1]
  BY <1>1, EmptySeq, LenProperties
<1>3. Head(up[k]) \in Messages
  BY <1>1, <1>2, ElementOfSeq
<1> QED
  BY <1>2, <1>3, MessageIs DEF Has, InQueue

\* What is in a pipe after a message is written, or when it is empty.
LEMMA InAppend ==
  ASSUME NEW q \in Seq(Messages), NEW m \in Messages
  PROVE  /\ \A x : InQueue(Append(q, m), x) => InQueue(q, x) \/ x = m
         /\ q = <<>> => Len(Append(q, m)) = 1
BY AppendProperties, EmptySeq DEF InQueue

LEMMA InEmpty ==
  \A x : ~InQueue(<<>>, x)
BY EmptySeq DEF InQueue

\* Messages tell apart what they say.
LEMMA Distinct ==
  /\ START \in Messages /\ \A d \in Devices : REPORT(d) \in Messages /\ REPORT(d) # START
  /\ \A d, e \in Devices : REPORT(d) = REPORT(e) => d = e
BY DEF START, REPORT, Messages


LEMMA TypesKept ==
  ASSUME TypesOK, [Next]_<<vars, cast>>
  PROVE  TypesOK'
<1>1. MaxForks \in Nat /\ <<>> \in Lists /\ <<>> \in Seq(Messages) /\ Lists = Seq(Devices)
  BY DetectionOK, EmptySeq DEF Lists
<1>2. CASE UNCHANGED <<vars, cast>>
  <2>1. /\ UNCHANGED <<window, detecting, forward, calm, devices, handlers, forks, pid>>
        /\ UNCHANGED <<phase, fresh, early, up, stopped, waiting, polling>>
    BY <1>2 DEF vars, cast, widgets, child, timers
  <2> QED
    BY <2>1 DEF TypesOK
<1>3. CASE UNCHANGED cast /\ Exits
  <2>1. /\ UNCHANGED <<calm, devices, forks, phase, fresh, early, up, stopped>>
        /\ window' = "gone" /\ detecting' = FALSE /\ pid' = 0 /\ forward' = FALSE
        /\ handlers' = <<>> /\ waiting' = 0 /\ polling' = 0
    BY <1>3 DEF Exits, cast, child
  <2>2. pid' \in 0..forks'
    BY <1>1, <2>1 DEF TypesOK
  <2> QED
    BY <1>1, <2>1, <2>2 DEF TypesOK
<1>4. CASE UNCHANGED cast /\ (Stop \/ Forward \/ Cancel \/ Undo)
  <2>1. stopped' \in SUBSET Children /\ detecting' = FALSE
    BY <1>4 DEF TypesOK, Stop, Forward, Cancel, Undo, Stops
  <2> QED
    BY <1>1, <1>4, <2>1
       DEF TypesOK, Stop, Forward, Cancel, Undo, InitMoused, cast, widgets, child, timers
<1>5. CASE UNCHANGED cast /\ Start
  <2>1. /\ forks + 1 \in Children /\ forks' = forks + 1 /\ pid' = forks + 1
        /\ forks' \in 0..MaxForks /\ pid' \in 0..forks'
    BY <1>1, <1>5 DEF TypesOK, Start, Children
  <2>2. phase' \in Phases /\ fresh' \in Sets
    BY <1>5, <2>1 DEF TypesOK, Start, Phases, Sets
  <2> QED
    BY <1>1, <1>5, <2>1, <2>2 DEF TypesOK, Start, cast
<1>6. CASE UNCHANGED cast /\ Detect
  <2>1. OfMouse(mouse) \in SUBSET Devices
    BY DEF OfMouse, TypesOK
  <2> DEFINE s == SetToSeq(OfMouse(mouse))
  <2>2. s \in Seq(OfMouse(mouse))
    BY <2>1, ListOfSet
  <2> HIDE DEF s
  <2>3. s \in Lists
    BY <2>1, <2>2, SeqMonotonic DEF Lists
  <2>4. handlers \o s \in Lists
    BY <2>3, ConcatProperties DEF TypesOK, Lists
  <2>5. handlers' \in Lists
    BY <1>6, <2>4 DEF Detect, TypesOK, s
  <2>6. /\ UNCHANGED <<detecting, calm, devices, forks, pid, phase, fresh, early, up, stopped>>
        /\ UNCHANGED <<waiting, polling>>
    BY <1>6 DEF Detect, cast, child, timers
  <2>7. window' \in {"moused", "btnd"} /\ forward' \in BOOLEAN
    BY <1>6 DEF Detect, InitMoused, TypesOK
  <2> QED
    BY <2>5, <2>6, <2>7 DEF TypesOK
<1>7. CASE UNCHANGED cast /\ (LeaveBtnd \/ \E m \in Mice \cup {NoMouse} : OpenConfig(m))
  <2>1. /\ UNCHANGED <<forward, detecting, calm, devices, forks, pid, phase, fresh, early, up>>
        /\ UNCHANGED <<stopped, waiting, polling>>
        /\ handlers' \in {handlers, <<>>} /\ window' = "config"
    BY <1>7 DEF LeaveBtnd, OpenConfig, cast, widgets, child, timers
  <2> QED
    BY <1>1, <2>1 DEF TypesOK
<1>8. CASE UNCHANGED cast /\ Ticks
  <2>1. ASSUME Reads(pid)
        PROVE  up' \in Pipes
    BY <1>1, <2>1 DEF Reads, TypesOK, Pipes
  <2>2. CASE StartTimerEnds \/ ReportTimerEnds
    BY <1>8, <2>2 DEF TypesOK, StartTimerEnds, ReportTimerEnds, cast, widgets, child
  <2>3. CASE StartTimerStarts \/ StartTimerDrops \/ ReportTimerDrops
    BY <1>8, <2>1, <2>3
       DEF TypesOK, StartTimerStarts, StartTimerDrops, ReportTimerDrops, cast, widgets, timers
  <2>4. CASE ReportTimerAdds
    <3>1. PICK d : d = Head(up[pid]).device /\ (AddFirst(d) \/ AddClashing(d) \/ AddShown(d))
      BY <2>4 DEF ReportTimerAdds
    <3>2. d \in Devices
      BY <2>4, <3>1, HeadIs DEF ReportTimerAdds, TypesOK
    <3>5. Append(handlers, d) \in Lists
      BY <3>2, AppendProperties DEF TypesOK, Lists
    <3>3. handlers' \in Lists
      BY <3>1, <3>5 DEF AddFirst, AddClashing, AddShown, TypesOK
    <3>4. /\ stopped' \in SUBSET Children /\ detecting' \in BOOLEAN /\ (detecting' => detecting)
          /\ window' = window /\ forward' \in BOOLEAN
      BY <2>4, <3>1
         DEF AddFirst, AddClashing, AddShown, Stops, InitMoused, TypesOK, ReportTimerAdds, widgets
    <3> QED
      BY <1>8, <2>1, <2>4, <3>3, <3>4 DEF TypesOK, ReportTimerAdds, cast, timers
  <2> QED
    BY <1>8, <2>2, <2>3, <2>4 DEF Ticks
<1>9. ASSUME NEW k \in Children, UNCHANGED cast,
             Settles(k) \/ Begins(k) \/ ChildStops(k) \/ \E d \in Devices : Moves(k, d)
      PROVE  TypesOK'
  <2>1. phase' \in Phases /\ fresh' \in Sets /\ early' \in Sets
    BY <1>9 DEF TypesOK, Settles, ChildStops, Begins, Moves, Phases, Sets
  <2>2. ASSUME NEW m \in Messages, Writes(k, m)
        PROVE  up' \in Pipes
    <3>1. Append(up[k], m) \in Seq(Messages)
      BY AppendProperties DEF TypesOK, Pipes
    <3> QED
      BY <2>2, <3>1 DEF TypesOK, Writes, Pipes
  <2>3. START \in Messages /\ \A d \in Devices : REPORT(d) \in Messages
    BY DEF Messages
  <2>4. up' \in Pipes
    <3>1. CASE Settles(k) \/ ChildStops(k)
      BY <3>1 DEF Settles, ChildStops, TypesOK
    <3>2. CASE Begins(k)
      BY <2>2, <2>3, <3>2 DEF Begins
    <3>3. CASE \E d \in Devices : Moves(k, d)
      BY <2>2, <2>3, <3>3 DEF Moves
    <3> QED
      BY <1>9, <3>1, <3>2, <3>3
  <2> QED
    BY <1>9, <2>1, <2>4
       DEF TypesOK, Settles, ChildStops, Begins, Moves, cast, widgets, timers
<1> QED
  BY <1>2, <1>3, <1>4, <1>5, <1>6, <1>7, <1>8, <1>9
     DEF Next, Steps, Clicks, StartFails, Close, BtndOk, BtndCancel

-----------------------------------------------------------------------------
\* A step keeps who watches.
LEMMA WatchKept ==
  ASSUME TypesOK, WatchOK, Next
  PROVE  WatchOK'
<1>1. CASE Exits
  BY <1>1 DEF WatchOK, OneWatcher, Exits, child
<1>2. CASE Stop \/ Forward \/ Cancel \/ Undo
  <2>1. /\ UNCHANGED <<forks, phase, up, early>> /\ detecting' = FALSE
        /\ stopped' = IF detecting THEN stopped \cup {pid} ELSE stopped
        /\ window = "moused"
    BY <1>2 DEF Stop, Forward, Cancel, Undo, Stops, child
  <2>2. detecting => pid \in 0..forks
    BY DEF TypesOK
  <2> QED
    BY <2>1, <2>2 DEF WatchOK, OneWatcher, Children, TypesOK
<1>3. CASE Start
  <2>0. forks + 1 \in Children
    BY <1>3, DetectionOK DEF Start, Children, TypesOK
  <2>1. /\ forks' = forks + 1 /\ pid' = forks + 1 /\ window = "moused" /\ ~detecting
        /\ phase' = [phase EXCEPT ![forks + 1] = "settling"]
        /\ UNCHANGED <<window, up, early, stopped>> /\ detecting' = TRUE
    BY <1>3 DEF Start
  <2>2. phase \in [Children -> {"none", "settling", "ignoring", "reporting", "gone"}]
    BY DEF TypesOK, Phases
  <2> QED
    BY <2>0, <2>1, <2>2 DEF WatchOK, OneWatcher, Children, TypesOK
<1>4. CASE Detect \/ LeaveBtnd \/ \E m \in Mice \cup {NoMouse} : OpenConfig(m)
  BY <1>4 DEF Detect, LeaveBtnd, OpenConfig, WatchOK, OneWatcher, InitMoused, child, widgets
<1>5. CASE Ticks
  <2>1. CASE StartTimerEnds \/ ReportTimerEnds
    BY <2>1 DEF StartTimerEnds, ReportTimerEnds, WatchOK, OneWatcher, child, widgets
  <2>2. ASSUME Reads(pid), detecting
        PROVE  \A k \in Children : k > forks => up'[k] = <<>>
    BY <2>2 DEF Reads, WatchOK, TypesOK, Pipes
  <2>3. CASE StartTimerStarts \/ StartTimerDrops \/ ReportTimerDrops
    BY <2>2, <2>3
       DEF StartTimerStarts, StartTimerDrops, ReportTimerDrops, WatchOK, OneWatcher, widgets
  <2>4. CASE ReportTimerAdds
    <3>1. /\ window' = window /\ UNCHANGED <<pid, forks, phase, early>>
          /\ \/ detecting' = detecting /\ stopped' = stopped
             \/ detecting' = FALSE /\ stopped' = stopped \cup {pid}
      BY <2>4 DEF ReportTimerAdds, AddFirst, AddClashing, AddShown, Stops, widgets
    <3>2. \A k \in Children : k > forks => up'[k] = <<>>
      BY <2>2, <2>4 DEF ReportTimerAdds
    <3>3. window = "moused" /\ pid \in 0..forks /\ detecting /\ pid \notin stopped
      BY <2>4 DEF ReportTimerAdds, WatchOK, TypesOK
    <3>4. \A k \in Children : k > forks => k \notin stopped'
      <4>1. \A k \in Children : k > forks => k \notin stopped /\ k # pid
        BY <3>3 DEF WatchOK, Children, TypesOK
      <4> QED
        BY <3>1, <4>1
    <3>5. OneWatcher'
      BY <3>1, <3>3 DEF WatchOK, OneWatcher
    <3> QED
      BY <3>1, <3>2, <3>3, <3>4, <3>5 DEF WatchOK
  <2> QED
    BY <1>5, <2>1, <2>3, <2>4 DEF Ticks
<1>6. ASSUME NEW k \in Children,
             Settles(k) \/ Begins(k) \/ ChildStops(k) \/ \E d \in Devices : Moves(k, d)
      PROVE  WatchOK'
  <2>1. /\ phase[k] \in {"settling", "ignoring", "reporting"}
        /\ UNCHANGED <<window, detecting, pid, stopped, forks>>
    BY <1>6 DEF Settles, Begins, ChildStops, Moves, widgets
  <2>2. ~(k > forks)
    BY <2>1 DEF WatchOK
  <2>3. \A j \in Children : j # k => /\ phase'[j] = phase[j] /\ up'[j] = up[j]
                                     /\ early'[j] = early[j]
    BY <1>6 DEF Settles, Begins, ChildStops, Moves, Writes, TypesOK, Phases, Pipes, Sets
  <2>4. phase'[k] \in {"settling", "ignoring", "reporting"} /\ k \notin stopped
          => (detecting /\ k = pid) \/ window = "gone"
    BY <2>1 DEF WatchOK, OneWatcher
  <2> QED
    BY <2>1, <2>2, <2>3, <2>4 DEF WatchOK, OneWatcher
<1> QED
  BY <1>1, <1>2, <1>3, <1>4, <1>5, <1>6
     DEF Next, Steps, Clicks, StartFails, Close, BtndOk, BtndCancel

\* A step keeps what is listed one mouse.
LEMMA ListKept ==
  ASSUME TypesOK, WatchOK, ListOK, Next
  PROVE  ListOK'
<1>1. SameMouse(<<>>)
  BY EmptySeq DEF SameMouse
<1>2. CASE Exits
  BY <1>2 DEF ListOK, OneMouse, Exits
<1>3. CASE Start \/ Cancel \/ Undo \/ LeaveBtnd
  <2>1. handlers' = <<>>
    BY <1>3 DEF Start, Cancel, Undo, LeaveBtnd
  <2> QED
    BY <1>1, <2>1 DEF ListOK, OneMouse, SameMouse
<1>4. CASE Stop \/ Forward \/ \E m \in Mice \cup {NoMouse} : OpenConfig(m)
  <2>1. UNCHANGED <<handlers, forward>>
    BY <1>4 DEF Stop, Forward, OpenConfig, widgets
  <2>2. \/ window' = window
        \/ window = "moused" /\ forward /\ window' = "btnd"
    BY <1>4 DEF Stop, Forward, OpenConfig, widgets
  <2> QED
    BY <2>1, <2>2 DEF ListOK, OneMouse, SameMouse
<1>5. CASE Detect
  <2>1. OfMouse(mouse) \in SUBSET Devices
    BY DEF OfMouse, TypesOK
  <2> DEFINE s == SetToSeq(OfMouse(mouse))
  <2>2. s \in Seq(OfMouse(mouse))
    BY <2>1, ListOfSet
  <2> HIDE DEF s
  <2>3. handlers = <<>> /\ <<>> \o s = s
    BY <1>5, <2>2, ConcatEmptySeq DEF Detect, ListOK
  <2>4. CASE handlers' = handlers \o s /\ window' = "btnd"
    <3>1. \A i \in 1..Len(s) : IdsOf[s[i]] = mouse
      BY <2>2, ElementOfSeq DEF OfMouse
    <3>2. Len(s) \in Nat
      BY <2>2, LenProperties
    <3>3. SameMouse(s)
      BY <3>1, <3>2 DEF SameMouse
    <3> QED
      BY <2>3, <2>4, <3>3 DEF ListOK, OneMouse, SameMouse
  <2>5. CASE handlers' = handlers /\ window' = "moused" /\ forward' = FALSE
    BY <2>5 DEF ListOK, OneMouse
  <2> QED
    BY <1>5, <2>4, <2>5 DEF Detect, InitMoused, s
<1>6. CASE Ticks
  <2>1. CASE StartTimerEnds \/ ReportTimerEnds
    BY <2>1 DEF StartTimerEnds, ReportTimerEnds, ListOK, OneMouse, SameMouse, widgets
  <2>2. CASE StartTimerStarts \/ StartTimerDrops \/ ReportTimerDrops
    BY <2>2
       DEF StartTimerStarts, StartTimerDrops, ReportTimerDrops, ListOK, OneMouse, SameMouse, widgets
  <2>3. CASE ReportTimerAdds
    <3>1. PICK d : AddFirst(d) \/ AddClashing(d) \/ AddShown(d)
      BY <2>3 DEF ReportTimerAdds
    <3>2. window = "moused"
      BY <2>3 DEF ReportTimerAdds, WatchOK
    <3>3. CASE AddFirst(d)
      BY <3>2, <3>3 DEF AddFirst, ListOK, OneMouse, SameMouse, widgets
    <3>4. CASE AddClashing(d)
      BY <3>2, <3>4 DEF AddClashing, InitMoused, ListOK, OneMouse
    <3>5. CASE AddShown(d)
      BY <3>2, <3>5 DEF AddShown, ListOK, OneMouse, SameMouse
    <3> QED
      BY <3>1, <3>3, <3>4, <3>5
  <2> QED
    BY <1>6, <2>1, <2>2, <2>3 DEF Ticks
<1>7. ASSUME NEW k \in Children,
             Settles(k) \/ Begins(k) \/ ChildStops(k) \/ \E d \in Devices : Moves(k, d)
      PROVE  ListOK'
  BY <1>7 DEF Settles, Begins, ChildStops, Moves, ListOK, OneMouse, SameMouse, widgets
<1> QED
  BY <1>2, <1>3, <1>4, <1>5, <1>6, <1>7
     DEF Next, Steps, Clicks, StartFails, Close, BtndOk, BtndCancel

\* A step keeps what is listed reported, and what is reported in order.
LEMMA ReportedKept ==
  ASSUME TypesOK, WatchOK, ReportedOK, Next
  PROVE  ReportedOK'
<1>0. UNCHANGED calm
  BY DEF Next, cast
<1>1. CASE Exits \/ Stop \/ Forward \/ Cancel \/ Undo
  <2>1. /\ UNCHANGED <<early, fresh, up>> /\ detecting' = FALSE
        /\ \/ waiting' = 0 /\ polling' = 0
           \/ waiting' = waiting /\ polling' = polling
    BY <1>1 DEF Exits, Stop, Forward, Cancel, Undo, Stops, child, timers
  <2>2. calm => waiting' + polling' <= 1
    BY <2>1 DEF ReportedOK, CalmOK
  <2> QED
    BY <1>0, <2>1, <2>2
       DEF ReportedOK, ListedIsReported, UnreadOK, StartOK, EarlyOK, CalmOK
<1>2. CASE Detect \/ LeaveBtnd \/ \E m \in Mice \cup {NoMouse} : OpenConfig(m)
  <2>1. /\ UNCHANGED <<early, fresh, up, detecting, waiting, polling>> /\ ~detecting
    BY <1>2 DEF Detect, LeaveBtnd, OpenConfig, WatchOK, child, timers
  <2> QED
    BY <1>0, <2>1
       DEF ReportedOK, ListedIsReported, UnreadOK, StartOK, EarlyOK, CalmOK
<1>3. CASE Start
  <2> DEFINE k == forks + 1
  <2>1. k \in Children /\ k > forks
    BY <1>3, DetectionOK DEF Start, Children, TypesOK
  <2>2. /\ pid' = k /\ handlers' = <<>> /\ UNCHANGED <<up, early, polling>>
        /\ fresh' = [fresh EXCEPT ![k] = devices] /\ waiting' = waiting + 1
    BY <1>3 DEF Start
  <2>3. up[k] = <<>> /\ early[k] = {}
    BY <2>1 DEF WatchOK
  <2>4. calm => waiting + polling = 0
    BY <1>3 DEF Next, Hasty, TypesOK
  <2> HIDE DEF k
  <2>5. ListedIsReported'
    BY <2>2, EmptySeq DEF ListedIsReported
  <2>6. UnreadOK' /\ StartOK'
    BY <2>2, <2>3, InEmpty DEF UnreadOK, StartOK
  <2>7. EarlyOK'
    BY <2>2, <2>3 DEF EarlyOK, ReportedOK, TypesOK, Sets
  <2>8. CalmOK'
    <3>1. calm => waiting' + polling' <= 1 /\ ~(polling' > 0)
      BY <2>2, <2>4 DEF TypesOK
    <3> QED
      BY <1>0, <2>2, <3>1 DEF CalmOK, ReportedOK
  <2> QED
    BY <2>5, <2>6, <2>7, <2>8 DEF ReportedOK
<1>4. CASE Ticks
  <2>1. CASE StartTimerEnds \/ ReportTimerEnds
    <3>1. ~detecting /\ detecting' = detecting /\ UNCHANGED <<up, early, fresh>>
      BY <2>1 DEF StartTimerEnds, ReportTimerEnds, child
    <3>2. waiting' + polling' <= waiting + polling
      BY <2>1 DEF StartTimerEnds, ReportTimerEnds, TypesOK
    <3>3. calm => waiting' + polling' <= 1
      BY <2>1, <3>2 DEF ReportedOK, CalmOK, TypesOK, StartTimerEnds, ReportTimerEnds
    <3> QED
      BY <1>0, <3>1, <3>3
         DEF ReportedOK, ListedIsReported, UnreadOK, StartOK, EarlyOK, CalmOK
  <2>2. ASSUME detecting, Reads(pid), pid' = pid
        PROVE  /\ up'[pid'] = <<>> /\ UnreadOK' /\ StartOK'
               /\ calm => \A k \in Children : Len(up'[k]) <= 1
    <3>1. up'[pid] = <<>> /\ \A k \in Children : up'[k] \in {up[k], <<>>}
      BY <2>2 DEF Reads, TypesOK, Pipes
    <3> QED
      BY <2>2, <3>1, EmptySeq, InEmpty DEF UnreadOK, StartOK, ReportedOK, CalmOK
  <2>3. CASE StartTimerStarts
    <3>1. /\ detecting /\ Reads(pid) /\ Has(pid, "START")
          /\ waiting > 0 /\ waiting' = waiting - 1 /\ polling' = polling + 1
          /\ UNCHANGED <<detecting, pid, handlers, phase, fresh, early>>
      BY <2>3 DEF StartTimerStarts
    <3>2. phase[pid] = "reporting"
      BY <3>1, HeadIs DEF ReportedOK, StartOK, TypesOK
    <3>3. ListedIsReported' /\ EarlyOK'
      BY <1>0, <3>1 DEF ReportedOK, ListedIsReported, EarlyOK
    <3>4. waiting' + polling' = waiting + polling
      BY <3>1 DEF TypesOK
    <3>5. CalmOK'
      BY <1>0, <2>2, <3>1, <3>2, <3>4, InEmpty DEF CalmOK, ReportedOK
    <3> QED
      BY <2>2, <3>1, <3>3, <3>5 DEF ReportedOK
  <2>4. CASE StartTimerDrops \/ ReportTimerDrops
    <3>1. /\ detecting /\ Reads(pid)
          /\ UNCHANGED <<detecting, pid, handlers, phase, fresh, early, waiting, polling>>
      BY <2>4 DEF StartTimerDrops, ReportTimerDrops, timers
    <3>2. ListedIsReported' /\ EarlyOK'
      BY <1>0, <3>1 DEF ReportedOK, ListedIsReported, EarlyOK
    <3>3. CalmOK'
      BY <1>0, <2>2, <3>1, InEmpty DEF CalmOK, ReportedOK
    <3> QED
      BY <2>2, <3>1, <3>2, <3>3 DEF ReportedOK
  <2>5. CASE ReportTimerAdds
    <3>1. /\ detecting /\ Reads(pid) /\ Has(pid, "REPORT") /\ polling > 0
          /\ UNCHANGED <<pid, phase, fresh, early, waiting, polling>>
      BY <2>5 DEF ReportTimerAdds, timers
    <3>2. PICK d : d = Head(up[pid]).device /\ (AddFirst(d) \/ AddClashing(d) \/ AddShown(d))
      BY <2>5 DEF ReportTimerAdds
    <3>3. pid \in Children /\ d \in Devices /\ InQueue(up[pid], REPORT(d))
      BY <3>1, <3>2, HeadIs DEF TypesOK
    <3>4. /\ handlers' \in {handlers, Append(handlers, d)}
          /\ detecting' \in BOOLEAN
      BY <3>1, <3>2 DEF AddFirst, AddClashing, AddShown, Stops, TypesOK
    <3>5. /\ d \notin fresh[pid] /\ (calm => d \notin early[pid])
          /\ \A i \in 1..Len(handlers) : handlers[i] # d
      BY <3>1, <3>3 DEF ReportedOK, UnreadOK, CalmOK
    <3>6. ListedIsReported'
      <4>1. CASE handlers' = handlers
        BY <1>0, <3>1, <4>1 DEF ListedIsReported, ReportedOK
      <4>2. CASE handlers' = Append(handlers, d)
        <5>1. /\ Len(handlers') = Len(handlers) + 1 /\ Len(handlers) \in Nat
              /\ \A i \in 1..Len(handlers') :
                   handlers'[i] = IF i = Len(handlers) + 1 THEN d ELSE handlers[i]
          BY <3>3, <4>2, AppendProperties DEF TypesOK, Lists
        <5>2. \A i \in 1..Len(handlers') : i = Len(handlers) + 1 \/ i \in 1..Len(handlers)
          BY <5>1
        <5>3. /\ \A i \in 1..Len(handlers) :
                   handlers[i] \notin fresh[pid] /\ (calm => handlers[i] \notin early[pid])
              /\ \A i, j \in 1..Len(handlers) : handlers[i] = handlers[j] => i = j
          BY <3>1 DEF ListedIsReported, ReportedOK
        <5>4. \A i \in 1..Len(handlers') :
                handlers'[i] \notin fresh'[pid'] /\ (calm' => handlers'[i] \notin early'[pid'])
          BY <1>0, <3>1, <3>5, <5>1, <5>2, <5>3
        <5>5. \A i, j \in 1..Len(handlers') : handlers'[i] = handlers'[j] => i = j
          BY <3>5, <5>1, <5>2, <5>3
        <5> QED
          BY <5>4, <5>5 DEF ListedIsReported
      <4> QED
        BY <3>4, <4>1, <4>2
    <3>7. EarlyOK'
      BY <3>1 DEF ReportedOK, EarlyOK
    <3>8. CalmOK'
      BY <1>0, <2>2, <3>1, InEmpty DEF CalmOK, ReportedOK
    <3> QED
      BY <2>2, <3>1, <3>6, <3>7, <3>8 DEF ReportedOK
  <2> QED
    BY <1>4, <2>1, <2>3, <2>4, <2>5 DEF Ticks
<1>5. ASSUME NEW k \in Children, Settles(k) \/ ChildStops(k)
      PROVE  ReportedOK'
  <2>1. /\ UNCHANGED <<detecting, pid, handlers, up, waiting, polling>>
        /\ \A j \in Children :
             j # k => phase'[j] = phase[j] /\ fresh'[j] = fresh[j] /\ early'[j] = early[j]
        /\ fresh'[k] \subseteq fresh[k] /\ early'[k] \subseteq early[k]
    BY <1>5 DEF Settles, ChildStops, timers, TypesOK, Phases, Sets
  <2>2. detecting => phase[pid] # "reporting" \/ phase'[pid] = phase[pid]
    BY <1>5, <2>1 DEF Settles, ChildStops, WatchOK, TypesOK
  <2>3. detecting => fresh'[pid] \subseteq fresh[pid] /\ early'[pid] \subseteq early[pid]
    BY <2>1 DEF TypesOK
  <2>4. ListedIsReported' /\ UnreadOK'
    BY <1>0, <2>1, <2>3 DEF ReportedOK, ListedIsReported, UnreadOK
  <2>5. StartOK' /\ CalmOK'
    BY <1>0, <2>1, <2>2, <2>3 DEF ReportedOK, StartOK, CalmOK
  <2>6. EarlyOK'
    BY <2>1 DEF ReportedOK, EarlyOK
  <2> QED
    BY <2>4, <2>5, <2>6 DEF ReportedOK
<1>6. ASSUME NEW k \in Children, NEW m \in Messages, Writes(k, m)
      PROVE  /\ \A j \in Children \ {k} : up'[j] = up[j]
             /\ \A x : InQueue(up'[k], x) => InQueue(up[k], x) \/ x = m
             /\ calm => \A j \in Children : Len(up'[j]) <= 1
  <2>1. up[k] \in Seq(Messages) /\ up' = [up EXCEPT ![k] = Append(up[k], m)]
    BY <1>6 DEF Writes, TypesOK, Pipes
  <2>2. up'[k] = Append(up[k], m) /\ \A j \in Children \ {k} : up'[j] = up[j]
    BY <2>1 DEF TypesOK, Pipes
  <2>3. calm => Len(up'[k]) = 1
    BY <1>6, <2>1, <2>2, InAppend DEF Writes
  <2>4. calm => \A j \in Children : Len(up[j]) <= 1
    BY DEF ReportedOK, CalmOK
  <2> QED
    BY <2>1, <2>2, <2>3, <2>4, InAppend
<1>7. ASSUME NEW k \in Children, Begins(k)
      PROVE  ReportedOK'
  <2>1. /\ UNCHANGED <<detecting, pid, handlers, fresh, early, waiting, polling>>
        /\ phase[k] = "ignoring" /\ phase' = [phase EXCEPT ![k] = "reporting"]
        /\ Writes(k, START)
    BY <1>7 DEF Begins, timers
  <2>2. /\ \A j \in Children \ {k} : up'[j] = up[j] /\ phase'[j] = phase[j]
        /\ phase'[k] = "reporting"
        /\ \A d \in Devices : InQueue(up'[k], REPORT(d)) => InQueue(up[k], REPORT(d))
        /\ calm => \A j \in Children : Len(up'[j]) <= 1
    BY <1>6, <2>1, Distinct DEF TypesOK, Phases
  <2>3. ListedIsReported' /\ EarlyOK'
    BY <1>0, <2>1 DEF ReportedOK, ListedIsReported, EarlyOK
  <2>4. detecting => \A d \in Devices : InQueue(up'[pid], REPORT(d)) => InQueue(up[pid], REPORT(d))
    BY <2>2 DEF TypesOK
  <2>5. UnreadOK'
    BY <2>1, <2>4 DEF ReportedOK, UnreadOK
  <2>6. StartOK'
    BY <2>1, <2>2 DEF ReportedOK, StartOK, TypesOK
  <2>7. CalmOK'
    <3>1. calm /\ detecting /\ polling > 0 => pid # k
      BY <2>1 DEF ReportedOK, CalmOK
    <3>2. calm /\ detecting /\ polling > 0 => up'[pid] = up[pid] /\ phase'[pid] = phase[pid]
      BY <2>2, <3>1 DEF TypesOK
    <3> QED
      BY <1>0, <2>1, <2>2, <3>2 DEF ReportedOK, CalmOK
  <2> QED
    BY <2>3, <2>5, <2>6, <2>7 DEF ReportedOK
<1>8. ASSUME NEW k \in Children, NEW d \in Devices, Moves(k, d)
      PROVE  ReportedOK'
  <2>1. /\ UNCHANGED <<detecting, pid, handlers, phase, waiting, polling>>
        /\ d \in fresh[k] /\ fresh' = [fresh EXCEPT ![k] = @ \ {d}]
        /\ early' = IF phase[k] = "ignoring" THEN [early EXCEPT ![k] = @ \cup {d}] ELSE early
        /\ Writes(k, REPORT(d))
    BY <1>8 DEF Moves, timers
  <2>2. /\ \A j \in Children \ {k} : up'[j] = up[j] /\ fresh'[j] = fresh[j] /\ early'[j] = early[j]
        /\ fresh'[k] = fresh[k] \ {d}
        /\ early'[k] \subseteq early[k] \cup {d}
        /\ phase[k] = "reporting" => early'[k] = early[k]
    BY <1>6, <2>1, Distinct DEF TypesOK, Sets
  <2>3. /\ \A e \in Devices : InQueue(up'[k], REPORT(e)) => InQueue(up[k], REPORT(e)) \/ e = d
        /\ InQueue(up'[k], START) => InQueue(up[k], START)
        /\ calm => \A j \in Children : Len(up'[j]) <= 1
    BY <1>6, <2>1, Distinct
  <2>4. d \notin early[k] /\ EarlyOK'
    BY <2>1, <2>2 DEF ReportedOK, EarlyOK
  <2>5. detecting /\ k = pid => \A i \in 1..Len(handlers) : handlers[i] # d
    BY <2>1 DEF ReportedOK, ListedIsReported
  <2>6. ASSUME detecting, k # pid
        PROVE  pid \in Children \ {k}
    BY <2>6 DEF TypesOK
  <2>7. ListedIsReported'
    <3>1. CASE detecting /\ k = pid
      BY <1>0, <2>1, <2>2, <2>5, <3>1 DEF ReportedOK, ListedIsReported
    <3>2. CASE detecting /\ k # pid
      BY <1>0, <2>1, <2>2, <2>6, <3>2 DEF ReportedOK, ListedIsReported
    <3> QED
      BY <2>1, <3>1, <3>2 DEF ListedIsReported
  <2>8. UnreadOK' /\ StartOK'
    <3>1. CASE detecting /\ k = pid
      BY <2>1, <2>2, <2>3, <2>5, <3>1 DEF ReportedOK, UnreadOK, StartOK
    <3>2. CASE detecting /\ k # pid
      BY <2>1, <2>2, <2>6, <3>2 DEF ReportedOK, UnreadOK, StartOK
    <3> QED
      BY <2>1, <3>1, <3>2 DEF UnreadOK, StartOK
  <2>9. CalmOK'
    <3>1. CASE calm /\ detecting /\ polling > 0 /\ k = pid
      BY <1>0, <2>1, <2>2, <2>3, <2>4, <3>1 DEF ReportedOK, CalmOK
    <3>2. CASE calm /\ detecting /\ polling > 0 /\ k # pid
      BY <1>0, <2>1, <2>2, <2>3, <2>6, <3>2 DEF ReportedOK, CalmOK
    <3>3. CASE ~(calm /\ detecting /\ polling > 0)
      BY <1>0, <2>1, <2>3, <3>3 DEF ReportedOK, CalmOK
    <3> QED
      BY <3>1, <3>2, <3>3
  <2> QED
    BY <2>4, <2>7, <2>8, <2>9 DEF ReportedOK
<1> QED
  BY <1>1, <1>2, <1>3, <1>4, <1>5, <1>7, <1>8
     DEF Next, Steps, Clicks, StartFails, Close, BtndOk, BtndCancel

-----------------------------------------------------------------------------
LEMMA InitInv == Init => Inv
<1> SUFFICES ASSUME Init PROVE Inv
  OBVIOUS
<1>1. MaxForks \in Nat /\ <<>> \in Lists /\ <<>> \in Seq(Messages) /\ Len(<<>>) = 0
  BY DetectionOK, EmptySeq DEF Lists
<1>2. devices \subseteq Devices /\ calm \in BOOLEAN
  BY DetectionOK DEF Init
<1>3. TypesOK
  <2>1. phase \in Phases /\ fresh \in Sets /\ early \in Sets /\ up \in Pipes
    BY <1>1 DEF Init, Phases, Sets, Pipes
  <2>2. forks \in 0..MaxForks /\ pid \in 0..forks /\ handlers \in Lists
    BY <1>1 DEF Init
  <2> QED
    BY <1>2, <2>1, <2>2 DEF Init, TypesOK
<1>4. WatchOK
  BY DEF Init, WatchOK, OneWatcher
<1>5. ListOK
  BY DEF Init, ListOK, OneMouse
<1>6. ReportedOK
  BY <1>1 DEF Init, ReportedOK, ListedIsReported, UnreadOK, StartOK, EarlyOK, CalmOK
<1> QED
  BY <1>3, <1>4, <1>5, <1>6 DEF Inv

LEMMA StepInv == Inv /\ [Next]_<<vars, cast>> => Inv'
<1> SUFFICES ASSUME Inv, [Next]_<<vars, cast>> PROVE Inv'
  OBVIOUS
<1>1. TypesOK'
  BY TypesKept DEF Inv
<1>2. CASE Next
  BY <1>1, <1>2, WatchKept, ListKept, ReportedKept DEF Inv
<1>3. CASE UNCHANGED <<vars, cast>>
  <2>1. /\ UNCHANGED <<window, detecting, forward, calm, handlers, forks, pid>>
        /\ UNCHANGED <<phase, fresh, early, up, stopped, waiting, polling>>
    BY <1>3 DEF vars, cast, widgets, child, timers
  <2>2. WatchOK'
    BY <2>1 DEF Inv, WatchOK, OneWatcher
  <2>3. ListOK'
    BY <2>1 DEF Inv, ListOK, OneMouse, SameMouse
  <2>4. ListedIsReported' /\ UnreadOK'
    BY <2>1 DEF Inv, ReportedOK, ListedIsReported, UnreadOK
  <2>5. StartOK' /\ EarlyOK' /\ CalmOK'
    BY <2>1 DEF Inv, ReportedOK, StartOK, EarlyOK, CalmOK
  <2> QED
    BY <1>1, <2>2, <2>3, <2>4, <2>5 DEF Inv, ReportedOK
<1> QED
  BY <1>2, <1>3

THEOREM Invariant == Spec => []Inv
BY InitInv, StepInv, PTL DEF Spec

\* What Forward offers, and what the button detection that follows listens to, is
\* one mouse (handlers_check_id_conflicts, moused_add_handler).
THEOREM OffersOneMouse == Spec => []OneMouse
<1>1. Inv => OneMouse
  BY DEF Inv, ListOK
<1> QED
  BY <1>1, Invariant, PTL

\* What the wizard lists was reported by the child of this detection, once, and with a
\* patient user not before that child had begun.
THEOREM ListsWhatIsReported == Spec => []ListedIsReported
<1>1. Inv => ListedIsReported
  BY DEF Inv, ReportedOK
<1> QED
  BY <1>1, Invariant, PTL

\* Of all the children that were forked, the one of the running detection alone reads
\* the input devices without having been told to stop.
THEOREM WatchesAlone == Spec => []OneWatcher
<1>1. Inv => OneWatcher
  BY DEF Inv, WatchOK
<1> QED
  BY <1>1, Invariant, PTL
=============================================================================
