-------------------------- MODULE RecordingProofs -------------------------
(***************************************************************************)
(* The ring of any size keeps the window of its last samples, no recording *)
(* takes the file name of another, each shows what was polled before it,   *)
(* and the downtime read from it is not understated.                       *)
(***************************************************************************)
EXTENDS MCRecording, WellFoundedInduction, TLAPS

---------------------------------------------------------------------------
(* Rings. *)

Rings == [samples : [Slots -> Samples], head : Slots, size : 0 .. RingSize]

\* Going back k slots, on by one, and on by i - 1.
LEMMA Back ==
    ASSUME NEW n \in Nat \ {0}, NEW h \in 0 .. n - 1, NEW k \in 0 .. n
    PROVE  (h + n - k) % n = IF k = 0 THEN h ELSE IF h < k THEN h + n - k ELSE h - k
  OBVIOUS

LEMMA OneOn ==
    ASSUME NEW n \in Nat \ {0}, NEW h \in 0 .. n - 1
    PROVE  (h + 1) % n = IF h + 1 < n THEN h + 1 ELSE 0
  OBVIOUS

LEMMA On ==
    ASSUME NEW n \in Nat \ {0}, NEW h \in 0 .. n - 1, NEW i \in 1 .. n
    PROVE  (h + i - 1) % n = IF h + i - 1 < n THEN h + i - 1 ELSE h + i - 1 - n
  OBVIOUS

\* The slots of a ring with room: it begins where it did, and the new sample
\* goes behind the others.
LEMMA SlotsWithRoom ==
    ASSUME NEW n \in Nat \ {0}, NEW h \in 0 .. n - 1, NEW k \in 0 .. n - 1
    PROVE  /\ (h + n - k) % n \in 0 .. n - 1
           /\ (((h + 1) % n) + n - (k + 1)) % n = (h + n - k) % n
           /\ \A i \in 1 .. k + 1 :
                  /\ (((h + n - k) % n) + i - 1) % n \in 0 .. n - 1
                  /\ (((h + n - k) % n) + i - 1) % n = h <=> i = k + 1
  <1> DEFINE start == (h + n - k) % n
             next == (h + 1) % n
  <1>0. k \in 0 .. n
    OBVIOUS
  <1>1. start = IF k = 0 THEN h ELSE IF h < k THEN h + n - k ELSE h - k
    BY <1>0, Back
  <1>2. next = IF h + 1 < n THEN h + 1 ELSE 0
    BY OneOn
  <1>3. start \in 0 .. n - 1 /\ next \in 0 .. n - 1
    BY <1>1, <1>2
  <1> HIDE DEF start, next
  <1>4. (next + n - (k + 1)) % n = IF next < k + 1 THEN next + n - (k + 1) ELSE next - (k + 1)
    <2>1. k + 1 \in 0 .. n /\ k + 1 # 0
      OBVIOUS
    <2> DEFINE k1 == k + 1
    <2> HIDE DEF k1
    <2>2. k1 \in 0 .. n /\ k1 # 0
      BY <2>1 DEF k1
    <2>3. (next + n - k1) % n = IF next < k1 THEN next + n - k1 ELSE next - k1
      BY <1>3, <2>2, Back
    <2> QED BY <2>3 DEF k1
  <1>5. (next + n - (k + 1)) % n = start
    BY <1>1, <1>2, <1>4
  <1>6. ASSUME NEW i \in 1 .. k + 1
        PROVE  (start + i - 1) % n \in 0 .. n - 1 /\ ((start + i - 1) % n = h <=> i = k + 1)
    <2>0. i \in 1 .. n
      OBVIOUS
    <2>1. (start + i - 1) % n = IF start + i - 1 < n THEN start + i - 1 ELSE start + i - 1 - n
      BY <1>3, <2>0, On
    <2> QED BY <2>1, <1>1, <1>3
  <1> QED
    BY <1>3, <1>5, <1>6 DEF start, next

\* The slots of a full ring: it begins one slot further on, and every sample
\* but the oldest stays where it is.
LEMMA FullCircle ==
    ASSUME NEW n \in Nat \ {0}, NEW h \in 0 .. n - 1
    PROVE  (h + n - n) % n = h
  <1>1. h + n - n = h
    OBVIOUS
  <1> QED BY <1>1

LEMMA HeadWhenFull ==
    ASSUME NEW n \in Nat \ {0}, NEW h \in 0 .. n - 1, NEW i \in 1 .. n
    PROVE  (((h + 1) % n) + i - 1) % n = h <=> i = n
  <1> DEFINE next == (h + 1) % n
  <1>1. next = IF h + 1 < n THEN h + 1 ELSE 0
    BY OneOn
  <1>2. next \in 0 .. n - 1
    BY <1>1
  <1> HIDE DEF next
  <1>3. (next + i - 1) % n = IF next + i - 1 < n THEN next + i - 1 ELSE next + i - 1 - n
    BY <1>2, On
  <1>4. next = h + 1 \/ (next = 0 /\ h = n - 1)
    BY <1>1
  <1>5. (next + i - 1) % n = h <=> i = n
    BY <1>1, <1>3, <1>4
  <1> QED BY <1>5 DEF next

LEMMA OthersWhenFull ==
    ASSUME NEW n \in Nat \ {0}, NEW h \in 0 .. n - 1, NEW i \in 1 .. n, i < n
    PROVE  (((h + 1) % n) + i - 1) % n = (h + i) % n
  <1> DEFINE next == (h + 1) % n
  <1>1. next = IF h + 1 < n THEN h + 1 ELSE 0
    BY OneOn
  <1>2. next \in 0 .. n - 1
    BY <1>1
  <1> HIDE DEF next
  <1>3. (next + i - 1) % n = IF next + i - 1 < n THEN next + i - 1 ELSE next + i - 1 - n
    BY <1>2, On
  <1>4. (h + i) % n = IF h + i < n THEN h + i ELSE h + i - n
    OBVIOUS
  <1>5. (next + i - 1) % n = (h + i) % n
    BY <1>1, <1>3, <1>4
  <1> QED BY <1>5 DEF next

LEMMA NewRingType ==
    ASSUME NEW s \in Samples
    PROVE  NewRing(s) \in Rings /\ Snapshot(NewRing(s)) = <<>>
  BY RingSizeAssumption DEF NewRing, Rings, Slots, Snapshot

LEMMA SnapshotType ==
    ASSUME NEW r \in Rings
    PROVE  Snapshot(r) \in Seq(Samples) /\ Len(Snapshot(r)) = r.size
  <1> DEFINE start == (r.head + RingSize - r.size) % RingSize
  <1>1. start \in Slots
    BY RingSizeAssumption DEF Rings, Slots
  <1>2. ASSUME NEW i \in 1 .. r.size
        PROVE  r.samples[(start + i - 1) % RingSize] \in Samples
    BY <1>1, RingSizeAssumption DEF Rings, Slots
  <1> QED
    BY <1>2, RingSizeAssumption DEF Snapshot, Rings, Slots

LEMMA AddType ==
    ASSUME NEW r \in Rings, NEW s \in Samples
    PROVE  Add(r, s) \in Rings
  BY RingSizeAssumption DEF Add, Rings, Slots

\* While there is room a sample joins the others ...
LEMMA AddWithRoom ==
    ASSUME NEW r \in Rings, NEW s \in Samples, r.size < RingSize
    PROVE  Snapshot(Add(r, s)) = Append(Snapshot(r), s)
  <1> DEFINE n == RingSize
             h == r.head
             k == r.size
             start == (h + n - k) % n
             at(i) == (start + i - 1) % n
  <1>1. n \in Nat \ {0} /\ h \in 0 .. n - 1 /\ k \in 0 .. n - 1
    BY RingSizeAssumption DEF Rings, Slots
  <1>2. (((h + 1) % n) + n - (k + 1)) % n = start
    BY <1>1, SlotsWithRoom
  <1>3. \A i \in 1 .. k + 1 : at(i) \in 0 .. n - 1 /\ (at(i) = h <=> i = k + 1)
    BY <1>1, SlotsWithRoom
  <1>4. Snapshot(r) = [i \in 1 .. k |-> r.samples[at(i)]]
    BY DEF Snapshot
  <1>5. Snapshot(Add(r, s)) = [i \in 1 .. k + 1 |-> [r.samples EXCEPT ![h] = s][at(i)]]
    BY <1>1, <1>2 DEF Snapshot, Add
  <1>6. r.samples \in [0 .. n - 1 -> Samples]
    BY DEF Rings, Slots
  <1> HIDE DEF at
  <1>7. Snapshot(Add(r, s)) = [i \in 1 .. k + 1 |-> IF i = k + 1 THEN s ELSE r.samples[at(i)]]
    BY <1>3, <1>5, <1>6
  <1>8. Snapshot(r) \in Seq(Samples) /\ Len(Snapshot(r)) = k
    BY SnapshotType
  <1> QED
    BY <1>1, <1>4, <1>7, <1>8

\* ... and once the ring is full it takes the place of the oldest.
LEMMA AddWhenFull ==
    ASSUME NEW r \in Rings, NEW s \in Samples, r.size = RingSize
    PROVE  Snapshot(Add(r, s)) = SubSeq(Append(Snapshot(r), s), 2, RingSize + 1)
  <1> DEFINE n == RingSize
             h == r.head
             old(i) == (h + i - 1) % n
             new(i) == (((h + 1) % n) + i - 1) % n
  <1>1. n \in Nat \ {0} /\ h \in 0 .. n - 1
    BY RingSizeAssumption DEF Rings, Slots
  <1>2. (h + n - n) % n = h /\ (((h + 1) % n) + n - n) % n = (h + 1) % n
    <2>1. (h + 1) % n \in 0 .. n - 1
      BY <1>1, OneOn
    <2> DEFINE g == (h + 1) % n
    <2> HIDE DEF g
    <2>2. g \in 0 .. n - 1
      BY <2>1 DEF g
    <2>3. (g + n - n) % n = g
      BY <1>1, <2>2, FullCircle
    <2>4. (h + n - n) % n = h
      BY <1>1, FullCircle
    <2> QED BY <2>3, <2>4 DEF g
  <1>3. \A i \in 1 .. n : /\ new(i) \in 0 .. n - 1
                          /\ new(i) = h <=> i = n
                          /\ i < n => new(i) = old(i + 1)
    <2>1. \A i \in 1 .. n : new(i) \in 0 .. n - 1
      BY <1>1
    <2>2. \A i \in 1 .. n : new(i) = h <=> i = n
      BY <1>1, HeadWhenFull
    <2>3. \A i \in 1 .. n : i < n => new(i) = (h + i) % n
      BY <1>1, OthersWhenFull
    <2>4. \A i \in 1 .. n : old(i + 1) = (h + i) % n
      <3> SUFFICES ASSUME NEW i \in 1 .. n PROVE old(i + 1) = (h + i) % n
        OBVIOUS
      <3>1. h + (i + 1) - 1 = h + i
        BY <1>1
      <3> QED BY <3>1
    <2> QED BY <2>1, <2>2, <2>3, <2>4
  <1>4. Snapshot(r) = [i \in 1 .. n |-> r.samples[old(i)]]
    BY <1>2 DEF Snapshot
  <1>5. Snapshot(Add(r, s)) = [i \in 1 .. n |-> [r.samples EXCEPT ![h] = s][new(i)]]
    BY <1>1, <1>2 DEF Snapshot, Add
  <1>6. r.samples \in [0 .. n - 1 -> Samples]
    BY DEF Rings, Slots
  <1> HIDE DEF old, new
  <1>7. Snapshot(Add(r, s)) = [i \in 1 .. n |-> IF i = n THEN s ELSE r.samples[old(i + 1)]]
    BY <1>1, <1>3, <1>5, <1>6
  <1>8. Snapshot(r) \in Seq(Samples) /\ Len(Snapshot(r)) = n
    BY SnapshotType
  <1> QED
    BY <1>1, <1>4, <1>7, <1>8

---------------------------------------------------------------------------
(* Type correctness. *)

LEMMA ConstantTypes ==
    /\ Second \in Nat \ {0} /\ PollInterval \in Nat \ {0} /\ ConfirmPoll \in Nat \ {0}
    /\ MaxRestarts \in Nat /\ MaxTime \in Nat /\ Durations \subseteq Nat
  BY TimesAssumption

LEMMA SampleType ==
    ASSUME now \in Times, count \in Nat, NEW finding \in Findings
    PROVE  /\ Counted(count, finding) \in Nat
           /\ SampleOf(Counted(count, finding), finding) \in Samples
  <1>1. Counted(count, finding) \in Nat
    BY DEF Counted, Findings
  <1> QED BY <1>1 DEF SampleOf, Samples

LEMMA ZeroSampleType == ZeroSample \in Samples
  BY TimesAssumption DEF ZeroSample, Samples, Times

LEMMA NoRecorderType == NoRecorder \in Recordings
  BY TimesAssumption DEF NoRecorder, Recordings, Times

LEMMA NewRecorderType ==
    ASSUME now \in Times, NEW r \in Rings
    PROVE  NewRecorder(r) \in Recordings
  <1>1. Snapshot(r) \in Seq(Samples)
    BY SnapshotType
  <1> QED BY <1>1, NoRecorderType DEF NewRecorder, Recordings

LEMMA RemainderType ==
    ASSUME NEW a \in Nat, NEW n \in Nat \ {0}
    PROVE  a % n \in 0 .. n - 1
  OBVIOUS

LEMMA BoundaryType ==
    ASSUME now \in Times
    PROVE  NextBoundary \in 1 .. PollInterval
  <1>1. now \in Nat /\ PollInterval \in Nat \ {0}
    BY TimesAssumption DEF Times
  <1>2. now % PollInterval \in 0 .. PollInterval - 1
    BY <1>1, RemainderType
  <1> QED BY <1>1, <1>2 DEF NextBoundary

LEMMA ReturnType ==
    ASSUME now \in Times, Return
    PROVE  pc' = "idle" /\ wait' \in Nat /\ rec' \in Recordings
  BY BoundaryType, NoRecorderType, TimesAssumption DEF Return

LEMMA WriteType ==
    ASSUME TypeOK, NEW recording \in Recordings, NEW result \in Results,
           WriteAsync(recording, result)
    PROVE  /\ writers' \subseteq [recording : Recordings, opened : BOOLEAN]
           /\ finished' \subseteq Times
  <1>1. [recording EXCEPT !.result = result] \in Recordings
    BY DEF Recordings
  <1>2. recording.detected \in Times
    BY DEF Recordings
  <1> DEFINE w == [recording |-> [recording EXCEPT !.result = result], opened |-> FALSE]
  <1>3. w \in [recording : Recordings, opened : BOOLEAN]
    BY <1>1
  <1> HIDE DEF w
  <1>4. writers' = writers \cup {w} /\ finished' = finished \cup {recording.detected}
    BY DEF WriteAsync, w
  <1> QED BY <1>2, <1>3, <1>4 DEF TypeOK

LEMMA NameType ==
    ASSUME NEW recording \in Recordings
    PROVE  FileName(recording) \in Names
  BY DEF Recordings, FileName, Names

\* A poll adds its sample to those of its run.
LEMMA PolledType ==
    ASSUME TypeOK, NEW s \in Samples, polls' = [polls EXCEPT ![restarts] = Append(@, s)]
    PROVE  /\ polls' \in [Runs -> Seq(Samples)]
           /\ polls'[restarts] = Append(polls[restarts], s)
           /\ \A run \in Runs : run # restarts => polls'[run] = polls[run]
  <1> DEFINE t == Append(polls[restarts], s)
  <1>1. polls \in [Runs -> Seq(Samples)] /\ restarts \in Runs
    BY DEF TypeOK
  <1>2. t \in Seq(Samples)
    BY <1>1
  <1>3. polls' = [polls EXCEPT ![restarts] = t]
    BY <1>1
  <1> HIDE DEF t
  <1>4. /\ polls' \in [Runs -> Seq(Samples)]
        /\ polls'[restarts] = t
        /\ \A run \in Runs : run # restarts => polls'[run] = polls[run]
    BY <1>1, <1>2, <1>3
  <1> QED BY <1>4 DEF t

LEMMA InitTypeOK == Init => TypeOK
  <1> SUFFICES ASSUME Init PROVE TypeOK
    OBVIOUS
  <1>1. ring \in Rings
    BY ZeroSampleType, NewRingType DEF Init
  <1>2. rec \in Recordings /\ files \in [Names -> Files]
    BY NoRecorderType DEF Init, NoFile, Files
  <1>3. polls \in [Runs -> Seq(Samples)] /\ restarts \in Runs
    BY TimesAssumption DEF Init, Runs
  <1> QED BY <1>1, <1>2, <1>3, TimesAssumption DEF Init, TypeOK, Rings, Times

LEMMA NextTypeOK == TypeOK /\ [Next]_vars => TypeOK'
  <1> SUFFICES ASSUME TypeOK, [Next]_vars PROVE TypeOK'
    OBVIOUS
  <1> USE DEF loop, disk, history
  <1>0. now \in Times /\ count \in Nat /\ ring \in Rings /\ rec \in Recordings
    BY DEF TypeOK, Rings
  <1>1. CASE StartPoll
    BY <1>1, TimesAssumption DEF StartPoll, TypeOK
  <1>2. CASE Poll
    <2> PICK finding \in Findings :
            LET c == Counted(count, finding)
                r == Add(ring, SampleOf(c, finding))
            IN  /\ count' = c
                /\ ring' = r
                /\ polls' = [polls EXCEPT ![restarts] = Append(@, SampleOf(c, finding))]
                /\ \/ pc' = "candidate" /\ rec' = NewRecorder(r) /\ UNCHANGED wait
                   \/ pc' = "standDown" /\ rec' = NewRecorder(r) /\ wait' \in Durations
                   \/ Return
      BY <1>2 DEF Poll
    <2> DEFINE c == Counted(count, finding)
               s == SampleOf(c, finding)
               r == Add(ring, s)
    <2>1. c \in Nat /\ s \in Samples
      BY <1>0, SampleType
    <2> HIDE DEF c, s
    <2>2. r \in Rings
      BY <1>0, <2>1, AddType
    <2> HIDE DEF r
    <2>3. count' = c /\ ring' = r /\ polls' = [polls EXCEPT ![restarts] = Append(@, s)]
      BY DEF c, s, r
    <2>4. polls' \in [Runs -> Seq(Samples)]
      BY <2>1, <2>3, PolledType
    <2>5. /\ pc' \in {"candidate", "standDown", "idle"}
          /\ wait' \in Nat
          /\ rec' \in Recordings
      <3>1. \/ pc' = "candidate" /\ rec' = NewRecorder(r) /\ UNCHANGED wait
            \/ pc' = "standDown" /\ rec' = NewRecorder(r) /\ wait' \in Durations
            \/ Return
        BY DEF c, s, r
      <3>2. NewRecorder(r) \in Recordings
        BY <1>0, <2>2, NewRecorderType
      <3> QED BY <1>0, <3>1, <3>2, ReturnType, TimesAssumption DEF TypeOK
    <2>6. UNCHANGED <<now, disk, finished, restarts>>
      BY <1>2 DEF Poll
    <2> QED BY <2>1, <2>2, <2>3, <2>4, <2>5, <2>6 DEF TypeOK, Rings
  <1>3. CASE EndStandDown
    <2>1. count' \in Nat
      BY <1>0, <1>3, SampleType DEF EndStandDown
    <2> QED BY <1>0, <1>3, <2>1, ReturnType DEF EndStandDown, TypeOK
  <1>4. CASE AbortUnhealthy
    <2>1. /\ writers' \subseteq [recording : Recordings, opened : BOOLEAN]
          /\ finished' \subseteq Times
      BY <1>0, <1>4, WriteType DEF AbortUnhealthy, Results
    <2> QED BY <1>0, <1>4, <2>1, ReturnType DEF AbortUnhealthy, TypeOK
  <1>5. CASE AlreadyActive
    BY <1>0, <1>5, ReturnType DEF AlreadyActive, TypeOK
  <1>6. CASE Delay
    <2>1. wait' \in Nat /\ pc' \in {"takeover", "sleeping"}
      BY <1>6, TimesAssumption DEF Delay
    <2> QED BY <1>6, <2>1 DEF Delay, TypeOK
  <1>7. CASE Revalidate
    <2> PICK finding \in Findings :
            LET c == Counted(count, finding)
                r == [rec EXCEPT !.samples = Append(@, SampleOf(c, finding))]
            IN  /\ count' = c
                /\ \/ Return /\ DropRecorder
                   \/ WriteAsync(r, "aborted_peer_took_over") /\ Return
                   \/ /\ pc' = "takeover" /\ wait' \in Durations /\ rec' = r
                      /\ DropRecorder
      BY <1>7 DEF Revalidate
    <2> DEFINE c == Counted(count, finding)
               r == [rec EXCEPT !.samples = Append(@, SampleOf(c, finding))]
    <2>1. c \in Nat /\ SampleOf(c, finding) \in Samples
      BY <1>0, SampleType
    <2>2. r \in Recordings
      BY <1>0, <2>1 DEF Recordings
    <2>3. CASE Return /\ DropRecorder
      BY <1>0, <1>7, <2>1, <2>3, ReturnType DEF Revalidate, TypeOK, DropRecorder
    <2>4. CASE WriteAsync(r, "aborted_peer_took_over") /\ Return
      <3>1. /\ writers' \subseteq [recording : Recordings, opened : BOOLEAN]
            /\ finished' \subseteq Times
        BY <2>2, <2>4, WriteType DEF Results
      <3> QED BY <1>0, <1>7, <2>1, <2>4, <3>1, ReturnType DEF Revalidate, TypeOK
    <2>5. CASE pc' = "takeover" /\ wait' \in Durations /\ rec' = r /\ DropRecorder
      BY <1>7, <2>1, <2>2, <2>5, TimesAssumption DEF Revalidate, TypeOK, DropRecorder
    <2> QED BY <2>3, <2>4, <2>5
  <1>8. CASE EndTakeover
    <2>1. [rec EXCEPT !.confirmed = now] \in Recordings
      BY <1>0 DEF Recordings
    <2>2. /\ writers' \subseteq [recording : Recordings, opened : BOOLEAN]
          /\ finished' \subseteq Times
      BY <1>0, <1>8, <2>1, WriteType DEF EndTakeover, Results
    <2> QED BY <1>0, <1>8, <2>2, ReturnType DEF EndTakeover, TypeOK
  <1>9. ASSUME NEW w \in writers, Open(w) PROVE TypeOK'
    <2>1. TornFile \in Files
      BY NoRecorderType DEF TornFile, Files
    <2>2. files' \in [Names -> Files]
      BY <1>9, <2>1 DEF Open, TypeOK
    <2>3. writers' \subseteq [recording : Recordings, opened : BOOLEAN]
      BY <1>9 DEF Open, TypeOK
    <2> QED BY <1>9, <2>2, <2>3 DEF Open, TypeOK
  <1>10. ASSUME NEW w \in writers, Write(w) PROVE TypeOK'
    <2>1. [state |-> "written", recording |-> w.recording] \in Files
      BY DEF TypeOK, Files
    <2>2. files' \in [Names -> Files]
      BY <1>10, <2>1 DEF Write, TypeOK
    <2> QED BY <1>10, <2>2 DEF Write, TypeOK
  <1>11. CASE Crash
    <2>1. ring' \in Rings
      BY <1>11, ZeroSampleType, NewRingType DEF Crash
    <2>2. restarts' \in Runs
      BY <1>11, ConstantTypes DEF Crash, TypeOK, Runs
    <2> QED BY <1>11, <2>1, <2>2, NoRecorderType DEF Crash, TypeOK, Rings
  <1>12. CASE Start
    <2>1. wait' \in Nat
      BY <1>0, <1>12, BoundaryType, TimesAssumption DEF Start
    <2>2. count' \in Nat
      BY <1>12 DEF Start, Counted, Findings
    <2> QED BY <1>12, <2>1, <2>2 DEF Start, TypeOK
  <1>13. CASE Tick
    BY <1>13, ConstantTypes DEF Tick, TypeOK, Times
  <1>14. CASE Down
    BY <1>14, ConstantTypes DEF Down, TypeOK, Times
  <1>15. CASE UNCHANGED vars
    BY <1>15 DEF vars, TypeOK
  <1> QED
    BY <1>1, <1>2, <1>3, <1>4, <1>5, <1>6, <1>7, <1>8, <1>9, <1>10, <1>11, <1>12,
       <1>13, <1>14, <1>15 DEF Next, Over

\* The ring, the recorder, the writers and their files keep their types.
THEOREM TypeCorrect == Spec => []TypeOK
  BY InitTypeOK, NextTypeOK, PTL DEF Spec

---------------------------------------------------------------------------
(* The window. *)

LEMMA OneSample ==
    ASSUME NEW s \in Seq(Samples), NEW t \in Samples
    PROVE  LET u == Append(s, t) IN u # <<>> /\ u[Len(u)] = t
  OBVIOUS

\* Adding to the ring is observing a sample.
LEMMA AddObserves ==
    ASSUME ring \in Rings, NEW s \in Samples, ring' = Add(ring, s)
    PROVE  Window!Observe
  <1> DEFINE w == Snapshot(ring)
             v == Snapshot(Add(ring, s))
  <1>1. w \in Seq(Samples) /\ Len(w) = ring.size /\ ring.size \in 0 .. RingSize
    BY SnapshotType DEF Rings
  <1>2. Snapshot(ring)' = v
    BY DEF Snapshot
  <1>3. v = Window!LastOf(Append(w, s), RingSize) /\ v # <<>> /\ v[Len(v)] = s
    <2>1. CASE ring.size < RingSize
      <3>1. v = Append(w, s)
        BY <2>1, AddWithRoom
      <3> HIDE DEF w, v
      <3>2. Len(Append(w, s)) = ring.size + 1
        BY <1>1
      <3>4. Append(w, s) # <<>>
        BY <1>1, OneSample
      <3>3. Append(w, s)[ring.size + 1] = s
        BY <1>1
      <3> QED BY <1>1, <2>1, <3>1, <3>2, <3>3, <3>4, RingSizeAssumption DEF Window!LastOf
    <2>2. CASE ring.size = RingSize
      <3>1. v = SubSeq(Append(w, s), 2, RingSize + 1)
        BY <2>2, AddWhenFull
      <3> HIDE DEF w, v
      <3>2. Len(Append(w, s)) = RingSize + 1 /\ Append(w, s)[RingSize + 1] = s
        BY <1>1, <2>2
      <3>3. v = Window!LastOf(Append(w, s), RingSize)
        BY <3>1, <3>2, RingSizeAssumption DEF Window!LastOf
      <3>4. Len(v) = RingSize /\ v[RingSize] = s
        BY <1>1, <3>1, <3>2, RingSizeAssumption
      <3> QED BY <3>3, <3>4, RingSizeAssumption
    <2> QED BY <1>1, <2>1, <2>2, RingSizeAssumption
  <1> QED BY <1>2, <1>3 DEF Window!Observe

LEMMA NextWindow == TypeOK /\ [Next]_vars => [Window!Next]_(Snapshot(ring))
  <1> SUFFICES ASSUME TypeOK, [Next]_vars
               PROVE  Window!Next \/ Snapshot(ring)' = Snapshot(ring)
    OBVIOUS
  <1>1. CASE Poll
    <2>1. PICK finding \in Findings :
              ring' = Add(ring, SampleOf(Counted(count, finding), finding))
      BY <1>1 DEF Poll
    <2>2. SampleOf(Counted(count, finding), finding) \in Samples
      BY SampleType DEF TypeOK
    <2>3. ring \in Rings
      BY DEF TypeOK, Rings
    <2> QED BY <2>1, <2>2, <2>3, AddObserves DEF Window!Next
  <1>2. CASE Crash
    <2>1. Snapshot(NewRing(ZeroSample)) = <<>>
      BY ZeroSampleType, NewRingType
    <2>2. ring' = NewRing(ZeroSample)
      BY <1>2 DEF Crash
    <2>3. Snapshot(ring)' = <<>>
      BY <2>1, <2>2 DEF Snapshot
    <2> QED BY <2>3 DEF Window!Next, Window!Forget
  <1>3. CASE ring' = ring
    BY <1>3 DEF Snapshot
  <1> QED
    <2>1. Poll \/ Crash \/ ring' = ring
      BY DEF Next, StartPoll, EndStandDown, AbortUnhealthy, AlreadyActive, Delay, Revalidate,
             EndTakeover, Open, Write, Start, Tick, Down, Over, vars, loop
    <2> QED BY <1>1, <1>2, <1>3, <2>1

\* The ring implements the window of the last samples, whatever its size.
THEOREM WindowIsKept == Spec => WindowKept
  <1>1. Init => Window!Init
    <2> SUFFICES ASSUME Init PROVE Snapshot(ring) = <<>>
      BY DEF Window!Init
    <2> QED BY ZeroSampleType, NewRingType DEF Init
  <1> QED BY <1>1, InitTypeOK, NextTypeOK, NextWindow, PTL DEF Spec, WindowKept, Window!Spec

---------------------------------------------------------------------------
(* No recording takes the file name of another. *)

SecondOf(t) == t \div Second

\* Whole seconds: the quotient is that of the remainder, and grows with t.
LEMMA Quotient ==
    ASSUME NEW a \in Nat, NEW n \in Nat \ {0}
    PROVE  /\ a \div n \in Nat
           /\ n * (a \div n) <= a
           /\ a < n * (a \div n) + n
  OBVIOUS

LEMMA Product ==
    ASSUME NEW n \in Nat \ {0}, NEW p \in Nat, NEW q \in Nat, p <= q
    PROVE  n * p <= n * q /\ n * p \in Nat /\ n * q \in Nat
  <1>1. PICK d \in Nat : q = p + d
    <2>1. q - p \in Nat /\ q = p + (q - p)
      OBVIOUS
    <2> QED BY <2>1
  <1>2. n * q = n * p + n * d /\ n * d \in Nat /\ n * p \in Nat
    BY <1>1
  <1> QED BY <1>2

LEMMA SecondGrows ==
    ASSUME NEW a \in Nat, NEW b \in Nat, a <= b
    PROVE  SecondOf(a) <= SecondOf(b)
  <1> DEFINE p == SecondOf(a)
             q == SecondOf(b)
  <1>1. Second \in Nat \ {0}
    BY ConstantTypes
  <1>2. /\ p \in Nat /\ Second * p <= a
        /\ q \in Nat /\ b < Second * q + Second
    BY <1>1, Quotient DEF SecondOf
  <1> HIDE DEF p, q
  <1> SUFFICES ASSUME ~(p <= q) PROVE FALSE
    BY <1>2 DEF p, q
  <1>3. q + 1 \in Nat /\ q + 1 <= p
    BY <1>2
  <1>4. Second * (q + 1) <= Second * p /\ Second * p \in Nat
    BY <1>1, <1>2, <1>3, Product
  <1>5. Second * (q + 1) = Second * q + Second
    BY <1>1, <1>2
  <1>6. Second * q \in Nat
    BY <1>1, <1>2
  <1> QED BY <1>1, <1>2, <1>4, <1>5, <1>6

\* A second later is another second.
LEMMA NextSecond ==
    ASSUME NEW a \in Nat, NEW b \in Nat, a + Second <= b
    PROVE  SecondOf(a) < SecondOf(b)
  <1> DEFINE p == SecondOf(a)
             q == SecondOf(b)
  <1>1. Second \in Nat \ {0}
    BY ConstantTypes
  <1>2. /\ p \in Nat /\ Second * p <= a
        /\ q \in Nat /\ b < Second * q + Second
    BY <1>1, Quotient DEF SecondOf
  <1> HIDE DEF p, q
  <1> SUFFICES ASSUME ~(p < q) PROVE FALSE
    BY <1>2 DEF p, q
  <1>3. q <= p
    BY <1>2
  <1>4. Second * q <= Second * p /\ Second * p \in Nat /\ Second * q \in Nat
    BY <1>1, <1>2, <1>3, Product
  <1> QED BY <1>1, <1>2, <1>4

\* So is a boundary between seconds.
LEMMA BoundarySecond ==
    ASSUME NEW a \in Nat, NEW k \in Nat, a < Second * k
    PROVE  SecondOf(a) < SecondOf(Second * k)
  <1> DEFINE p == SecondOf(a)
             q == SecondOf(Second * k)
  <1>1. Second \in Nat \ {0} /\ Second * k \in Nat
    BY ConstantTypes
  <1>2. /\ p \in Nat /\ Second * p <= a
        /\ q \in Nat /\ Second * k < Second * q + Second
    BY <1>1, Quotient DEF SecondOf
  <1> HIDE DEF p, q
  <1>3. p < k
    <2> SUFFICES ASSUME k <= p PROVE FALSE
      BY <1>2
    <2>1. Second * k <= Second * p /\ Second * p \in Nat
      BY <1>1, <1>2, Product
    <2> QED BY <1>1, <1>2, <2>1
  <1>4. k <= q
    <2> SUFFICES ASSUME q + 1 <= k PROVE FALSE
      BY <1>2
    <2>1. Second * (q + 1) <= Second * k
      BY <1>1, <1>2, Product
    <2>2. Second * (q + 1) = Second * q + Second
      BY <1>1, <1>2
    <2> QED BY <1>1, <1>2, <2>1, <2>2
  <1> QED BY <1>2, <1>3, <1>4 DEF p, q

LEMMA Division ==
    ASSUME NEW a \in Nat, NEW n \in Nat \ {0}
    PROVE  a = n * (a \div n) + (a % n)
  OBVIOUS

\* The time of a next poll is in a later second.
LEMMA ReturnLater ==
    ASSUME now \in Times, Return
    PROVE  wait' \in Nat /\ SecondOf(now) < SecondOf(now + wait')
  <1>1. /\ now \in Nat /\ Second \in Nat \ {0} /\ PollInterval \in Nat \ {0}
        /\ ConfirmPoll \in Nat /\ ConfirmPoll >= Second
    BY TimesAssumption, WholeSeconds DEF Times
  <1>2. wait' = ConfirmPoll \/ wait' = NextBoundary
    BY DEF Return
  <1>3. CASE wait' = ConfirmPoll
    <2>1. now + ConfirmPoll \in Nat /\ now + Second <= now + ConfirmPoll
      BY <1>1
    <2> QED BY <1>1, <1>3, <2>1, NextSecond
  <1>4. CASE wait' = NextBoundary
    <2> DEFINE p == PollInterval \div Second
               q == now \div PollInterval
    <2>1. PollInterval = Second * p /\ p \in Nat
      <3>1. p \in Nat
        BY <1>1, Quotient
      <3>2. PollInterval = Second * p + (PollInterval % Second)
        BY <1>1, Division
      <3> HIDE DEF p
      <3> QED BY <1>1, <3>1, <3>2, WholeSeconds
    <2> DEFINE r == now % PollInterval
    <2>2. now = PollInterval * q + r /\ q \in Nat
      BY <1>1, Division, Quotient
    <2>3. NextBoundary = PollInterval - r /\ NextBoundary \in 1 .. PollInterval
      BY BoundaryType DEF NextBoundary
    <2>4. r \in Nat
      BY <1>1, RemainderType
    <2> DEFINE k == p * (q + 1)
    <2> HIDE DEF p, q, r
    <2>5. now + NextBoundary = PollInterval * q + PollInterval /\ PollInterval * q \in Nat
      BY <1>1, <2>2, <2>3, <2>4
    <2>6. PollInterval * q + PollInterval = Second * k /\ k \in Nat
      <3>1. PollInterval * q + PollInterval = PollInterval * (q + 1)
        BY <1>1, <2>2
      <3>2. (Second * p) * (q + 1) = Second * (p * (q + 1)) /\ p * (q + 1) \in Nat
        BY <1>1, <2>1, <2>2
      <3> QED BY <2>1, <3>1, <3>2
    <2> HIDE DEF k
    <2>7. now < Second * k /\ NextBoundary \in Nat
      BY <1>1, <2>3, <2>5, <2>6
    <2> QED BY <1>1, <1>4, <2>5, <2>6, <2>7, BoundarySecond
  <1> QED BY <1>2, <1>3, <1>4

LEMMA StartLater ==
    ASSUME now \in Times
    PROVE  SecondOf(now) < SecondOf(now + (PollInterval + NextBoundary))
  <1>1. /\ now \in Nat /\ Second \in Nat \ {0} /\ PollInterval \in Nat \ {0}
    BY TimesAssumption DEF Times
  <1>2. NextBoundary \in Nat
    BY BoundaryType
  <1>3. Second <= PollInterval
    <2>1. ASSUME PollInterval < Second PROVE FALSE
      <3>1. PollInterval % Second = PollInterval
        BY <1>1, <2>1
      <3> QED BY <1>1, <3>1, WholeSeconds
    <2> QED BY <1>1, <2>1
  <1>4. now + Second <= now + (PollInterval + NextBoundary)
        /\ now + (PollInterval + NextBoundary) \in Nat
    BY <1>1, <1>2, <1>3
  <1> QED BY <1>1, <1>4, NextSecond

\* The names that are taken: those of the recordings to be written and of the
\* files that are.
Taken == {FileName(w.recording) : w \in writers}
             \cup {f \in Names : files[f].state = "written"}

Recorded == {"candidate", "sleeping", "takeover", "standDown"}

\* The first name that a recording yet to be handed over can have.
NextName ==
    IF pc \in Recorded THEN FileName(rec)
    ELSE IF pc = "idle" THEN SecondOf(now + wait)
    ELSE IF pc = "polling" THEN SecondOf(now)
    ELSE SecondOf(now) + 1

\* Each name is taken once, and by a past failover; the next one is free.
NamesInv ==
    /\ \A f \in Names : files[f].state = "written" => FileName(files[f].recording) = f
    /\ \A w \in writers : files[FileName(w.recording)].state # "written"
    /\ \A v, w \in writers : FileName(v.recording) = FileName(w.recording) => v = w
    /\ \A name \in Taken : name <= SecondOf(now) /\ name < NextName
    /\ pc \in Recorded => rec.detected <= now

SurvivalInv == NamesInv /\ RecordingSurvives

LEMMA NameOf ==
    ASSUME NEW recording \in Recordings
    PROVE  /\ FileName(recording) = SecondOf(recording.detected)
           /\ FileName(recording) \in Names /\ FileName(recording) \in Nat
           /\ recording.detected \in Nat
  <1>1. recording.detected \in Nat /\ Second \in Nat \ {0}
    BY ConstantTypes DEF Recordings, Times
  <1>2. recording.detected \div Second \in Nat
    BY <1>1, Quotient
  <1> QED BY <1>1, <1>2, NameType DEF FileName, SecondOf

LEMMA SecondType == \A t \in Nat : SecondOf(t) \in Nat
  BY Quotient, ConstantTypes DEF SecondOf

LEMMA TakenType ==
    ASSUME TypeOK
    PROVE  Taken \subseteq Nat
  <1>1. Names \subseteq Nat
    BY SecondType DEF Names, SecondOf, Times
  <1>2. \A w \in writers : FileName(w.recording) \in Nat
    BY NameOf DEF TypeOK
  <1> QED BY <1>1, <1>2 DEF Taken

LEMMA NextNameType == TypeOK => NextName \in Nat
  <1> SUFFICES ASSUME TypeOK PROVE NextName \in Nat
    OBVIOUS
  <1>1. now \in Nat /\ wait \in Nat /\ now + wait \in Nat
    BY DEF TypeOK, Times
  <1>2. FileName(rec) \in Nat
    BY NameOf DEF TypeOK
  <1>3. SecondOf(now) \in Nat /\ SecondOf(now + wait) \in Nat /\ SecondOf(now) + 1 \in Nat
    BY <1>1, SecondType
  <1> QED BY <1>2, <1>3 DEF NextName

NextNameOk == NextName \in Nat

LEMMA NextNameOkType == TypeOK => NextNameOk
  BY NextNameType DEF NextNameOk

LEMMA NextNameOkNext == TypeOK' => NextNameOk'
  BY NextNameOkType, PTL

LEMMA NextNameTypeNext == TypeOK' => NextName' \in Nat
  BY NextNameOkNext DEF NextNameOk

LEMMA NextNameNext ==
    ASSUME TypeOK
    PROVE  /\ pc' \in Recorded => NextName' = FileName(rec')
           /\ pc' = "idle" => NextName' = SecondOf(now' + wait')
           /\ pc' = "polling" => NextName' = SecondOf(now')
           /\ pc' = "down" => NextName' = SecondOf(now') + 1
  BY DEF NextName, Recorded, FileName, SecondOf

LEMMA NextNameNow ==
    ASSUME TypeOK
    PROVE  /\ pc \in Recorded => NextName = FileName(rec)
           /\ pc = "idle" => NextName = SecondOf(now + wait)
           /\ pc = "polling" => NextName = SecondOf(now)
           /\ pc = "down" => NextName = SecondOf(now) + 1
  BY DEF NextName, Recorded

\* A step that leaves the files and their writers alone keeps the invariant if
\* the next name does not go back.
LEMMA UndisturbedNames ==
    ASSUME TypeOK, TypeOK', SurvivalInv, UNCHANGED <<writers, files, finished>>,
           now <= now', NextName <= NextName',
           pc' \in Recorded => rec'.detected <= now'
    PROVE  SurvivalInv'
  <1>1. Taken' = Taken /\ OnDisk' = OnDisk
    BY DEF Taken, OnDisk, FileName
  <1>2. now \in Nat /\ now' \in Nat
    BY DEF TypeOK, Times
  <1>3. SecondOf(now) <= SecondOf(now') /\ SecondOf(now) \in Nat /\ SecondOf(now') \in Nat
    BY <1>2, SecondGrows, SecondType
  <1>4. ASSUME NEW name \in Taken PROVE name <= SecondOf(now') /\ name < NextName'
    <2>1. name \in Nat /\ name <= SecondOf(now) /\ name < NextName
      BY TakenType DEF SurvivalInv, NamesInv
    <2>2. NextName \in Nat /\ NextName' \in Nat
      BY NextNameType, NextNameTypeNext
    <2> DEFINE a == NextName
               b == NextName'
               c == SecondOf(now)
               d == SecondOf(now')
    <2>3. a <= b /\ a \in Nat /\ b \in Nat /\ c <= d /\ c \in Nat /\ d \in Nat
          /\ name <= c /\ name < a
      BY <1>3, <2>1, <2>2
    <2> HIDE DEF a, b, c, d
    <2>4. name <= d /\ name < b
      BY <2>1, <2>3
    <2> QED BY <2>4 DEF b, d
  <1>5. \A name \in Taken' : name <= SecondOf(now)' /\ name < NextName'
    BY <1>1, <1>4 DEF SecondOf
  <1>6. NamesInv'
    BY <1>5 DEF SurvivalInv, NamesInv, FileName
  <1>7. RecordingSurvives'
    BY <1>1 DEF SurvivalInv, RecordingSurvives
  <1> QED BY <1>6, <1>7 DEF SurvivalInv

\* A recording that is handed over takes the name that was free.
LEMMA HandOver ==
    ASSUME TypeOK, TypeOK', SurvivalInv, pc \in Recorded, Return, now' = now, files' = files,
           NEW recording \in Recordings, recording.detected = rec.detected,
           NEW result \in Results, WriteAsync(recording, result)
    PROVE  SurvivalInv'
  <1> DEFINE r == [recording EXCEPT !.result = result]
             w == [recording |-> r, opened |-> FALSE]
             name == FileName(rec)
  <1>1. r \in Recordings /\ r.detected = rec.detected
    BY DEF Recordings
  <1>2. rec \in Recordings /\ now \in Nat /\ rec.detected <= now
    BY DEF TypeOK, Times, SurvivalInv, NamesInv
  <1>3. FileName(w.recording) = name /\ name \in Names /\ name \in Nat
    BY <1>1, <1>2, NameOf
  <1>4. writers' = writers \cup {w} /\ finished' = finished \cup {rec.detected}
        /\ w.recording.detected = rec.detected
    BY <1>1 DEF WriteAsync
  <1>5. NextName = name
    BY NextNameNow
  <1> HIDE DEF w, r
  <1>6. name \notin Taken
    BY <1>3, <1>5 DEF SurvivalInv, NamesInv
  <1>7. name <= SecondOf(now)
    BY <1>2, SecondGrows, NameOf
  <1>8. Taken' = Taken \cup {name}
    BY <1>3, <1>4 DEF Taken, FileName
  <1>9. SecondOf(now) < NextName' /\ NextName' \in Nat /\ SecondOf(now) \in Nat
    <2>1. pc' = "idle" /\ SecondOf(now) < SecondOf(now + wait')
      BY ReturnLater DEF TypeOK, Return
    <2>2. NextName' = SecondOf(now + wait')
      BY <2>1, NextNameNext
    <2> QED BY <1>2, <2>1, <2>2, SecondType, NextNameTypeNext
  <1>10. \A n \in Taken' : n <= SecondOf(now') /\ n < NextName'
    <2> DEFINE b == NextName'
               c == SecondOf(now)
    <2> SUFFICES ASSUME NEW n \in Taken' PROVE n <= c /\ n < b
      OBVIOUS
    <2>1. n \in Nat /\ n <= c
      BY <1>3, <1>7, <1>8, TakenType DEF SurvivalInv, NamesInv
    <2>2. c < b /\ b \in Nat /\ c \in Nat
      BY <1>9
    <2> HIDE DEF b, c
    <2> QED BY <2>1, <2>2
  <1>11. pc' \notin Recorded
    BY DEF Return, Recorded
  <1>12. \A v \in writers : FileName(v.recording) # name
    BY <1>6 DEF Taken
  <1>13. files[name].state # "written"
    BY <1>3, <1>6 DEF Taken
  <1>14. NamesInv'
    <2>1. \A v \in writers' : files'[FileName(v.recording)].state # "written"
      BY <1>3, <1>4, <1>13 DEF SurvivalInv, NamesInv
    <2>2. \A u, v \in writers' : FileName(u.recording) = FileName(v.recording) => u = v
      BY <1>3, <1>4, <1>12 DEF SurvivalInv, NamesInv
    <2>3. \A f \in Names : files'[f].state = "written" => FileName(files'[f].recording) = f
      BY DEF SurvivalInv, NamesInv
    <2> QED BY <1>10, <1>11, <2>1, <2>2, <2>3 DEF NamesInv, FileName, SecondOf
  <1>15. RecordingSurvives'
    <2>1. OnDisk' = OnDisk
      BY DEF OnDisk
    <2> QED BY <1>4, <2>1 DEF SurvivalInv, RecordingSurvives
  <1> QED BY <1>14, <1>15 DEF SurvivalInv

\* A writer that opens its file truncates none that is written.
LEMMA OpenNames ==
    ASSUME TypeOK, TypeOK', SurvivalInv, NEW w \in writers, Open(w)
    PROVE  SurvivalInv'
  <1> DEFINE name == FileName(w.recording)
             u == [w EXCEPT !.opened = TRUE]
  <1>1. /\ w \in [recording : Recordings, opened : BOOLEAN]
        /\ u.recording = w.recording
    BY DEF TypeOK
  <1>2. /\ writers' = (writers \ {w}) \cup {u}
        /\ files' = [files EXCEPT ![name] = TornFile]
        /\ now' = now /\ pc' = pc /\ wait' = wait /\ rec' = rec /\ finished' = finished
    BY DEF Open, loop, history
  <1>3. name \in Names /\ files[name].state # "written" /\ files \in [Names -> Files]
    BY <1>1, NameOf DEF SurvivalInv, NamesInv, TypeOK
  <1> HIDE DEF u, name
  <1>4. \A f \in Names : /\ files'[f].state = "written" <=> files[f].state = "written"
                         /\ files[f].state = "written" => files'[f] = files[f]
    BY <1>2, <1>3 DEF TornFile
  <1>5. OnDisk' = OnDisk
    BY <1>4 DEF OnDisk
  <1>6. /\ \A v \in writers' : \E x \in writers : x.recording = v.recording
        /\ \A x \in writers : \E v \in writers' : x.recording = v.recording
    BY <1>1, <1>2
  <1>7. Taken' = Taken
    BY <1>4, <1>6 DEF Taken, FileName
  <1>8. NextName' = NextName
    BY <1>2 DEF NextName, FileName, SecondOf
  <1>9. \A x, v \in writers' : FileName(x.recording) = FileName(v.recording) => x = v
    <2> SUFFICES ASSUME NEW x \in writers', NEW v \in writers',
                        FileName(x.recording) = FileName(v.recording)
                 PROVE  x = v
      OBVIOUS
    <2>1. \A y, z \in writers : FileName(y.recording) = FileName(z.recording) => y = z
      BY DEF SurvivalInv, NamesInv
    <2>2. CASE x = u /\ v # u
      BY <1>1, <1>2, <2>1, <2>2
    <2>3. CASE v = u /\ x # u
      BY <1>1, <1>2, <2>1, <2>3
    <2>4. CASE x # u /\ v # u
      BY <1>2, <2>1, <2>4
    <2> QED BY <2>2, <2>3, <2>4
  <1>10. \A v \in writers' : files'[FileName(v.recording)].state # "written"
    <2>1. \A x \in writers : FileName(x.recording) \in Names
                             /\ files[FileName(x.recording)].state # "written"
      BY NameOf DEF TypeOK, SurvivalInv, NamesInv
    <2> QED BY <1>4, <1>6, <2>1
  <1>11. NamesInv'
    <2>1. \A f \in Names : files'[f].state = "written" => FileName(files'[f].recording) = f
      BY <1>4 DEF SurvivalInv, NamesInv
    <2> QED BY <1>2, <1>7, <1>8, <1>9, <1>10, <2>1 DEF SurvivalInv, NamesInv, FileName, SecondOf
  <1>12. RecordingSurvives'
    BY <1>2, <1>5, <1>6 DEF SurvivalInv, RecordingSurvives
  <1> QED BY <1>11, <1>12 DEF SurvivalInv

\* What a writer writes is on disk from then on, under a name of its own.
LEMMA WriteNames ==
    ASSUME TypeOK, TypeOK', SurvivalInv, NEW w \in writers, Write(w)
    PROVE  SurvivalInv'
  <1> DEFINE name == FileName(w.recording)
             file == [state |-> "written", recording |-> w.recording]
  <1>1. w \in [recording : Recordings, opened : BOOLEAN]
    BY DEF TypeOK
  <1>2. /\ writers' = writers \ {w}
        /\ files' = [files EXCEPT ![name] = file]
        /\ now' = now /\ pc' = pc /\ wait' = wait /\ rec' = rec /\ finished' = finished
    BY DEF Write, loop, history
  <1>3. name \in Names /\ files[name].state # "written" /\ files \in [Names -> Files]
    BY <1>1, NameOf DEF SurvivalInv, NamesInv, TypeOK
  <1>4. /\ files'[name] = file
        /\ \A f \in Names : f # name => files'[f] = files[f]
    BY <1>2, <1>3
  <1>5. \A v \in writers' : v \in writers /\ FileName(v.recording) # name
    BY <1>2 DEF SurvivalInv, NamesInv
  <1>6. name \in Taken
    BY DEF Taken
  <1>7. \A n \in Taken' : n \in Taken
    BY <1>4, <1>5, <1>6 DEF Taken, FileName
  <1>8. NextName' = NextName
    BY <1>2 DEF NextName, FileName, SecondOf
  <1>9. NamesInv'
    <2>1. \A f \in Names : files'[f].state = "written" => FileName(files'[f].recording) = f
      BY <1>4 DEF SurvivalInv, NamesInv
    <2>2. \A v \in writers' : files'[FileName(v.recording)].state # "written"
      <3> SUFFICES ASSUME NEW v \in writers'
                   PROVE  files'[FileName(v.recording)].state # "written"
        OBVIOUS
      <3>1. FileName(v.recording) \in Names
        BY <1>5, NameOf DEF TypeOK
      <3> QED BY <1>4, <1>5, <3>1 DEF SurvivalInv, NamesInv
    <2>3. \A x, v \in writers' : FileName(x.recording) = FileName(v.recording) => x = v
      BY <1>5 DEF SurvivalInv, NamesInv
    <2> QED BY <1>2, <1>7, <1>8, <2>1, <2>2, <2>3 DEF SurvivalInv, NamesInv, FileName, SecondOf
  <1>10. OnDisk' = OnDisk \cup {w.recording}
    BY <1>3, <1>4 DEF OnDisk
  <1>11. RecordingSurvives'
    <2> SUFFICES ASSUME NEW d \in finished
                 PROVE  \/ \E r \in OnDisk' : r.detected = d
                        \/ \E v \in writers' : v.recording.detected = d
      BY <1>2 DEF RecordingSurvives
    <2>1. \/ \E r \in OnDisk : r.detected = d
          \/ \E v \in writers : v.recording.detected = d
      BY DEF SurvivalInv, RecordingSurvives
    <2> QED BY <1>2, <1>10, <2>1
  <1> QED BY <1>9, <1>11 DEF SurvivalInv

\* A crash leaves fewer recordings, and the next is of a later second.
LEMMA CrashNames ==
    ASSUME TypeOK, TypeOK', SurvivalInv, Crash
    PROVE  SurvivalInv'
  <1>1. /\ writers' = {} /\ files' = files /\ now' = now /\ pc' = "down"
        /\ finished' = {d \in finished : \E r \in OnDisk : r.detected = d}
    BY DEF Crash, disk
  <1>2. Taken' \subseteq Taken
    BY <1>1 DEF Taken
  <1>3. \A n \in Taken' : n <= SecondOf(now') /\ n < NextName'
    <2> SUFFICES ASSUME NEW n \in Taken' PROVE n <= SecondOf(now') /\ n < NextName'
      OBVIOUS
    <2>1. n \in Nat /\ n <= SecondOf(now)
      BY <1>2, TakenType DEF SurvivalInv, NamesInv
    <2>2. NextName' = SecondOf(now) + 1
      BY <1>1, NextNameNext
    <2>3. SecondOf(now) \in Nat
      BY SecondType DEF TypeOK, Times
    <2> DEFINE c == SecondOf(now)
    <2>4. n <= c /\ n < c + 1
      <3>1. c \in Nat /\ n <= c
        BY <2>1, <2>3
      <3> HIDE DEF c
      <3> QED BY <2>1, <3>1
    <2> HIDE DEF c
    <2>5. c = SecondOf(now) /\ SecondOf(now') = SecondOf(now)
      BY <1>1 DEF c
    <2> QED BY <2>2, <2>4, <2>5
  <1>4. NamesInv'
    <2>1. \A f \in Names : files'[f].state = "written" => FileName(files'[f].recording) = f
      BY <1>1 DEF SurvivalInv, NamesInv
    <2> QED BY <1>1, <1>3, <2>1 DEF NamesInv, FileName, SecondOf, Recorded
  <1>5. RecordingSurvives'
    BY <1>1 DEF RecordingSurvives, OnDisk
  <1> QED BY <1>4, <1>5 DEF SurvivalInv

\* A return to the monitor loop without a recording.
LEMMA ReturnNames ==
    ASSUME TypeOK, TypeOK', SurvivalInv, pc \in Recorded \cup {"polling"}, Return,
           UNCHANGED <<now, writers, files, finished>>
    PROVE  SurvivalInv'
  <1>1. now \in Nat /\ wait' \in Nat /\ now + wait' \in Nat /\ rec \in Recordings
    <2>1. now \in Nat /\ rec \in Recordings
      BY DEF TypeOK, Times
    <2> DEFINE d == wait'
    <2>2. d \in Nat
      BY ReturnLater DEF TypeOK
    <2> HIDE DEF d
    <2>3. now + d \in Nat
      BY <2>1, <2>2
    <2> QED BY <2>1, <2>2, <2>3 DEF d
  <1>2. NextName <= SecondOf(now)
    <2>1. CASE pc = "polling"
      <3>1. SecondOf(now) \in Nat
        BY <1>1, SecondType
      <3>2. NextName = SecondOf(now)
        BY <2>1, NextNameNow
      <3> QED BY <3>1, <3>2
    <2>2. CASE pc \in Recorded
      <3>1. rec.detected <= now
        BY <2>2 DEF SurvivalInv, NamesInv
      <3> QED BY <1>1, <2>2, <3>1, NameOf, SecondGrows, NextNameNow
    <2> QED BY <2>1, <2>2
  <1>3. pc' = "idle" /\ NextName' = SecondOf(now + wait')
    BY NextNameNext DEF Return
  <1>4. SecondOf(now) < SecondOf(now + wait')
    BY ReturnLater DEF TypeOK
  <1>5. NextName <= NextName'
    <2> DEFINE a == NextName
               b == NextName'
               c == SecondOf(now)
    <2>1. a \in Nat /\ b \in Nat /\ c \in Nat /\ a <= c /\ c < b
      BY <1>1, <1>2, <1>3, <1>4, NextNameType, SecondType
    <2> HIDE DEF a, b, c
    <2>2. a <= b
      BY <2>1
    <2> QED BY <2>2 DEF a, b
  <1>6. now <= now' /\ pc' \notin Recorded
    BY <1>1, <1>3 DEF Recorded
  <1> QED BY <1>5, <1>6, UndisturbedNames

LEMMA AppendType ==
    ASSUME NEW recording \in Recordings, NEW s \in Samples
    PROVE  LET r == [recording EXCEPT !.samples = Append(@, s)]
           IN  r \in Recordings /\ r.detected = recording.detected
  <1>1. Append(recording.samples, s) \in Seq(Samples)
    BY DEF Recordings
  <1> DEFINE t == Append(recording.samples, s)
             r == [recording EXCEPT !.samples = t]
  <1> HIDE DEF t
  <1>2. r \in Recordings /\ r.detected = recording.detected
    BY <1>1 DEF Recordings, t
  <1> QED BY <1>2 DEF t

LEMMA InitSurvival == Init => SurvivalInv
  <1> SUFFICES ASSUME Init PROVE SurvivalInv
    OBVIOUS
  <1>1. \A f \in Names : files[f].state # "written"
    BY DEF Init, NoFile
  <1> QED BY <1>1 DEF Init, SurvivalInv, NamesInv, RecordingSurvives, Taken, Recorded

LEMMA NextSurvival == TypeOK /\ TypeOK' /\ SurvivalInv /\ [Next]_vars => SurvivalInv'
  <1> SUFFICES ASSUME TypeOK, TypeOK', SurvivalInv, [Next]_vars
               PROVE  SurvivalInv'
    OBVIOUS
  <1> USE DEF loop, disk, history
  <1>0. /\ now \in Nat /\ wait \in Nat /\ now + wait \in Nat /\ rec \in Recordings
        /\ SecondOf(now) \in Nat /\ SecondOf(now + wait) \in Nat
        /\ NextName \in Nat /\ NextName' \in Nat
    <2>1. now \in Nat /\ wait \in Nat /\ now + wait \in Nat /\ rec \in Recordings
      BY DEF TypeOK, Times
    <2>2. NextName \in Nat
      BY NextNameType
    <2>3. NextName' \in Nat
      BY NextNameTypeNext
    <2>4. SecondOf(now) \in Nat /\ SecondOf(now + wait) \in Nat
      BY <2>1, SecondType
    <2> QED BY <2>1, <2>2, <2>3, <2>4
  <1>00. pc \in Recorded => rec.detected <= now
    BY DEF SurvivalInv, NamesInv
  <1>1. CASE StartPoll
    <2>1. now + wait = now /\ pc = "idle" /\ pc' = "polling"
      BY <1>0, <1>1 DEF StartPoll
    <2>2. NextName = SecondOf(now)
      BY <2>1, NextNameNow
    <2>3. NextName' = SecondOf(now)
      BY <1>1, <2>1, NextNameNext DEF StartPoll
    <2>4. NextName <= NextName' /\ now <= now'
      BY <1>0, <1>1, <2>2, <2>3 DEF StartPoll
    <2>5. UNCHANGED <<writers, files, finished>> /\ pc' \notin Recorded
      BY <1>1, <2>1 DEF StartPoll, Recorded
    <2> QED BY <2>4, <2>5, UndisturbedNames
  <1>2. CASE Poll
    <2>1. /\ pc = "polling" /\ UNCHANGED <<now, writers, files, finished>>
      BY <1>2 DEF Poll
    <2>2. \/ Return
          \/ /\ pc' \in {"candidate", "standDown"}
             /\ rec'.detected = now
      BY <1>2 DEF Poll, NewRecorder, NoRecorder
    <2>3. CASE Return
      BY <2>1, <2>3, ReturnNames
    <2>4. CASE pc' \in {"candidate", "standDown"} /\ rec'.detected = now
      <3>1. NextName = SecondOf(now)
        BY <2>1, NextNameNow
      <3>2. NextName' = SecondOf(now)
        <4>1. rec' \in Recordings
          BY DEF TypeOK
        <4>2. FileName(rec') = SecondOf(rec'.detected)
          BY <4>1, NameOf
        <4> QED BY <2>4, <4>2, NextNameNext DEF Recorded
      <3>3. NextName <= NextName' /\ now <= now' /\ rec'.detected <= now'
        BY <1>0, <2>1, <2>4, <3>1, <3>2
      <3> QED BY <2>1, <3>3, UndisturbedNames
    <2> QED BY <2>2, <2>3, <2>4
  <1>3. CASE EndStandDown \/ AlreadyActive
    BY <1>3, ReturnNames DEF EndStandDown, AlreadyActive, Recorded
  <1>4. CASE AbortUnhealthy
    <2>1. PICK result \in {"aborted_not_healthy", "aborted_not_healthy_long_enough"} :
              WriteAsync(rec, result)
      BY <1>4 DEF AbortUnhealthy
    <2>2. result \in Results /\ pc \in Recorded /\ Return /\ now' = now /\ files' = files
      BY <1>4 DEF AbortUnhealthy, Results, Recorded
    <2> QED BY <1>0, <2>1, <2>2, HandOver
  <1>5. CASE Delay
    <2>1. /\ pc \in Recorded /\ pc' \in Recorded
          /\ UNCHANGED <<now, rec, writers, files, finished>>
      BY <1>5 DEF Delay, Recorded
    <2>2. NextName = FileName(rec)
      BY <2>1, NextNameNow
    <2>3. NextName' = FileName(rec)
      BY <2>1, NextNameNext
    <2>4. NextName <= NextName' /\ now <= now' /\ rec'.detected <= now'
      BY <1>0, <1>00, <2>1, <2>2, <2>3
    <2> QED BY <2>1, <2>4, UndisturbedNames
  <1>6. CASE Revalidate
    <2>1. pc \in Recorded /\ UNCHANGED <<now, files>>
      BY <1>6 DEF Revalidate, Recorded
    <2>2. PICK finding \in Findings :
              LET r == [rec EXCEPT !.samples = Append(@, SampleOf(Counted(count, finding), finding))]
              IN  \/ Return /\ DropRecorder
                  \/ WriteAsync(r, "aborted_peer_took_over") /\ Return
                  \/ pc' = "takeover" /\ rec' = r /\ DropRecorder
      BY <1>6 DEF Revalidate
    <2> DEFINE s == SampleOf(Counted(count, finding), finding)
               r == [rec EXCEPT !.samples = Append(@, s)]
    <2>3. s \in Samples
      BY SampleType DEF TypeOK
    <2> HIDE DEF s
    <2>4. r \in Recordings /\ r.detected = rec.detected
      BY <1>0, <2>3, AppendType
    <2>5. CASE Return /\ DropRecorder
      BY <2>1, <2>5, ReturnNames DEF DropRecorder
    <2>6. CASE WriteAsync(r, "aborted_peer_took_over") /\ Return
      <3>1. "aborted_peer_took_over" \in Results
        BY DEF Results
      <3> HIDE DEF r
      <3> QED BY <2>1, <2>4, <2>6, <3>1, HandOver
    <2>7. CASE pc' = "takeover" /\ rec' = r /\ DropRecorder
      <3>1. NextName = FileName(rec)
        BY <2>1, NextNameNow
      <3>2. NextName' = FileName(rec')
        BY <2>7, NextNameNext DEF Recorded
      <3>3. FileName(rec') = FileName(rec)
        BY <2>4, <2>7 DEF FileName
      <3>4. NextName <= NextName' /\ now <= now' /\ rec'.detected <= now'
        BY <1>0, <1>00, <2>1, <2>4, <2>7, <3>1, <3>2, <3>3
      <3> QED BY <2>1, <2>7, <3>4, UndisturbedNames DEF DropRecorder
    <2> QED BY <2>2, <2>5, <2>6, <2>7 DEF s
  <1>7. CASE EndTakeover
    <2>1. pc \in Recorded /\ Return /\ now' = now /\ files' = files
      BY <1>7 DEF EndTakeover, Recorded
    <2> DEFINE r == [rec EXCEPT !.confirmed = now]
    <2>2. r \in Recordings /\ r.detected = rec.detected
      BY <1>0 DEF Recordings, TypeOK
    <2>3. \/ WriteAsync(r, "became_active")
          \/ WriteAsync(rec, "became_active_unconfirmed")
      BY <1>7 DEF EndTakeover
    <2>4. {"became_active", "became_active_unconfirmed"} \subseteq Results
      BY DEF Results
    <2> HIDE DEF r
    <2>5. CASE WriteAsync(r, "became_active")
      BY <2>1, <2>2, <2>4, <2>5, HandOver
    <2>6. CASE WriteAsync(rec, "became_active_unconfirmed")
      BY <1>0, <2>1, <2>4, <2>6, HandOver
    <2> QED BY <2>3, <2>5, <2>6
  <1>8. CASE \E w \in writers : Open(w) \/ Write(w)
    BY <1>8, OpenNames, WriteNames
  <1>9. CASE Crash
    BY <1>9, CrashNames
  <1>10. CASE Start
    <2>1. /\ pc = "down" /\ pc' = "idle" /\ wait' = PollInterval + NextBoundary
          /\ UNCHANGED <<now, writers, files, finished>>
      BY <1>10 DEF Start
    <2>2. NextName = SecondOf(now) + 1
      BY <2>1, NextNameNow
    <2>3. NextName' = SecondOf(now + wait')
      BY <2>1, NextNameNext
    <2>4. SecondOf(now) < SecondOf(now + wait')
      BY <2>1, StartLater DEF TypeOK
    <2>5. NextName <= NextName'
      <3> DEFINE a == NextName
                 b == NextName'
                 c == SecondOf(now)
      <3>1. a = c + 1 /\ c < b /\ a \in Nat /\ b \in Nat /\ c \in Nat
        BY <1>0, <2>2, <2>3, <2>4
      <3> HIDE DEF a, b, c
      <3>2. a <= b
        BY <3>1
      <3> QED BY <3>2 DEF a, b
    <2>6. now <= now' /\ pc' \notin Recorded
      BY <1>0, <2>1 DEF Recorded
    <2> QED BY <2>1, <2>5, <2>6, UndisturbedNames
  <1>11. CASE Tick \/ Down \/ UNCHANGED vars
    <2>1. UNCHANGED <<pc, rec, writers, files, finished>>
      BY <1>11 DEF Tick, Down, vars
    <2>2. now' \in Nat /\ now <= now'
      BY <1>0, <1>11 DEF Tick, Down, vars
    <2>3. pc' \in Recorded => rec'.detected <= now'
      BY <1>0, <1>00, <2>1, <2>2, NameOf
    <2>4. NextName <= NextName'
      <3>1. SecondOf(now) <= SecondOf(now') /\ SecondOf(now') \in Nat
        BY <1>0, <2>2, SecondGrows, SecondType
      <3>2. CASE pc \in Recorded
        <4>1. NextName = FileName(rec) /\ NextName' = FileName(rec)
          BY <2>1, <3>2, NextNameNow, NextNameNext
        <4> QED BY <1>0, <4>1
      <3>3. CASE pc = "idle"
        <4>1. now' + wait' = now + wait
          BY <1>0, <1>11, <3>3 DEF Tick, Down, vars
        <4>2. NextName = SecondOf(now + wait) /\ NextName' = SecondOf(now + wait)
          BY <2>1, <3>3, <4>1, NextNameNow, NextNameNext
        <4> QED BY <1>0, <4>2
      <3>4. CASE pc = "polling"
        <4>1. NextName = SecondOf(now) /\ NextName' = SecondOf(now')
          BY <2>1, <3>4, NextNameNow, NextNameNext
        <4> QED BY <3>1, <4>1
      <3>5. CASE pc = "down"
        <4>1. NextName = SecondOf(now) + 1 /\ NextName' = SecondOf(now') + 1
          BY <2>1, <3>5, NextNameNow, NextNameNext
        <4> DEFINE c == SecondOf(now)
                   d == SecondOf(now')
        <4>2. c <= d /\ c \in Nat /\ d \in Nat
          BY <1>0, <3>1
        <4> HIDE DEF c, d
        <4>3. c + 1 <= d + 1
          BY <4>2
        <4> QED BY <4>1, <4>3 DEF c, d
      <3> QED BY <3>2, <3>3, <3>4, <3>5 DEF TypeOK, Recorded
    <2> QED BY <2>1, <2>2, <2>3, <2>4, UndisturbedNames
  <1> QED
    BY <1>1, <1>2, <1>3, <1>4, <1>5, <1>6, <1>7, <1>8, <1>9, <1>10, <1>11 DEF Next, Over

\* No recording of a failover is overwritten by a later one: a failover that
\* ended with an outcome stays on disk, or with its writer, until the manager
\* is killed with it (recorder.go names a file after the second in which the
\* failover was detected, and no two polls of a node share one).
THEOREM RecordingsSurvive == Spec => []RecordingSurvives
  <1>1. Init => TypeOK /\ SurvivalInv
    BY InitTypeOK, InitSurvival
  <1>2. TypeOK /\ SurvivalInv /\ [Next]_vars => (TypeOK /\ SurvivalInv)'
    BY NextTypeOK, NextSurvival
  <1>3. SurvivalInv => RecordingSurvives
    BY DEF SurvivalInv
  <1> QED BY <1>1, <1>2, <1>3, PTL DEF Spec

---------------------------------------------------------------------------
(* A recording keeps its context. *)

PollHistories == [Runs -> Seq(Samples)]
Context(polled) == Window!LastOf(polled, RingSize)

\* Recording r begins with what the node had seen at its detection, for a
\* history p of polls.
Frozen(p, r) ==
    \E run \in Runs : \E i \in 1 .. Len(p[run]) :
        LET context == Context(SubSeq(p[run], 1, i))
            n == Len(context)
        IN  /\ p[run][i].at = r.detected
            /\ n <= Len(r.samples) /\ Len(r.samples) <= n + 1
            /\ SubSeq(r.samples, 1, n) = context

\* So far it shows nothing else.
Fresh(p, r) ==
    \E run \in Runs : \E i \in 1 .. Len(p[run]) :
        /\ p[run][i].at = r.detected
        /\ r.samples = Context(SubSeq(p[run], 1, i))

FrozenInv ==
    /\ Snapshot(ring) = Context(polls[restarts])
    /\ \A run \in Runs : run > restarts => polls[run] = <<>>
    /\ pc \in {"candidate", "sleeping", "standDown"} => Fresh(polls, rec)
    /\ pc = "takeover" => Frozen(polls, rec)
    /\ \A w \in writers : Frozen(polls, w.recording)
    /\ \A r \in OnDisk : Frozen(polls, r)

\* The windows of a sequence and of what is added to it.
LEMMA WindowType ==
    ASSUME NEW s \in Seq(Samples)
    PROVE  /\ Context(s) \in Seq(Samples)
           /\ Len(Context(s)) = IF Len(s) <= RingSize THEN Len(s) ELSE RingSize
           /\ \A k \in 1 .. Len(Context(s)) : Context(s)[k] = s[Len(s) - Len(Context(s)) + k]
  <1> DEFINE n == Len(s)
             m == RingSize
             c == SubSeq(s, n - m + 1, n)
  <1>1. n \in Nat /\ m \in Nat \ {0}
    BY RingSizeAssumption
  <1>2. CASE n <= m
    <2>1. Context(s) = s
      BY <1>2 DEF Context, Window!LastOf
    <2> QED BY <1>1, <1>2, <2>1
  <1>3. CASE n > m
    <2>1. Context(s) = c
      BY <1>1, <1>3 DEF Context, Window!LastOf
    <2>2. n - m + 1 \in 1 .. n
      BY <1>1, <1>3
    <2>3. c \in Seq(Samples) /\ Len(c) = m
      BY <1>1, <2>2
    <2>4. \A k \in 1 .. m : c[k] = s[n - m + k]
      BY <1>1, <2>2
    <2> HIDE DEF c
    <2> QED BY <1>1, <1>3, <2>1, <2>3, <2>4
  <1> QED BY <1>1, <1>2, <1>3

LEMMA WindowOfWindow ==
    ASSUME NEW s \in Seq(Samples), NEW t \in Samples
    PROVE  Context(Append(Context(s), t)) = Context(Append(s, t))
  <1> DEFINE c == Context(s)
             u == Append(c, t)
             v == Append(s, t)
  <1>1. /\ c \in Seq(Samples)
        /\ Len(c) = IF Len(s) <= RingSize THEN Len(s) ELSE RingSize
        /\ \A k \in 1 .. Len(c) : c[k] = s[Len(s) - Len(c) + k]
    BY WindowType
  <1> HIDE DEF c
  <1>2. /\ u \in Seq(Samples) /\ Len(u) = Len(c) + 1
        /\ v \in Seq(Samples) /\ Len(v) = Len(s) + 1
        /\ \A k \in 1 .. Len(c) : u[k] = c[k]
        /\ \A k \in 1 .. Len(s) : v[k] = s[k]
        /\ u[Len(c) + 1] = t /\ v[Len(s) + 1] = t
    BY <1>1
  <1> HIDE DEF u, v
  <1>3. \A k \in 1 .. Len(u) : u[k] = v[Len(v) - Len(u) + k]
    <2> SUFFICES ASSUME NEW k \in 1 .. Len(u) PROVE u[k] = v[Len(v) - Len(u) + k]
      OBVIOUS
    <2>1. Len(c) \in Nat /\ Len(s) \in Nat /\ Len(c) <= Len(s)
      BY <1>1, RingSizeAssumption
    <2>2. CASE k = Len(c) + 1
      BY <1>2, <2>1, <2>2
    <2>3. CASE k \in 1 .. Len(c)
      <3>1. u[k] = s[Len(s) - Len(c) + k]
        BY <1>1, <1>2, <2>3
      <3>2. Len(s) - Len(c) + k \in 1 .. Len(s) /\ Len(v) - Len(u) + k = Len(s) - Len(c) + k
        BY <1>2, <2>1, <2>3
      <3> QED BY <1>2, <3>1, <3>2
    <2> QED BY <1>2, <2>1, <2>2, <2>3
  <1>4. /\ Context(u) \in Seq(Samples)
        /\ Len(Context(u)) = IF Len(u) <= RingSize THEN Len(u) ELSE RingSize
        /\ \A k \in 1 .. Len(Context(u)) : Context(u)[k] = u[Len(u) - Len(Context(u)) + k]
    BY <1>2, WindowType
  <1>5. /\ Context(v) \in Seq(Samples)
        /\ Len(Context(v)) = IF Len(v) <= RingSize THEN Len(v) ELSE RingSize
        /\ \A k \in 1 .. Len(Context(v)) : Context(v)[k] = v[Len(v) - Len(Context(v)) + k]
    BY <1>2, WindowType
  <1> DEFINE x == Context(u)
             y == Context(v)
  <1> HIDE DEF x, y
  <1>6. Len(x) = Len(y) /\ x \in Seq(Samples) /\ y \in Seq(Samples)
    BY <1>1, <1>2, <1>4, <1>5, RingSizeAssumption DEF x, y
  <1>7. \A k \in 1 .. Len(x) : x[k] = y[k]
    <2> SUFFICES ASSUME NEW k \in 1 .. Len(x) PROVE x[k] = y[k]
      OBVIOUS
    <2>1. /\ x[k] = u[Len(u) - Len(x) + k]
          /\ y[k] = v[Len(v) - Len(x) + k]
      BY <1>4, <1>5, <1>6 DEF x, y
    <2>2. /\ Len(u) \in Nat /\ Len(v) \in Nat /\ Len(x) \in Nat /\ Len(x) <= Len(u)
      BY <1>2, <1>4, <1>6, RingSizeAssumption DEF x
    <2>3. Len(u) - Len(x) + k \in 1 .. Len(u)
      BY <2>2
    <2>4. u[Len(u) - Len(x) + k] = v[Len(v) - Len(u) + (Len(u) - Len(x) + k)]
      BY <1>3, <2>3
    <2>5. Len(v) - Len(u) + (Len(u) - Len(x) + k) = Len(v) - Len(x) + k
      BY <2>2
    <2> QED BY <2>1, <2>4, <2>5
  <1>8. x = y
    BY <1>6, <1>7
  <1> QED BY <1>8 DEF x, y, u, v, c

\* Adding to the ring adds to the window.
LEMMA AddToWindow ==
    ASSUME ring \in Rings, NEW s \in Samples, ring' = Add(ring, s)
    PROVE  Snapshot(ring') = Context(Append(Snapshot(ring), s))
  <1> DEFINE w == Snapshot(ring)
             v == Snapshot(Add(ring, s))
  <1>1. w \in Seq(Samples) /\ Len(w) = ring.size /\ ring.size \in 0 .. RingSize
    BY SnapshotType DEF Rings
  <1>2. Snapshot(ring') = v
    OBVIOUS
  <1>3. CASE ring.size < RingSize
    <2>1. v = Append(w, s)
      BY <1>3, AddWithRoom
    <2> HIDE DEF w, v
    <2>2. Len(Append(w, s)) = ring.size + 1
      BY <1>1
    <2> QED BY <1>1, <1>2, <1>3, <2>1, <2>2, RingSizeAssumption DEF Context, Window!LastOf, w
  <1>4. CASE ring.size = RingSize
    <2>1. v = SubSeq(Append(w, s), 2, RingSize + 1)
      BY <1>4, AddWhenFull
    <2> HIDE DEF w, v
    <2>2. Len(Append(w, s)) = RingSize + 1
      BY <1>1, <1>4
    <2> QED BY <1>2, <2>1, <2>2, RingSizeAssumption DEF Context, Window!LastOf, w
  <1> QED BY <1>1, <1>3, <1>4, RingSizeAssumption

LEMMA FrozenIsContextFrozen ==
    ASSUME TypeOK
    PROVE  (\A r \in OnDisk : Frozen(polls, r)) => ContextFrozen
  <1> SUFFICES ASSUME NEW r \in OnDisk, Frozen(polls, r)
               PROVE  \E polled \in PolledBy(r.detected) :
                          LET context == Window!LastOf(polled, RingSize)
                              n == Len(context)
                          IN  /\ n <= Len(r.samples) /\ Len(r.samples) <= n + 1
                              /\ SubSeq(r.samples, 1, n) = context
    BY DEF ContextFrozen
  <1>0. PICK run \in Runs : \E i \in 1 .. Len(polls[run]) :
            LET context == Context(SubSeq(polls[run], 1, i))
                n == Len(context)
            IN  /\ polls[run][i].at = r.detected
                /\ n <= Len(r.samples) /\ Len(r.samples) <= n + 1
                /\ SubSeq(r.samples, 1, n) = context
    BY DEF Frozen
  <1>1. PICK i \in 1 .. Len(polls[run]) :
            LET context == Context(SubSeq(polls[run], 1, i))
                n == Len(context)
            IN  /\ polls[run][i].at = r.detected
                /\ n <= Len(r.samples) /\ Len(r.samples) <= n + 1
                /\ SubSeq(r.samples, 1, n) = context
    BY <1>0
  <1>2. i \in DOMAIN polls[run]
    BY DEF TypeOK
  <1> DEFINE polled == SubSeq(polls[run], 1, i)
  <1>3. polled \in PolledBy(r.detected)
    BY <1>1, <1>2 DEF PolledBy
  <1> HIDE DEF polled
  <1> QED BY <1>1, <1>3 DEF Context, polled

\* What was polled stays polled.
LEMMA HistoryGrows ==
    ASSUME NEW p \in PollHistories, NEW q \in PollHistories, NEW this \in Runs,
           NEW s \in Samples, q[this] = Append(p[this], s),
           \A run \in Runs : run # this => q[run] = p[run]
    PROVE  \A run \in Runs : \A i \in 1 .. Len(p[run]) :
               /\ i \in 1 .. Len(q[run])
               /\ q[run][i] = p[run][i]
               /\ SubSeq(q[run], 1, i) = SubSeq(p[run], 1, i)
  <1> SUFFICES ASSUME NEW run \in Runs, NEW i \in 1 .. Len(p[run])
               PROVE  /\ i \in 1 .. Len(q[run])
                      /\ q[run][i] = p[run][i]
                      /\ SubSeq(q[run], 1, i) = SubSeq(p[run], 1, i)
    OBVIOUS
  <1>1. p[run] \in Seq(Samples)
    BY DEF PollHistories
  <1>2. CASE run # this
    BY <1>2
  <1>3. CASE run = this
    BY <1>1, <1>3
  <1> QED BY <1>2, <1>3

LEMMA FrozenStays ==
    ASSUME NEW p \in PollHistories, NEW q \in PollHistories, NEW this \in Runs,
           NEW s \in Samples, q[this] = Append(p[this], s),
           \A run \in Runs : run # this => q[run] = p[run]
    PROVE  \A r : Frozen(p, r) => Frozen(q, r)
  <1>1. \A run \in Runs : \A i \in 1 .. Len(p[run]) :
               /\ i \in 1 .. Len(q[run])
               /\ q[run][i] = p[run][i]
               /\ SubSeq(q[run], 1, i) = SubSeq(p[run], 1, i)
    BY HistoryGrows
  <1> QED BY <1>1 DEF Frozen

\* A fresh recording is frozen, and so it is with one sample more.
LEMMA FreshIsFrozen ==
    ASSUME NEW p \in PollHistories, NEW r \in Recordings, Fresh(p, r)
    PROVE  /\ Frozen(p, r)
           /\ \A t \in Samples : Frozen(p, [r EXCEPT !.samples = Append(@, t)])
  <1>0. PICK run \in Runs : \E i \in 1 .. Len(p[run]) :
            /\ p[run][i].at = r.detected
            /\ r.samples = Context(SubSeq(p[run], 1, i))
    BY DEF Fresh
  <1>1. PICK i \in 1 .. Len(p[run]) :
            /\ p[run][i].at = r.detected
            /\ r.samples = Context(SubSeq(p[run], 1, i))
    BY <1>0
  <1> DEFINE c == Context(SubSeq(p[run], 1, i))
  <1>2. r.samples \in Seq(Samples) /\ r.samples = c
    BY <1>1 DEF Recordings
  <1> HIDE DEF c
  <1>3. Len(c) <= Len(r.samples) /\ Len(r.samples) <= Len(c) + 1 /\ SubSeq(r.samples, 1, Len(c)) = c
    BY <1>2
  <1>4. Frozen(p, r)
    BY <1>1, <1>3 DEF Frozen, c
  <1>5. ASSUME NEW t \in Samples PROVE Frozen(p, [r EXCEPT !.samples = Append(@, t)])
    <2> DEFINE a == Append(r.samples, t)
               x == [r EXCEPT !.samples = a]
    <2>1. a \in Seq(Samples) /\ Len(c) <= Len(a) /\ Len(a) <= Len(c) + 1 /\ SubSeq(a, 1, Len(c)) = c
      BY <1>2
    <2> HIDE DEF a
    <2>2. x.samples = a /\ x.detected = r.detected
      BY DEF Recordings
    <2> HIDE DEF x
    <2>3. Frozen(p, x)
      BY <1>1, <2>1, <2>2 DEF Frozen, c
    <2> QED BY <2>3 DEF x, a
  <1> QED BY <1>4, <1>5

LEMMA FrozenAlike ==
    ASSUME NEW p, NEW r, NEW x, Frozen(p, r),
           x.detected = r.detected, x.samples = r.samples
    PROVE  Frozen(p, x)
  BY DEF Frozen

\* The ring and the history are left alone, and so are the recordings but for
\* those of which it is shown.
LEMMA KeepsFrozen ==
    ASSUME TypeOK, FrozenInv, UNCHANGED <<ring, polls, restarts>>,
           pc' \in {"candidate", "sleeping", "standDown"} => Fresh(polls, rec'),
           pc' = "takeover" => Frozen(polls, rec'),
           \A w \in writers' : Frozen(polls, w.recording),
           \A r \in OnDisk' : Frozen(polls, r)
    PROVE  FrozenInv'
  <1>1. Snapshot(ring)' = Context(polls[restarts])'
    <2>1. Snapshot(ring') = Snapshot(ring) /\ Context(polls'[restarts']) = Context(polls[restarts])
      OBVIOUS
    <2> QED BY <2>1 DEF FrozenInv, Snapshot, Context, Window!LastOf
  <1>2. \A run \in Runs : run > restarts' => polls'[run] = <<>>
    BY DEF FrozenInv
  <1> QED BY <1>1, <1>2 DEF FrozenInv

\* What a writer is handed is frozen.
LEMMA HandsOverFrozen ==
    ASSUME TypeOK, FrozenInv, UNCHANGED <<ring, polls, restarts, files>>,
           pc' = "idle",
           NEW recording, Frozen(polls, recording), recording \in Recordings,
           NEW result \in Results, WriteAsync(recording, result)
    PROVE  FrozenInv'
  <1> DEFINE r == [recording EXCEPT !.result = result]
             w == [recording |-> r, opened |-> FALSE]
  <1>1. r.detected = recording.detected /\ r.samples = recording.samples
    BY DEF Recordings
  <1>2. Frozen(polls, r)
    BY <1>1, FrozenAlike
  <1>3. w.recording = r /\ writers' = writers \cup {w}
    BY DEF WriteAsync
  <1> HIDE DEF w, r
  <1>4. \A v \in writers' : Frozen(polls, v.recording)
    BY <1>2, <1>3 DEF FrozenInv
  <1>5. OnDisk' = OnDisk
    BY DEF OnDisk
  <1> QED BY <1>4, <1>5, KeepsFrozen DEF FrozenInv

\* A poll's recorder is seeded with what was polled up to it.
LEMMA PollFreezes ==
    ASSUME TypeOK, FrozenInv, Poll
    PROVE  FrozenInv'
  <1>0. now \in Times /\ count \in Nat /\ ring \in Rings /\ restarts \in Runs
        /\ polls \in PollHistories
    BY DEF TypeOK, Rings, PollHistories
  <1>1. PICK finding \in Findings :
            LET s == SampleOf(Counted(count, finding), finding)
                r == Add(ring, s)
            IN  /\ ring' = r
                /\ polls' = [polls EXCEPT ![restarts] = Append(@, s)]
                /\ \/ pc' \in {"candidate", "standDown"} /\ rec' = NewRecorder(r)
                   \/ pc' = "idle"
    BY DEF Poll, Return
  <1> DEFINE s == SampleOf(Counted(count, finding), finding)
             new == polls'[restarts]
  <1>2. s \in Samples /\ s.at = now
    BY <1>0, SampleType DEF SampleOf
  <1> HIDE DEF s
  <1>3. /\ polls' \in PollHistories
        /\ new = Append(polls[restarts], s)
        /\ \A run \in Runs : run # restarts => polls'[run] = polls[run]
    <2>1. polls' = [polls EXCEPT ![restarts] = Append(@, s)]
      BY <1>1 DEF s
    <2> QED BY <1>2, <2>1, PolledType DEF PollHistories
  <1>4. /\ ring' = Add(ring, s) /\ UNCHANGED <<writers, files, restarts, now>>
        /\ \/ pc' \in {"candidate", "standDown"} /\ rec' = NewRecorder(ring')
           \/ pc' = "idle"
    BY <1>1 DEF s, Poll, disk
  <1>5. polls[restarts] \in Seq(Samples)
    BY <1>0 DEF PollHistories
  <1>6. Snapshot(ring') = Context(new)
    <2>1. Snapshot(ring') = Context(Append(Snapshot(ring), s))
      BY <1>0, <1>2, <1>4, AddToWindow
    <2>2. Snapshot(ring) = Context(polls[restarts])
      BY DEF FrozenInv
    <2>3. Context(Append(Context(polls[restarts]), s)) = Context(Append(polls[restarts], s))
      BY <1>2, <1>5, WindowOfWindow
    <2> QED BY <1>3, <2>1, <2>2, <2>3
  <1>7. Snapshot(ring)' = Context(polls[restarts])'
    BY <1>4, <1>6 DEF Snapshot, Context, Window!LastOf
  <1>8. \A run \in Runs : run > restarts' => polls'[run] = <<>>
    <2> SUFFICES ASSUME NEW run \in Runs, run > restarts PROVE polls'[run] = <<>>
      BY <1>4
    <2>1. run # restarts
      BY <1>0, TimesAssumption DEF Runs
    <2> QED BY <1>3, <2>1 DEF FrozenInv
  <1>9. \A r : Frozen(polls, r) => Frozen(polls', r)
    BY <1>0, <1>2, <1>3, FrozenStays
  <1>10. OnDisk' = OnDisk
    BY <1>4 DEF OnDisk
  <1>11. pc' \in {"candidate", "standDown"} => Fresh(polls', rec')
    <2> SUFFICES ASSUME pc' \in {"candidate", "standDown"} PROVE Fresh(polls', rec')
      OBVIOUS
    <2> HIDE DEF new
    <2>1. rec' = NewRecorder(ring')
      BY <1>4
    <2>2. rec'.detected = now /\ rec'.samples = Snapshot(ring')
      BY <2>1 DEF NewRecorder, NoRecorder
    <2> DEFINE n == Len(new)
    <2>3. n \in 1 .. n /\ new[n].at = now /\ SubSeq(new, 1, n) = new
      BY <1>2, <1>3, <1>5
    <2>4. Snapshot(ring') = Context(SubSeq(new, 1, n))
      BY <1>6, <2>3
    <2>5. Len(polls'[restarts]) = n /\ polls'[restarts] = new
      BY DEF new
    <2> HIDE DEF n
    <2> QED BY <1>0, <2>2, <2>3, <2>4, <2>5 DEF Fresh
  <1>12. pc' \notin {"sleeping", "takeover"}
    BY <1>4
  <1>13. /\ \A w \in writers' : Frozen(polls', w.recording)
         /\ \A r \in OnDisk' : Frozen(polls', r)
    BY <1>4, <1>9, <1>10 DEF FrozenInv
  <1> QED BY <1>7, <1>8, <1>11, <1>12, <1>13 DEF FrozenInv

LEMMA InitFrozen == Init => FrozenInv
  <1> SUFFICES ASSUME Init PROVE FrozenInv
    OBVIOUS
  <1>1. Snapshot(ring) = <<>>
    BY ZeroSampleType, NewRingType DEF Init
  <1>2. polls[restarts] = <<>>
    BY TimesAssumption DEF Init, Runs
  <1>3. Context(<<>>) = <<>>
    BY RingSizeAssumption DEF Context, Window!LastOf
  <1>4. OnDisk = {}
    BY DEF OnDisk, Init, NoFile
  <1> QED BY <1>1, <1>2, <1>3, <1>4 DEF Init, FrozenInv

LEMMA NextFrozen == TypeOK /\ FrozenInv /\ [Next]_vars => FrozenInv'
  <1> SUFFICES ASSUME TypeOK, FrozenInv, [Next]_vars PROVE FrozenInv'
    OBVIOUS
  <1> USE DEF loop, disk, history
  <1>0. rec \in Recordings /\ polls \in PollHistories
    BY DEF TypeOK, PollHistories
  <1>1. CASE Poll
    BY <1>1, PollFreezes
  <1>2. CASE StartPoll \/ EndStandDown \/ AlreadyActive \/ Start
    <2>1. UNCHANGED <<ring, polls, restarts, writers, files>> /\ pc' \in {"polling", "idle"}
      BY <1>2 DEF StartPoll, EndStandDown, AlreadyActive, Start, Return
    <2>2. OnDisk' = OnDisk
      BY <2>1 DEF OnDisk
    <2> QED BY <2>1, <2>2, KeepsFrozen DEF FrozenInv
  <1>3. CASE AbortUnhealthy
    <2>1. PICK result \in {"aborted_not_healthy", "aborted_not_healthy_long_enough"} :
              WriteAsync(rec, result)
      BY <1>3 DEF AbortUnhealthy
    <2>2. result \in Results /\ UNCHANGED <<ring, polls, restarts, files>> /\ pc' = "idle"
      BY <1>3 DEF AbortUnhealthy, Results, Return
    <2>3. Frozen(polls, rec)
      BY <1>0, <1>3, FreshIsFrozen DEF AbortUnhealthy, FrozenInv
    <2> QED BY <1>0, <2>1, <2>2, <2>3, HandsOverFrozen
  <1>4. CASE Delay
    <2>1. /\ pc' \in {"takeover", "sleeping"} /\ pc = "candidate"
          /\ UNCHANGED <<ring, rec, polls, restarts, writers, files>>
      BY <1>4 DEF Delay
    <2>2. Fresh(polls, rec) /\ Frozen(polls, rec)
      BY <1>0, <2>1, FreshIsFrozen DEF FrozenInv
    <2>3. OnDisk' = OnDisk
      BY <2>1 DEF OnDisk
    <2>4. /\ \A w \in writers' : Frozen(polls, w.recording)
          /\ \A r \in OnDisk' : Frozen(polls, r)
      BY <2>1, <2>3 DEF FrozenInv
    <2>5. Fresh(polls, rec') /\ Frozen(polls, rec')
      BY <2>1, <2>2
    <2> QED BY <2>1, <2>4, <2>5, KeepsFrozen
  <1>5. CASE Revalidate
    <2>1. pc = "sleeping" /\ UNCHANGED <<ring, polls, restarts, files>>
      BY <1>5 DEF Revalidate
    <2>2. PICK finding \in Findings :
              LET r == [rec EXCEPT !.samples = Append(@, SampleOf(Counted(count, finding), finding))]
              IN  \/ Return /\ DropRecorder
                  \/ WriteAsync(r, "aborted_peer_took_over") /\ Return
                  \/ pc' = "takeover" /\ rec' = r /\ DropRecorder
      BY <1>5 DEF Revalidate
    <2> DEFINE s == SampleOf(Counted(count, finding), finding)
               r == [rec EXCEPT !.samples = Append(@, s)]
    <2>3. s \in Samples
      BY SampleType DEF TypeOK
    <2>4. \/ Return /\ DropRecorder
          \/ WriteAsync(r, "aborted_peer_took_over") /\ Return
          \/ pc' = "takeover" /\ rec' = r /\ DropRecorder
      BY <2>2
    <2> HIDE DEF s
    <2>5. r \in Recordings
      BY <1>0, <2>3, AppendType
    <2>6. Frozen(polls, r)
      BY <1>0, <2>1, <2>3, FreshIsFrozen DEF FrozenInv
    <2> HIDE DEF r
    <2>7. CASE WriteAsync(r, "aborted_peer_took_over") /\ Return
      BY <2>1, <2>5, <2>6, <2>7, HandsOverFrozen DEF Return, Results
    <2>8. ASSUME DropRecorder, Return \/ (pc' = "takeover" /\ rec' = r)
          PROVE  FrozenInv'
      <3>1. UNCHANGED writers /\ OnDisk' = OnDisk /\ pc' \in {"idle", "takeover"}
            /\ (pc' = "takeover" => Frozen(polls, rec'))
        BY <2>1, <2>6, <2>8 DEF OnDisk, DropRecorder, Return
      <3> QED BY <2>1, <3>1, KeepsFrozen DEF FrozenInv
    <2>9. CASE Return /\ DropRecorder
      BY <2>8, <2>9
    <2>10. CASE pc' = "takeover" /\ rec' = r /\ DropRecorder
      BY <2>8, <2>10
    <2> QED BY <2>4, <2>7, <2>9, <2>10 DEF r
  <1>6. CASE EndTakeover
    <2> DEFINE r == [rec EXCEPT !.confirmed = now]
    <2>1. /\ UNCHANGED <<ring, polls, restarts, files>> /\ pc' = "idle" /\ Frozen(polls, rec)
          /\ \/ WriteAsync(r, "became_active")
             \/ WriteAsync(rec, "became_active_unconfirmed")
      BY <1>6 DEF EndTakeover, Return, FrozenInv
    <2>2. r \in Recordings /\ r.detected = rec.detected /\ r.samples = rec.samples
      BY <1>0 DEF Recordings, TypeOK
    <2> HIDE DEF r
    <2>3. Frozen(polls, r)
      BY <2>1, <2>2, FrozenAlike
    <2> QED BY <1>0, <2>1, <2>2, <2>3, HandsOverFrozen DEF Results
  <1>7. ASSUME NEW w \in writers, Open(w) PROVE FrozenInv'
    <2>1. UNCHANGED <<ring, polls, restarts, pc, rec>>
      BY <1>7 DEF Open
    <2>2. \A v \in writers' : \E x \in writers : v.recording = x.recording
      <3>1. [w EXCEPT !.opened = TRUE].recording = w.recording
        BY DEF TypeOK
      <3> QED BY <1>7, <3>1 DEF Open
    <2>3. OnDisk' \subseteq OnDisk
      <3>1. \A f \in Names : files'[f] = TornFile \/ files'[f] = files[f]
        BY <1>7 DEF Open, TypeOK
      <3>2. TornFile.state # "written"
        BY DEF TornFile
      <3> QED BY <3>1, <3>2 DEF OnDisk
    <2>4. /\ \A v \in writers' : Frozen(polls, v.recording)
          /\ \A r \in OnDisk' : Frozen(polls, r)
      BY <2>2, <2>3 DEF FrozenInv
    <2>5. /\ pc' \in {"candidate", "sleeping", "standDown"} => Fresh(polls, rec')
          /\ pc' = "takeover" => Frozen(polls, rec')
      BY <2>1 DEF FrozenInv
    <2> QED BY <2>1, <2>4, <2>5, KeepsFrozen
  <1>8. ASSUME NEW w \in writers, Write(w) PROVE FrozenInv'
    <2>1. UNCHANGED <<ring, polls, restarts, pc, rec>> /\ writers' \subseteq writers
      BY <1>8 DEF Write
    <2>2. OnDisk' \subseteq OnDisk \cup {w.recording}
      <3> DEFINE file == [state |-> "written", recording |-> w.recording]
      <3>1. \A f \in Names : files'[f] = file \/ files'[f] = files[f]
        BY <1>8 DEF Write, TypeOK
      <3> QED BY <3>1 DEF OnDisk
    <2>3. /\ \A v \in writers' : Frozen(polls, v.recording)
          /\ \A r \in OnDisk' : Frozen(polls, r)
      BY <2>1, <2>2 DEF FrozenInv
    <2>4. /\ pc' \in {"candidate", "sleeping", "standDown"} => Fresh(polls, rec')
          /\ pc' = "takeover" => Frozen(polls, rec')
      BY <2>1 DEF FrozenInv
    <2> QED BY <2>1, <2>3, <2>4, KeepsFrozen
  <1>9. CASE Crash
    <2>1. /\ UNCHANGED <<polls, files>> /\ writers' = {} /\ pc' = "down"
          /\ ring' = NewRing(ZeroSample) /\ restarts' = restarts + 1
          /\ restarts < MaxRestarts /\ restarts \in Runs
      BY <1>9 DEF Crash, TypeOK
    <2>2. /\ restarts' \in Runs /\ restarts' > restarts
          /\ \A run \in Runs : run > restarts' => run > restarts
      BY <2>1, TimesAssumption DEF Runs
    <2>3. polls'[restarts'] = <<>> /\ \A run \in Runs : run > restarts' => polls'[run] = <<>>
      BY <2>1, <2>2 DEF FrozenInv
    <2>4. Snapshot(ring') = <<>>
      BY <2>1, ZeroSampleType, NewRingType
    <2>5. Context(<<>>) = <<>>
      BY RingSizeAssumption DEF Context, Window!LastOf
    <2>6. Snapshot(ring)' = Context(polls[restarts])'
      BY <2>3, <2>4, <2>5 DEF Snapshot, Context, Window!LastOf
    <2>7. \A r \in OnDisk' : Frozen(polls', r)
      <3>1. OnDisk' = OnDisk
        BY <2>1 DEF OnDisk
      <3> QED BY <2>1, <3>1 DEF FrozenInv
    <2> QED BY <2>1, <2>3, <2>6, <2>7 DEF FrozenInv
  <1>10. CASE Tick \/ Down \/ UNCHANGED vars
    <2>1. UNCHANGED <<ring, polls, restarts, writers, files, pc, rec>>
      BY <1>10 DEF Tick, Down, vars
    <2>2. OnDisk' = OnDisk
      BY <2>1 DEF OnDisk
    <2>3. /\ \A w \in writers' : Frozen(polls, w.recording)
          /\ \A r \in OnDisk' : Frozen(polls, r)
          /\ pc' \in {"candidate", "sleeping", "standDown"} => Fresh(polls, rec')
          /\ pc' = "takeover" => Frozen(polls, rec')
      BY <2>1, <2>2 DEF FrozenInv
    <2> QED BY <2>1, <2>3, KeepsFrozen
  <1> QED
    BY <1>1, <1>2, <1>3, <1>4, <1>5, <1>6, <1>7, <1>8, <1>9, <1>10 DEF Next, Over

\* A recording on disk shows what the node had seen when it detected the
\* failover: the poll's own sample and the ring's others before it, and not a
\* sample of a later poll or of another run of the manager (the ring is copied
\* by recording.New and appended to by nothing but the revalidation).
THEOREM ContextIsFrozen == Spec => []ContextFrozen
  <1>1. TypeOK /\ FrozenInv => ContextFrozen
    BY FrozenIsContextFrozen DEF FrozenInv
  <1> QED BY <1>1, InitTypeOK, NextTypeOK, InitFrozen, NextFrozen, PTL DEF Spec

---------------------------------------------------------------------------
(* The times of the polls, and the downtime read from a recording. *)

\* Poll i of run a comes before poll j of run b.
Precedes(a, i, b, j) == a < b \/ (a = b /\ i < j)

InOrder(p) ==
    \A a \in Runs : \A b \in Runs : \A i \in 1 .. Len(p[a]) : \A j \in 1 .. Len(p[b]) :
        Precedes(a, i, b, j) => p[a][i].at < p[b][j].at

PollTimes(p) == {0} \cup UNION {{p[run][i].at : i \in 1 .. Len(p[run])} : run \in Runs}

\* No two polls share a time: the next is later than all that were.
TimesInv ==
    /\ InOrder(polls)
    /\ \A run \in Runs : \A i \in 1 .. Len(polls[run]) : 0 < polls[run][i].at
    /\ \A t \in PollTimes(polls) :
           /\ t <= now
           /\ pc = "polling" => t < now
           /\ pc = "idle" => t < now + wait

LEMMA TimeType ==
    ASSUME TypeOK
    PROVE  /\ now \in Nat /\ wait \in Nat /\ now + wait \in Nat
           /\ PollTimes(polls) \subseteq Nat
           /\ polls \in PollHistories /\ restarts \in Runs
           /\ \A run \in Runs : \A i \in 1 .. Len(polls[run]) :
                  polls[run][i] \in Samples /\ polls[run][i].at \in Nat
           /\ rec.detected \in Nat
  <1>1. polls \in PollHistories /\ Runs \subseteq Nat
    BY DEF TypeOK, PollHistories, Runs
  <1>2. \A run \in Runs : \A i \in 1 .. Len(polls[run]) :
            polls[run][i] \in Samples /\ polls[run][i].at \in Nat
    <2> SUFFICES ASSUME NEW run \in Runs, NEW i \in 1 .. Len(polls[run])
                 PROVE  polls[run][i] \in Samples /\ polls[run][i].at \in Nat
      OBVIOUS
    <2>1. polls[run] \in Seq(Samples)
      BY <1>1 DEF PollHistories
    <2>2. polls[run][i] \in Samples
      BY <2>1
    <2> QED BY <2>2 DEF Samples, Times
  <1>3. PollTimes(polls) \subseteq Nat
    BY <1>2 DEF PollTimes
  <1> QED BY <1>1, <1>2, <1>3 DEF TypeOK, Times, Recordings

\* Without a poll the order stays, and time goes on.
LEMMA LaterKeepsTimes ==
    ASSUME TypeOK, TypeOK', TimesInv, polls' = polls, now' >= now,
           pc' = "polling" => \A t \in PollTimes(polls) : t < now',
           pc' = "idle" => \A t \in PollTimes(polls) : t < now' + wait'
    PROVE  TimesInv'
  <1> DEFINE ends == now' + wait'
  <1> HIDE DEF ends
  <1>1. now \in Nat /\ now' \in Nat /\ PollTimes(polls) \subseteq Nat
    BY TimeType DEF TypeOK, Times
  <1>2. \A t \in PollTimes(polls') :
            /\ t <= now'
            /\ pc' = "polling" => t < now'
            /\ pc' = "idle" => t < ends
    BY <1>1 DEF TimesInv, ends
  <1>3. InOrder(polls')
    BY DEF TimesInv
  <1>4. \A run \in Runs : \A i \in 1 .. Len(polls'[run]) : 0 < polls'[run][i].at
    BY DEF TimesInv
  <1> QED BY <1>2, <1>3, <1>4 DEF TimesInv, ends, InOrder, PollTimes

\* A wait follows every return to the monitor loop.
LEMMA ReturnWaits ==
    ASSUME now \in Times, Return
    PROVE  wait' \in Nat /\ wait' > 0
  BY BoundaryType, TimesAssumption DEF Return

LEMMA ReturnKeepsTimes ==
    ASSUME TypeOK, TypeOK', TimesInv, polls' = polls, now' = now, Return
    PROVE  TimesInv'
  <1> DEFINE d == wait'
  <1>1. d \in Nat /\ d > 0 /\ pc' = "idle"
    BY ReturnWaits DEF TypeOK, Return
  <1> HIDE DEF d
  <1>2. \A t \in PollTimes(polls) : t < now + d
    BY <1>1, TimeType DEF TimesInv
  <1> QED BY <1>1, <1>2, LaterKeepsTimes, TimeType DEF d

LEMMA PollKeepsTimes ==
    ASSUME TypeOK, TypeOK', FrozenInv, TimesInv, Poll
    PROVE  TimesInv'
  <1>0. /\ now \in Nat /\ polls \in PollHistories /\ restarts \in Runs
        /\ PollTimes(polls) \subseteq Nat /\ Runs \subseteq Nat
        /\ now \in Times /\ count \in Nat
        /\ pc = "polling" /\ now' = now /\ restarts' = restarts
    BY TimeType DEF TypeOK, Poll, Runs
  <1>1. PICK finding \in Findings :
            polls' = [polls EXCEPT ![restarts] =
                         Append(@, SampleOf(Counted(count, finding), finding))]
    BY DEF Poll
  <1> DEFINE s == SampleOf(Counted(count, finding), finding)
             new == polls'[restarts]
             old == polls[restarts]
  <1>2. s \in Samples /\ s.at = now
    BY <1>0, SampleType DEF SampleOf
  <1> HIDE DEF s
  <1>3. /\ new = Append(old, s)
        /\ \A run \in Runs : run # restarts => polls'[run] = polls[run]
    <2>1. polls' = [polls EXCEPT ![restarts] = Append(@, s)]
      BY <1>1 DEF s
    <2> QED BY <1>2, <2>1, PolledType
  <1>4. old \in Seq(Samples)
    BY <1>0 DEF PollHistories
  <1>5. /\ Len(new) = Len(old) + 1 /\ new[Len(new)].at = now
        /\ \A i \in 1 .. Len(old) : new[i] = old[i]
    <2> HIDE DEF new, old
    <2> QED BY <1>2, <1>3, <1>4
  <1>6. \A run \in Runs : \A i \in 1 .. Len(polls'[run]) :
            \/ run = restarts /\ i = Len(new) /\ polls'[run][i].at = now
            \/ i \in 1 .. Len(polls[run]) /\ polls'[run][i] = polls[run][i]
    <2> SUFFICES ASSUME NEW run \in Runs, NEW i \in 1 .. Len(polls'[run])
                 PROVE  \/ run = restarts /\ i = Len(new) /\ polls'[run][i].at = now
                        \/ i \in 1 .. Len(polls[run]) /\ polls'[run][i] = polls[run][i]
      OBVIOUS
    <2>1. CASE run = restarts
      <3>1. Len(old) \in Nat /\ polls'[run] = new /\ polls[run] = old
        BY <1>4, <2>1
      <3> HIDE DEF new, old
      <3>2. i = Len(new) \/ i \in 1 .. Len(old)
        BY <1>5, <3>1
      <3> QED BY <1>5, <2>1, <3>1, <3>2
    <2>2. CASE run # restarts
      BY <1>3, <2>2
    <2> QED BY <2>1, <2>2
  <1>7. \A run \in Runs : \A i \in 1 .. Len(polls[run]) :
            /\ polls[run][i].at \in Nat /\ polls[run][i].at < now
            /\ ~(run > restarts)
    <2> SUFFICES ASSUME NEW run \in Runs, NEW i \in 1 .. Len(polls[run])
                 PROVE  /\ polls[run][i].at \in Nat /\ polls[run][i].at < now
                        /\ ~(run > restarts)
      OBVIOUS
    <2>1. polls[run][i].at \in PollTimes(polls)
      BY DEF PollTimes
    <2>2. run > restarts => Len(polls[run]) = 0
      BY DEF FrozenInv
    <2> QED BY <1>0, <2>1, <2>2 DEF TimesInv
  <1>8. 0 < now
    BY <1>0 DEF TimesInv, PollTimes
  <1>9. InOrder(polls')
    <2> SUFFICES ASSUME NEW a \in Runs, NEW b \in Runs,
                        NEW i \in 1 .. Len(polls'[a]), NEW j \in 1 .. Len(polls'[b]),
                        Precedes(a, i, b, j)
                 PROVE  polls'[a][i].at < polls'[b][j].at
      BY DEF InOrder
    <2>1. CASE i \in 1 .. Len(polls[a]) /\ polls'[a][i] = polls[a][i]
      <3>1. CASE j \in 1 .. Len(polls[b]) /\ polls'[b][j] = polls[b][j]
        <4>1. polls[a][i].at < polls[b][j].at
          BY <2>1, <3>1 DEF TimesInv, InOrder
        <4> QED BY <2>1, <3>1, <4>1
      <3>2. CASE polls'[b][j].at = now
        BY <1>7, <2>1, <3>2
      <3> QED BY <1>6, <3>1, <3>2
    <2>2. CASE a = restarts /\ i = Len(new)
      <3>1. CASE b = restarts
        <4>1. Len(polls'[b]) = Len(new) /\ i \in Nat /\ j \in Nat /\ Len(old) \in Nat
          BY <1>4, <3>1
        <4> HIDE DEF new, old
        <4>2. j <= Len(new)
          BY <1>5, <4>1
        <4> QED BY <1>0, <1>5, <2>2, <3>1, <4>1, <4>2 DEF Precedes
      <3>2. CASE b # restarts
        <4>1. b > restarts /\ j \in 1 .. Len(polls[b])
          BY <1>0, <1>6, <2>2, <3>2 DEF Precedes
        <4> QED BY <1>7, <4>1
      <3> QED BY <3>1, <3>2
    <2> HIDE DEF new
    <2> QED BY <1>6, <2>1, <2>2
  <1>10. \A run \in Runs : \A i \in 1 .. Len(polls'[run]) : 0 < polls'[run][i].at
    <2> HIDE DEF new
    <2> QED BY <1>6, <1>8 DEF TimesInv
  <1>11. \A t \in PollTimes(polls') : t <= now
    <2> HIDE DEF new
    <2> QED BY <1>0, <1>6, <1>7, <1>8 DEF PollTimes
  <1>12. PollTimes(polls') \subseteq Nat
    <2> HIDE DEF new
    <2> QED BY <1>0, <1>6, <1>7 DEF PollTimes
  <1>13. pc' # "polling" /\ (pc' = "idle" => Return)
    BY DEF Poll, Return
  <1>14. pc' = "idle" => \A t \in PollTimes(polls') : t < now + wait'
    <2> SUFFICES ASSUME Return, NEW t \in PollTimes(polls') PROVE t < now + wait'
      BY <1>13
    <2> DEFINE d == wait'
    <2>1. d \in Nat /\ d > 0
      BY <1>0, ReturnWaits
    <2> HIDE DEF d
    <2>2. t < now + d
      BY <1>0, <1>11, <1>12, <2>1
    <2> QED BY <2>2 DEF d
  <1> DEFINE ends == now + wait'
  <1> HIDE DEF ends
  <1>15. \A t \in PollTimes(polls') : t <= now /\ (pc' = "idle" => t < ends)
    BY <1>11, <1>14 DEF ends
  <1> QED BY <1>0, <1>9, <1>10, <1>13, <1>15 DEF TimesInv, InOrder, PollTimes, ends

LEMMA InitTimes == Init => TimesInv
  <1> SUFFICES ASSUME Init PROVE TimesInv
    OBVIOUS
  <1>1. \A run \in Runs : Len(polls[run]) = 0
    BY DEF Init
  <1>2. PollTimes(polls) = {0}
    BY <1>1 DEF PollTimes
  <1> QED BY <1>1, <1>2 DEF Init, TimesInv, InOrder

LEMMA NextTimes == TypeOK /\ TypeOK' /\ FrozenInv /\ TimesInv /\ [Next]_vars => TimesInv'
  <1> SUFFICES ASSUME TypeOK, TypeOK', FrozenInv, TimesInv, [Next]_vars PROVE TimesInv'
    OBVIOUS
  <1> USE DEF loop, disk, history
  <1>0. /\ now \in Nat /\ wait \in Nat /\ now' \in Nat /\ wait' \in Nat
        /\ PollTimes(polls) \subseteq Nat
    BY TimeType DEF TypeOK, Times
  <1>1. CASE Poll
    BY <1>1, PollKeepsTimes
  <1>2. CASE Return /\ UNCHANGED <<polls, now>>
    BY <1>2, ReturnKeepsTimes
  <1>3. CASE StartPoll
    <2>1. /\ polls' = polls /\ now' = now /\ pc' = "polling" /\ pc = "idle" /\ wait = 0
      BY <1>3 DEF StartPoll
    <2>2. \A t \in PollTimes(polls) : t < now'
      BY <1>0, <2>1 DEF TimesInv
    <2> QED BY <1>0, <2>1, <2>2, LaterKeepsTimes
  <1>4. CASE Start
    <2> DEFINE d == wait'
    <2>1. /\ polls' = polls /\ now' = now /\ pc' = "idle" /\ d > 0 /\ d \in Nat
      BY <1>0, <1>4, BoundaryType, TimesAssumption DEF Start, TypeOK
    <2> HIDE DEF d
    <2>2. \A t \in PollTimes(polls) : t < now' + d
      BY <1>0, <2>1 DEF TimesInv
    <2> QED BY <1>0, <2>1, <2>2, LaterKeepsTimes DEF d
  <1>5. CASE Crash \/ Down \/ (UNCHANGED <<polls, now>> /\ pc' \in {"sleeping", "takeover"})
    <2>1. polls' = polls /\ now' >= now /\ pc' \notin {"polling", "idle"}
      BY <1>0, <1>5 DEF Crash, Down
    <2> QED BY <2>1, LaterKeepsTimes
  <1>6. CASE UNCHANGED <<polls, now, pc, wait>>
    BY <1>0, <1>6, LaterKeepsTimes DEF TimesInv
  <1>7. CASE Tick
    <2> DEFINE d == wait'
    <2>1. /\ polls' = polls /\ now' = now + 1 /\ pc' = pc /\ d = wait - 1 /\ wait > 0
      BY <1>7 DEF Tick
    <2> HIDE DEF d
    <2>2. now' + d = now + wait
      BY <1>0, <2>1
    <2>3. /\ pc' = "polling" => \A t \in PollTimes(polls) : t < now'
          /\ pc' = "idle" => \A t \in PollTimes(polls) : t < now' + d
      BY <1>0, <2>1, <2>2 DEF TimesInv
    <2> QED BY <1>0, <2>1, <2>3, LaterKeepsTimes DEF d
  <1>8. \/ StartPoll \/ Poll \/ Start \/ Crash \/ Down \/ Tick
        \/ Return /\ UNCHANGED <<polls, now>>
        \/ UNCHANGED <<polls, now>> /\ pc' \in {"sleeping", "takeover"}
        \/ UNCHANGED <<polls, now, pc, wait>>
    BY DEF Next, EndStandDown, AbortUnhealthy, AlreadyActive, Delay, Revalidate, EndTakeover,
           Open, Write, Over, vars
  <1> QED BY <1>1, <1>2, <1>3, <1>4, <1>5, <1>6, <1>7, <1>8

\* The polls of a node come one after the other, those of an earlier run first,
\* and so the time at which a failover was detected names one poll: the context
\* of a recording is not to be mistaken for that of another.
THEOREM PollsInOrder == Spec => []InOrder(polls)
  <1>1. TimesInv => InOrder(polls)
    BY DEF TimesInv
  <1> QED
    BY <1>1, InitTypeOK, NextTypeOK, InitFrozen, NextFrozen, InitTimes, NextTimes, PTL DEF Spec

\* Of two polls one precedes the other, unless they are one.
LEMMA OnePoll ==
    ASSUME NEW p \in PollHistories, InOrder(p),
           NEW a \in Runs, NEW b \in Runs, NEW i \in 1 .. Len(p[a]), NEW j \in 1 .. Len(p[b]),
           p[a][i].at = p[b][j].at
    PROVE  a = b /\ i = j
  <1>1. a \in Nat /\ b \in Nat /\ Len(p[a]) \in Nat /\ Len(p[b]) \in Nat
    BY DEF Runs, PollHistories
  <1>2. p[a][i].at \in Nat /\ p[b][j].at \in Nat
    <2>1. p[a] \in Seq(Samples) /\ p[b] \in Seq(Samples)
      BY DEF PollHistories
    <2>2. p[a][i] \in Samples /\ p[b][j] \in Samples
      BY <2>1
    <2> QED BY <2>2 DEF Samples, Times
  <1>3. ~ Precedes(a, i, b, j) /\ ~ Precedes(b, j, a, i)
    BY <1>2 DEF InOrder
  <1> QED BY <1>1, <1>3 DEF Precedes

\* At a time at which the node polled there is one sequence it had polled.
LEMMA OneSequence ==
    ASSUME polls \in PollHistories, InOrder(polls), NEW t,
           NEW run \in Runs, NEW i \in 1 .. Len(polls[run]), polls[run][i].at = t
    PROVE  PolledBy(t) = {SubSeq(polls[run], 1, i)}
  <1>1. \A b \in Runs : polls[b] \in Seq(Samples) /\ DOMAIN polls[b] = 1 .. Len(polls[b])
    BY DEF PollHistories
  <1>2. ASSUME NEW x \in PolledBy(t) PROVE x = SubSeq(polls[run], 1, i)
    <2>1. PICK b \in Runs : \E j \in 1 .. Len(polls[b]) :
              polls[b][j].at = t /\ x = SubSeq(polls[b], 1, j)
      BY <1>1, <1>2 DEF PolledBy
    <2>2. PICK j \in 1 .. Len(polls[b]) : polls[b][j].at = t /\ x = SubSeq(polls[b], 1, j)
      BY <2>1
    <2>3. b = run /\ j = i
      BY <2>2, OnePoll
    <2> QED BY <2>2, <2>3
  <1>3. SubSeq(polls[run], 1, i) \in PolledBy(t)
    BY <1>1 DEF PolledBy
  <1> QED BY <1>2, <1>3

\* What a recording with outcome became_active is made of: its context, and if
\* it was made after a delay the later sample, without a leader, that ended it.
Solid(p, r) ==
    \E run \in Runs : \E i \in 1 .. Len(p[run]) :
        LET context == Context(SubSeq(p[run], 1, i))
            n == Len(context)
        IN  /\ p[run][i].at = r.detected
            /\ n <= Len(r.samples) /\ Len(r.samples) <= n + 1
            /\ SubSeq(r.samples, 1, n) = context
            /\ Len(r.samples) = n + 1 =>
                   r.samples[n + 1].count > 0 /\ r.samples[n + 1].at > r.detected

SolidInv ==
    /\ pc = "sleeping" => rec.detected < now + wait
    /\ pc = "takeover" => Solid(polls, rec)
    /\ \A w \in writers : w.recording.result = "became_active" =>
           Solid(polls, w.recording) /\ w.recording.confirmed > 0
    /\ \A r \in OnDisk : r.result = "became_active" =>
           Solid(polls, r) /\ r.confirmed > 0

LEMMA SolidAlike ==
    ASSUME NEW p, NEW r, NEW x, Solid(p, r),
           x.detected = r.detected, x.samples = r.samples
    PROVE  Solid(p, x)
  BY DEF Solid

LEMMA SolidStays ==
    ASSUME NEW p \in PollHistories, NEW q \in PollHistories, NEW this \in Runs,
           NEW s \in Samples, q[this] = Append(p[this], s),
           \A run \in Runs : run # this => q[run] = p[run]
    PROVE  \A r : Solid(p, r) => Solid(q, r)
  <1>1. \A run \in Runs : \A i \in 1 .. Len(p[run]) :
               /\ i \in 1 .. Len(q[run])
               /\ q[run][i] = p[run][i]
               /\ SubSeq(q[run], 1, i) = SubSeq(p[run], 1, i)
    BY HistoryGrows
  <1> SUFFICES ASSUME NEW r, Solid(p, r) PROVE Solid(q, r)
    OBVIOUS
  <1>2. PICK run \in Runs : \E i \in 1 .. Len(p[run]) :
            LET context == Context(SubSeq(p[run], 1, i))
                n == Len(context)
            IN  /\ p[run][i].at = r.detected
                /\ n <= Len(r.samples) /\ Len(r.samples) <= n + 1
                /\ SubSeq(r.samples, 1, n) = context
                /\ Len(r.samples) = n + 1 =>
                       r.samples[n + 1].count > 0 /\ r.samples[n + 1].at > r.detected
    BY DEF Solid
  <1>3. PICK i \in 1 .. Len(p[run]) :
            LET context == Context(SubSeq(p[run], 1, i))
                n == Len(context)
            IN  /\ p[run][i].at = r.detected
                /\ n <= Len(r.samples) /\ Len(r.samples) <= n + 1
                /\ SubSeq(r.samples, 1, n) = context
                /\ Len(r.samples) = n + 1 =>
                       r.samples[n + 1].count > 0 /\ r.samples[n + 1].at > r.detected
    BY <1>2
  <1>4. i \in 1 .. Len(q[run]) /\ q[run][i] = p[run][i] /\ SubSeq(q[run], 1, i) = SubSeq(p[run], 1, i)
    BY <1>1
  <1> QED BY <1>3, <1>4 DEF Solid

\* What is written is what was recorded, with its result.
LEMMA Writes ==
    ASSUME NEW recording \in Recordings, NEW result \in Results, WriteAsync(recording, result)
    PROVE  \A w \in writers' :
               \/ w \in writers
               \/ /\ w.recording.result = result
                  /\ w.recording.detected = recording.detected
                  /\ w.recording.samples = recording.samples
                  /\ w.recording.confirmed = recording.confirmed
  <1> DEFINE r == [recording EXCEPT !.result = result]
             w == [recording |-> r, opened |-> FALSE]
  <1>1. /\ r.result = result /\ r.detected = recording.detected
        /\ r.samples = recording.samples /\ r.confirmed = recording.confirmed
    BY DEF Recordings
  <1>2. w.recording = r /\ writers' = writers \cup {w}
    BY DEF WriteAsync
  <1> HIDE DEF w, r
  <1> QED BY <1>1, <1>2

\* Every poll is past.
LEMMA PollsPast ==
    ASSUME TimesInv, NEW run \in Runs, NEW i \in 1 .. Len(polls[run])
    PROVE  0 < polls[run][i].at /\ polls[run][i].at <= now
  <1>1. polls[run][i].at \in PollTimes(polls)
    BY DEF PollTimes
  <1> QED BY <1>1 DEF TimesInv

\* A fresh recording is solid, and so it is with a later leaderless sample.
LEMMA FreshIsSolid ==
    ASSUME NEW p \in PollHistories, NEW r \in Recordings, Fresh(p, r)
    PROVE  /\ Solid(p, r)
           /\ \A t \in Samples : t.count > 0 /\ t.at > r.detected =>
                  Solid(p, [r EXCEPT !.samples = Append(@, t)])
  <1>0. PICK run \in Runs : \E i \in 1 .. Len(p[run]) :
            /\ p[run][i].at = r.detected
            /\ r.samples = Context(SubSeq(p[run], 1, i))
    BY DEF Fresh
  <1>1. PICK i \in 1 .. Len(p[run]) :
            /\ p[run][i].at = r.detected
            /\ r.samples = Context(SubSeq(p[run], 1, i))
    BY <1>0
  <1> DEFINE c == Context(SubSeq(p[run], 1, i))
  <1>2. r.samples \in Seq(Samples) /\ r.samples = c /\ Len(c) \in Nat
    BY <1>1 DEF Recordings
  <1> HIDE DEF c
  <1>3. /\ Len(c) <= Len(r.samples) /\ Len(r.samples) <= Len(c) + 1
        /\ SubSeq(r.samples, 1, Len(c)) = c
        /\ Len(r.samples) # Len(c) + 1
    BY <1>2
  <1>4. Solid(p, r)
    BY <1>1, <1>3 DEF Solid, c
  <1>5. ASSUME NEW t \in Samples, t.count > 0, t.at > r.detected
        PROVE  Solid(p, [r EXCEPT !.samples = Append(@, t)])
    <2> DEFINE a == Append(r.samples, t)
               x == [r EXCEPT !.samples = a]
    <2>1. /\ a \in Seq(Samples) /\ Len(c) <= Len(a) /\ Len(a) <= Len(c) + 1
          /\ SubSeq(a, 1, Len(c)) = c /\ a[Len(c) + 1] = t
      BY <1>2
    <2> HIDE DEF a
    <2>2. x.samples = a /\ x.detected = r.detected
      BY DEF Recordings
    <2> HIDE DEF x
    <2>3. Solid(p, x)
      BY <1>1, <1>5, <2>1, <2>2 DEF Solid, c
    <2> QED BY <2>3 DEF x, a
  <1> QED BY <1>4, <1>5

\* Recordings are solid as long as those handed over are.
LEMMA KeepsSolid ==
    ASSUME SolidInv, polls' = polls,
           pc' = "takeover" => Solid(polls, rec'),
           pc' = "sleeping" => rec'.detected < now' + wait',
           \A w \in writers' : \/ \E v \in writers : w.recording = v.recording
                               \/ w.recording.result # "became_active"
                               \/ Solid(polls, w.recording) /\ w.recording.confirmed > 0,
           \A r \in OnDisk' : r \in OnDisk \/ \E w \in writers : r = w.recording
    PROVE  SolidInv'
  <1> DEFINE ends == now' + wait'
  <1> HIDE DEF ends
  <1>1. pc' = "sleeping" => rec'.detected < ends
    BY DEF ends
  <1>2. /\ \A w \in writers' : w.recording.result = "became_active" =>
               Solid(polls, w.recording) /\ w.recording.confirmed > 0
        /\ \A r \in OnDisk' : r.result = "became_active" =>
               Solid(polls, r) /\ r.confirmed > 0
    BY DEF SolidInv
  <1> QED BY <1>1, <1>2 DEF SolidInv, ends

LEMMA PollKeepsSolid ==
    ASSUME TypeOK, SolidInv, Poll
    PROVE  SolidInv'
  <1>0. now \in Times /\ count \in Nat /\ restarts \in Runs /\ polls \in PollHistories
    BY DEF TypeOK, PollHistories
  <1>1. PICK finding \in Findings :
            polls' = [polls EXCEPT ![restarts] =
                         Append(@, SampleOf(Counted(count, finding), finding))]
    BY DEF Poll
  <1> DEFINE s == SampleOf(Counted(count, finding), finding)
  <1>2. s \in Samples
    BY <1>0, SampleType
  <1> HIDE DEF s
  <1>3. /\ polls' \in PollHistories
        /\ polls'[restarts] = Append(polls[restarts], s)
        /\ \A run \in Runs : run # restarts => polls'[run] = polls[run]
    <2>1. polls' = [polls EXCEPT ![restarts] = Append(@, s)]
      BY <1>1 DEF s
    <2> QED BY <1>2, <2>1, PolledType DEF PollHistories
  <1>4. \A r : Solid(polls, r) => Solid(polls', r)
    BY <1>0, <1>2, <1>3, SolidStays
  <1>5. UNCHANGED <<writers, files>> /\ pc' \notin {"sleeping", "takeover"}
    BY DEF Poll, Return, disk
  <1>6. OnDisk' = OnDisk
    BY <1>5 DEF OnDisk
  <1> QED BY <1>4, <1>5, <1>6 DEF SolidInv

LEMMA InitSolid == Init => SolidInv
  <1> SUFFICES ASSUME Init PROVE SolidInv
    OBVIOUS
  <1>1. OnDisk = {}
    BY DEF OnDisk, Init, NoFile
  <1> QED BY <1>1 DEF Init, SolidInv

LEMMA NextSolid ==
    TypeOK /\ FrozenInv /\ TimesInv /\ SolidInv /\ [Next]_vars => SolidInv'
  <1> SUFFICES ASSUME TypeOK, FrozenInv, TimesInv, SolidInv, [Next]_vars PROVE SolidInv'
    OBVIOUS
  <1> USE DEF loop, disk, history
  <1>0. /\ rec \in Recordings /\ polls \in PollHistories /\ now \in Nat /\ wait \in Nat
        /\ rec.detected \in Nat /\ PollTimes(polls) \subseteq Nat
    BY TimeType DEF TypeOK
  <1>00. Fresh(polls, rec) => rec.detected <= now
    BY PollsPast DEF Fresh
  <1>1. CASE Poll
    BY <1>1, PollKeepsSolid
  <1>2. CASE StartPoll \/ EndStandDown \/ AlreadyActive \/ Start
    <2>1. UNCHANGED <<polls, writers, files>> /\ pc' \in {"polling", "idle"}
      BY <1>2 DEF StartPoll, EndStandDown, AlreadyActive, Start, Return
    <2>2. OnDisk' = OnDisk
      BY <2>1 DEF OnDisk
    <2> QED BY <2>1, <2>2, KeepsSolid
  <1>3. CASE AbortUnhealthy
    <2>1. UNCHANGED <<polls, files>> /\ pc' = "idle"
      BY <1>3 DEF AbortUnhealthy, Return
    <2>2. \A w \in writers' : w \in writers \/ w.recording.result # "became_active"
      <3>1. PICK result \in {"aborted_not_healthy", "aborted_not_healthy_long_enough"} :
                WriteAsync(rec, result)
        BY <1>3 DEF AbortUnhealthy
      <3>2. result \in Results /\ result # "became_active"
        BY DEF Results
      <3> QED BY <1>0, <3>1, <3>2, Writes
    <2>3. OnDisk' = OnDisk
      BY <2>1 DEF OnDisk
    <2> QED BY <2>1, <2>2, <2>3, KeepsSolid
  <1>4. CASE Delay
    <2>1. /\ pc' \in {"takeover", "sleeping"} /\ pc = "candidate"
          /\ UNCHANGED <<now, rec, polls, writers, files>>
      BY <1>4 DEF Delay
    <2>2. Solid(polls, rec') /\ rec'.detected <= now
      BY <1>0, <1>00, <2>1, FreshIsSolid DEF FrozenInv
    <2>3. OnDisk' = OnDisk
      BY <2>1 DEF OnDisk
    <2>4. pc' = "sleeping" => rec'.detected < now' + wait'
      <3> SUFFICES ASSUME pc' = "sleeping" PROVE rec'.detected < now' + wait'
        OBVIOUS
      <3> DEFINE d == wait'
      <3>1. PICK rank \in 0 .. MaxRank : rank # 0 /\ d = rank * PollInterval
        BY <1>4 DEF Delay
      <3> HIDE DEF d
      <3>2. rank \in Nat \ {0} /\ PollInterval \in Nat \ {0}
        BY <3>1, TimesAssumption
      <3>3. d \in Nat /\ d > 0
        BY <3>1, <3>2
      <3>4. rec'.detected < now' + d
        BY <1>0, <2>1, <2>2, <3>3
      <3> QED BY <3>4 DEF d
    <2> QED BY <2>1, <2>2, <2>3, <2>4, KeepsSolid
  <1>5. CASE Revalidate
    <2>1. pc = "sleeping" /\ wait = 0 /\ UNCHANGED <<now, polls, files>>
      BY <1>5 DEF Revalidate
    <2>2. PICK finding \in Findings :
              LET c == Counted(count, finding)
                  r == [rec EXCEPT !.samples = Append(@, SampleOf(c, finding))]
              IN  \/ Return /\ DropRecorder
                  \/ WriteAsync(r, "aborted_peer_took_over") /\ Return
                  \/ c > 0 /\ pc' = "takeover" /\ rec' = r /\ DropRecorder
      BY <1>5 DEF Revalidate
    <2> DEFINE c == Counted(count, finding)
               s == SampleOf(c, finding)
               r == [rec EXCEPT !.samples = Append(@, s)]
    <2>3. s \in Samples /\ s.at = now /\ s.count = c
      BY SampleType DEF TypeOK, SampleOf
    <2>4. \/ Return /\ DropRecorder
          \/ WriteAsync(r, "aborted_peer_took_over") /\ Return
          \/ c > 0 /\ pc' = "takeover" /\ rec' = r /\ DropRecorder
      BY <2>2
    <2> HIDE DEF c, s
    <2>5. c > 0 => Solid(polls, r)
      <3>1. s.at > rec.detected
        BY <1>0, <2>1, <2>3 DEF SolidInv
      <3>2. Fresh(polls, rec)
        BY <2>1 DEF FrozenInv
      <3> QED BY <1>0, <2>3, <3>1, <3>2, FreshIsSolid
    <2>6. r \in Recordings
      BY <1>0, <2>3, AppendType
    <2> HIDE DEF r
    <2>7. OnDisk' = OnDisk
      BY <2>1 DEF OnDisk
    <2>8. CASE WriteAsync(r, "aborted_peer_took_over") /\ Return
      <3>1. "aborted_peer_took_over" \in Results
        BY DEF Results
      <3>2. \A w \in writers' : w \in writers \/ w.recording.result # "became_active"
        BY <2>6, <2>8, <3>1, Writes
      <3>3. pc' = "idle"
        BY <2>8 DEF Return
      <3> QED BY <2>1, <2>7, <3>2, <3>3, KeepsSolid
    <2>9. CASE Return /\ DropRecorder
      <3>1. pc' = "idle" /\ writers' = writers
        BY <2>9 DEF Return, DropRecorder
      <3> QED BY <2>1, <2>7, <3>1, KeepsSolid
    <2>10. CASE c > 0 /\ pc' = "takeover" /\ rec' = r /\ DropRecorder
      <3>1. pc' = "takeover" /\ writers' = writers /\ Solid(polls, rec')
        BY <2>5, <2>10 DEF DropRecorder
      <3> QED BY <2>1, <2>7, <3>1, KeepsSolid
    <2> QED BY <2>4, <2>8, <2>9, <2>10 DEF r, s, c
  <1>6. CASE EndTakeover
    <2> DEFINE r == [rec EXCEPT !.confirmed = now]
    <2>1. /\ UNCHANGED <<polls, files>> /\ pc' = "idle" /\ Solid(polls, rec) /\ Frozen(polls, rec)
          /\ \/ WriteAsync(r, "became_active")
             \/ WriteAsync(rec, "became_active_unconfirmed")
      BY <1>6 DEF EndTakeover, Return, FrozenInv, SolidInv
    <2>2. /\ r.detected = rec.detected /\ r.samples = rec.samples /\ r.confirmed = now
          /\ r \in Recordings
      BY <1>0 DEF Recordings, TypeOK
    <2>3. {"became_active", "became_active_unconfirmed"} \subseteq Results
      BY DEF Results
    <2> HIDE DEF r
    <2>4. \A w \in writers' :
              \/ w \in writers
              \/ w.recording.result # "became_active"
              \/ Solid(polls, w.recording) /\ w.recording.confirmed = now
      <3>1. CASE WriteAsync(r, "became_active")
        <4>1. \A w \in writers' :
                  \/ w \in writers
                  \/ /\ w.recording.detected = rec.detected
                     /\ w.recording.samples = rec.samples
                     /\ w.recording.confirmed = now
          BY <2>2, <2>3, <3>1, Writes
        <4> QED BY <2>1, <4>1, SolidAlike
      <3>2. CASE WriteAsync(rec, "became_active_unconfirmed")
        BY <1>0, <2>3, <3>2, Writes
      <3> QED BY <2>1, <3>1, <3>2
    <2>5. now > 0
      <3>1. PICK run \in Runs : \E i \in 1 .. Len(polls[run]) : polls[run][i].at = rec.detected
        BY <2>1 DEF Frozen
      <3>2. rec.detected > 0 /\ rec.detected <= now
        BY <3>1, PollsPast
      <3> QED BY <1>0, <3>2
    <2>6. OnDisk' = OnDisk
      BY <2>1 DEF OnDisk
    <2> QED BY <2>1, <2>4, <2>5, <2>6, KeepsSolid
  <1>7. ASSUME NEW w \in writers, Open(w) PROVE SolidInv'
    <2>1. UNCHANGED <<polls, pc, rec, now, wait>>
      BY <1>7 DEF Open
    <2>2. \A v \in writers' : \E x \in writers : v.recording = x.recording
      <3>1. [w EXCEPT !.opened = TRUE].recording = w.recording
        BY DEF TypeOK
      <3> QED BY <1>7, <3>1 DEF Open
    <2>3. OnDisk' \subseteq OnDisk
      <3>1. \A f \in Names : files'[f] = TornFile \/ files'[f] = files[f]
        BY <1>7 DEF Open, TypeOK
      <3>2. TornFile.state # "written"
        BY DEF TornFile
      <3> QED BY <3>1, <3>2 DEF OnDisk
    <2> QED BY <2>1, <2>2, <2>3, KeepsSolid DEF SolidInv
  <1>8. ASSUME NEW w \in writers, Write(w) PROVE SolidInv'
    <2>1. UNCHANGED <<polls, pc, rec, now, wait>> /\ writers' \subseteq writers
      BY <1>8 DEF Write
    <2>2. OnDisk' \subseteq OnDisk \cup {w.recording}
      <3> DEFINE file == [state |-> "written", recording |-> w.recording]
      <3>1. \A f \in Names : files'[f] = file \/ files'[f] = files[f]
        BY <1>8 DEF Write, TypeOK
      <3> QED BY <3>1 DEF OnDisk
    <2> QED BY <2>1, <2>2, KeepsSolid DEF SolidInv
  <1>9. CASE Crash
    <2>1. UNCHANGED <<polls, files>> /\ writers' = {} /\ pc' = "down"
      BY <1>9 DEF Crash
    <2>2. OnDisk' = OnDisk
      BY <2>1 DEF OnDisk
    <2> QED BY <2>1, <2>2, KeepsSolid
  <1>10. CASE Tick \/ Down \/ UNCHANGED vars
    <2>1. UNCHANGED <<polls, writers, files, pc, rec>>
      BY <1>10 DEF Tick, Down, vars
    <2>2. OnDisk' = OnDisk
      BY <2>1 DEF OnDisk
    <2>3. pc = "sleeping" => now' + wait' = now + wait
      BY <1>0, <1>10 DEF Tick, Down, vars
    <2> QED BY <2>1, <2>2, <2>3, KeepsSolid DEF SolidInv
  <1> QED
    BY <1>1, <1>2, <1>3, <1>4, <1>5, <1>6, <1>7, <1>8, <1>9, <1>10 DEF Next, Over

\* Every set of times has a last one.
LEMMA LastTime ==
    ASSUME NEW S, S \subseteq Times, S # {}
    PROVE  /\ Max(S) \in S
           /\ \A t \in S : t <= Max(S)
           /\ Max(S) \in Nat
  <1> DEFINE left == {MaxTime - t : t \in S}
             R == OpToRel(<, Nat)
  <1>1. MaxTime \in Nat /\ S \subseteq Nat /\ \A t \in S : t <= MaxTime
    BY TimesAssumption DEF Times
  <1>2. left \subseteq Nat /\ left # {}
    <2>1. \A t \in S : MaxTime - t \in Nat
      BY <1>1
    <2> QED BY <2>1
  <1>3. IsWellFoundedOn(R, Nat)
    BY NatLessThanWellFounded
  <1>4. PICK m \in left : \A k \in left : <<k, m>> \notin R
    <2> HIDE DEF R, left
    <2> QED BY <1>2, <1>3, WFMin
  <1>5. \A k \in left : ~(k < m)
    BY <1>2, <1>4 DEF OpToRel
  <1>6. PICK x \in S : m = MaxTime - x
    OBVIOUS
  <1>7. \A t \in S : x >= t
    <2> SUFFICES ASSUME NEW t \in S PROVE x >= t
      OBVIOUS
    <2>1. ~(MaxTime - t < m)
      BY <1>5
    <2> QED BY <1>1, <1>6, <2>1
  <1>8. Max(S) \in S /\ \A t \in S : Max(S) >= t
    BY <1>7 DEF Max
  <1> QED BY <1>1, <1>8

LEMMA LastOfOne == ASSUME NEW t \in Nat PROVE Max({t}) = t
  BY DEF Max

\* The samples of a solid recording: those of its context, each the sample of
\* one of the last polls, and one more that shows no leader and comes later.
LEMMA SamplesOf ==
    ASSUME NEW P \in Seq(Samples), NEW i \in 1 .. Len(P), NEW samples \in Seq(Samples),
           Len(Context(SubSeq(P, 1, i))) <= Len(samples),
           Len(samples) <= Len(Context(SubSeq(P, 1, i))) + 1,
           SubSeq(samples, 1, Len(Context(SubSeq(P, 1, i)))) = Context(SubSeq(P, 1, i)),
           Len(samples) = Len(Context(SubSeq(P, 1, i))) + 1 =>
               /\ samples[Len(samples)].count > 0
               /\ samples[Len(samples)].at > P[i].at
    PROVE  \E first \in 1 .. i :
               /\ \A j \in first .. i : P[j] \in ToSet(samples)
               /\ \A s \in ToSet(samples) :
                      \/ \E j \in first .. i : s = P[j]
                      \/ s.count > 0 /\ s.at > P[i].at
  <1> DEFINE polled == SubSeq(P, 1, i)
             c == Context(polled)
             n == Len(c)
             first == i - n + 1
  <1>1. polled \in Seq(Samples) /\ Len(polled) = i /\ \A j \in 1 .. i : polled[j] = P[j]
    OBVIOUS
  <1>2. /\ c \in Seq(Samples) /\ n = IF i <= RingSize THEN i ELSE RingSize
        /\ \A k \in 1 .. n : c[k] = polled[i - n + k]
    <2> HIDE DEF polled
    <2> QED BY <1>1, WindowType
  <1>3. n \in Nat /\ first \in 1 .. i /\ Len(samples) \in Nat
    BY <1>2, RingSizeAssumption
  <1> HIDE DEF c, polled
  <1>4. /\ n <= Len(samples) /\ Len(samples) <= n + 1 /\ SubSeq(samples, 1, n) = c
        /\ Len(samples) = n + 1 =>
               samples[Len(samples)].count > 0 /\ samples[Len(samples)].at > P[i].at
    BY DEF c, polled
  <1>5. \A k \in 1 .. n : samples[k] = c[k] /\ c[k] = P[i - n + k]
    <2> SUFFICES ASSUME NEW k \in 1 .. n PROVE samples[k] = c[k] /\ c[k] = P[i - n + k]
      OBVIOUS
    <2>1. SubSeq(samples, 1, n)[k] = samples[k]
      BY <1>3, <1>4
    <2>2. i - n + k \in 1 .. i
      BY <1>2, <1>3, RingSizeAssumption
    <2>3. polled[i - n + k] = P[i - n + k]
      BY <1>1, <2>2
    <2> QED BY <1>2, <1>4, <2>1, <2>3
  <1>6. DOMAIN samples = 1 .. Len(samples) /\ 1 .. n \subseteq DOMAIN samples
    <2> DEFINE m == Len(samples)
    <2>1. n <= m /\ n \in Nat /\ m \in Nat
      BY <1>3, <1>4
    <2> HIDE DEF n, m
    <2>2. 1 .. n \subseteq 1 .. m
      BY <2>1
    <2>3. DOMAIN samples = 1 .. m
      BY DEF m
    <2> QED BY <2>2, <2>3 DEF m
  <1>7. \A j \in first .. i : P[j] \in ToSet(samples)
    <2> SUFFICES ASSUME NEW j \in first .. i PROVE P[j] \in ToSet(samples)
      OBVIOUS
    <2>1. PICK k \in 1 .. n : i - n + k = j
      <3>1. j - i + n \in 1 .. n /\ i - n + (j - i + n) = j
        BY <1>3
      <3> QED BY <3>1
    <2>2. samples[k] = P[j]
      BY <1>5, <2>1
    <2>3. k \in DOMAIN samples
      BY <1>6
    <2> QED BY <2>2, <2>3 DEF ToSet
  <1>8. ASSUME NEW s \in ToSet(samples)
        PROVE  \/ \E j \in first .. i : s = P[j]
               \/ s.count > 0 /\ s.at > P[i].at
    <2>1. PICK k \in 1 .. Len(samples) : s = samples[k]
      BY <1>6 DEF ToSet
    <2>2. CASE k \in 1 .. n
      <3>1. i - n + k \in first .. i
        BY <1>3, <2>2
      <3> QED BY <1>5, <2>1, <2>2, <3>1
    <2>3. CASE k = n + 1
      BY <1>3, <1>4, <2>1, <2>3
    <2> QED BY <1>3, <1>4, <2>1, <2>2, <2>3
  <1> HIDE DEF first
  <1> QED BY <1>3, <1>7, <1>8

TimesOf(samples) == {s.at : s \in samples}

\* The samples M are those of the polls of run P from first to i, and others
\* that show no leader and come later.
Covers(M, P, first, i) ==
    /\ M \subseteq Samples
    /\ \A j \in first .. i : P[j] \in M
    /\ \A s \in M : \/ \E j \in first .. i : s = P[j]
                    \/ s.count > 0 /\ s.at > P[i].at

\* The downtime of such samples begins no later than the last of the run's that
\* shows a leader, and then unless there is a leaderless one before.
LEMMA DowntimeOfRecording ==
    ASSUME NEW P \in Seq(Samples), NEW i \in 1 .. Len(P),
           \A j, k \in 1 .. Len(P) : j < k => P[j].at < P[k].at,
           NEW M, NEW first \in 1 .. i, Covers(M, P, first, i),
           NEW led, led = Max(TimesOf(Led(ToSet(SubSeq(P, 1, i))))),
           Led(ToSet(SubSeq(P, 1, i))) # {},
           BeforeStreak(M) # {},
           NEW start, start = Max(TimesOf(BeforeStreak(M)))
    PROVE  /\ start \in Nat /\ led \in Nat /\ start <= led
           /\ (\A s \in M : s.at < led => s.count = 0) => start = led
  <1> DEFINE polled == SubSeq(P, 1, i)
             ledTimes == TimesOf(Led(ToSet(polled)))
             starts == TimesOf(BeforeStreak(M))
  <1>0. /\ M \subseteq Samples
        /\ \A j \in first .. i : P[j] \in M
        /\ \A s \in M : (\E j \in first .. i : s = P[j]) \/ (s.count > 0 /\ s.at > P[i].at)
    BY DEF Covers
  <1>1. /\ polled \in Seq(Samples) /\ Len(polled) = i /\ DOMAIN polled = 1 .. i
        /\ \A j \in 1 .. i : polled[j] = P[j]
    OBVIOUS
  <1>2. ToSet(polled) = {P[j] : j \in 1 .. i}
    <2> HIDE DEF polled
    <2> QED BY <1>1 DEF ToSet
  <1>3. \A j \in 1 .. Len(P) : P[j] \in Samples /\ P[j].at \in Times /\ P[j].count \in Nat
    <2> SUFFICES ASSUME NEW j \in 1 .. Len(P)
                 PROVE  P[j] \in Samples /\ P[j].at \in Times /\ P[j].count \in Nat
      OBVIOUS
    <2>1. P[j] \in Samples
      OBVIOUS
    <2> QED BY <2>1 DEF Samples
  <1>4. ledTimes # {} /\ ledTimes \subseteq Times
    BY <1>2, <1>3 DEF Led, TimesOf
  <1>5. /\ led \in ledTimes /\ led \in Nat /\ \A t \in ledTimes : t <= led
    <2> HIDE DEF ledTimes
    <2>1. led = Max(ledTimes)
      BY DEF ledTimes
    <2> QED BY <1>4, <2>1, LastTime
  <1>6. starts # {} /\ starts \subseteq Times
    BY <1>0 DEF BeforeStreak, Led, Samples, TimesOf
  <1>7. start \in starts /\ start \in Nat /\ \A t \in starts : t <= start
    <2> HIDE DEF starts
    <2>1. start = Max(starts)
      BY DEF starts
    <2> QED BY <1>6, <2>1, LastTime
  <1>8. PICK b \in BeforeStreak(M) : b.at = start
    BY <1>7 DEF TimesOf
  <1>9. b \in M /\ b.count = 0 /\ \A t \in M : t.count # 0 => b.at < t.at
    BY <1>8 DEF BeforeStreak, Led
  <1>10. PICK k \in first .. i : b = P[k]
    BY <1>0, <1>9
  <1>11. start <= led
    <2>1. b \in Led(ToSet(polled))
      BY <1>2, <1>9, <1>10 DEF Led
    <2> QED BY <1>5, <1>8, <2>1 DEF TimesOf
  <1>12. PICK l \in Led(ToSet(polled)) : l.at = led
    BY <1>5 DEF TimesOf
  <1>13. PICK j \in 1 .. i : l = P[j] /\ l.count = 0
    BY <1>2, <1>12 DEF Led
  <1>14. ASSUME \A s \in M : s.at < led => s.count = 0
         PROVE  start = led
    <2> SUFFICES ASSUME start < led PROVE FALSE
      BY <1>5, <1>7, <1>11
    <2>1. k < j
      <3>1. P[k].at < P[j].at
        BY <1>8, <1>10, <1>12, <1>13
      <3>2. k \in Nat /\ j \in Nat /\ P[k].at \in Nat /\ P[j].at \in Nat
        BY <1>3, <1>10, <1>13 DEF Times
      <3>3. ~(j < k)
        BY <3>1, <3>2
      <3>4. j # k
        BY <3>1, <3>2
      <3> QED BY <3>2, <3>3, <3>4
    <2>2. j \in first .. i /\ l \in M
      BY <1>0, <1>13, <2>1
    <2>3. \A t \in M : t.count # 0 => led < t.at
      <3> SUFFICES ASSUME NEW t \in M, t.count # 0 PROVE led < t.at
        OBVIOUS
      <3>1. t.at \in Nat /\ ~(t.at < led)
        <4>1. t \in Samples /\ ~(t.at < led)
          BY <1>0, <1>14
        <4> QED BY <4>1 DEF Samples, Times
      <3>2. t.at # led
        <4> SUFFICES ASSUME t.at = led PROVE FALSE
          OBVIOUS
        <4>1. CASE \E m \in first .. i : t = P[m]
          <5>1. PICK m \in first .. i : t = P[m]
            BY <4>1
          <5>2. m # j
            BY <1>13, <5>1
          <5>3. P[m].at = P[j].at /\ P[j].at \in Nat
            BY <1>3, <1>12, <1>13, <5>1 DEF Times
          <5>4. m < j \/ j < m
            BY <5>2
          <5> QED BY <5>3, <5>4
        <4>2. CASE t.at > P[i].at
          <5>1. P[i].at \in Nat /\ P[j].at \in Nat /\ P[j].at = led
            BY <1>3, <1>12, <1>13 DEF Times
          <5>2. j < i => P[j].at < P[i].at
            OBVIOUS
          <5> QED BY <1>13, <4>2, <5>1, <5>2
        <4> QED BY <1>0, <4>1, <4>2
      <3> QED BY <1>5, <3>1, <3>2
    <2>4. l \in BeforeStreak(M)
      <3>1. l.count = 0 /\ l \in Led(M)
        BY <1>13, <2>2 DEF Led
      <3> QED BY <1>12, <2>3, <3>1 DEF BeforeStreak, Led
    <2>5. led <= start
      BY <1>7, <1>12, <2>4 DEF TimesOf
    <2> QED BY <1>5, <1>7, <2>5
  <1> QED BY <1>5, <1>7, <1>11, <1>14

\* What LastLed and Downtime make of a solid recording.
LEMMA SolidDowntime ==
    ASSUME TypeOK, TimesInv, NEW r \in Recordings, Solid(polls, r), r.confirmed > 0,
           NEW d \in Downtime({r}), NEW led \in LastLed(r)
    PROVE  /\ d >= r.confirmed - led
           /\ (\A s \in ToSet(r.samples) : s.at < led => s.count = 0)
                  => d = r.confirmed - led
  <1>0. polls \in PollHistories /\ InOrder(polls) /\ r.confirmed \in Nat
        /\ r.samples \in Seq(Samples)
    BY TimeType DEF TimesInv, Recordings, Times
  <1>1. PICK run \in Runs : \E i \in 1 .. Len(polls[run]) :
            LET context == Context(SubSeq(polls[run], 1, i))
                n == Len(context)
            IN  /\ polls[run][i].at = r.detected
                /\ n <= Len(r.samples) /\ Len(r.samples) <= n + 1
                /\ SubSeq(r.samples, 1, n) = context
                /\ Len(r.samples) = n + 1 =>
                       r.samples[n + 1].count > 0 /\ r.samples[n + 1].at > r.detected
    BY DEF Solid
  <1>2. PICK i \in 1 .. Len(polls[run]) :
            LET context == Context(SubSeq(polls[run], 1, i))
                n == Len(context)
            IN  /\ polls[run][i].at = r.detected
                /\ n <= Len(r.samples) /\ Len(r.samples) <= n + 1
                /\ SubSeq(r.samples, 1, n) = context
                /\ Len(r.samples) = n + 1 =>
                       r.samples[n + 1].count > 0 /\ r.samples[n + 1].at > r.detected
    BY <1>1
  <1> DEFINE P == polls[run]
             M == ToSet(r.samples)
             polled == SubSeq(P, 1, i)
  <1>3. P \in Seq(Samples)
    BY <1>0 DEF PollHistories
  <1>4. \A j, k \in 1 .. Len(P) : j < k => P[j].at < P[k].at
    BY <1>0 DEF InOrder, Precedes
  <1>5. PICK first \in 1 .. i :
            /\ \A j \in first .. i : P[j] \in M
            /\ \A s \in M : \/ \E j \in first .. i : s = P[j]
                            \/ s.count > 0 /\ s.at > P[i].at
    <2> DEFINE samples == r.samples
    <2>1. samples \in Seq(Samples) /\ i \in 1 .. Len(P)
      BY <1>0
    <2>2. /\ Len(Context(SubSeq(P, 1, i))) <= Len(samples)
          /\ Len(samples) <= Len(Context(SubSeq(P, 1, i))) + 1
          /\ SubSeq(samples, 1, Len(Context(SubSeq(P, 1, i)))) = Context(SubSeq(P, 1, i))
          /\ Len(samples) = Len(Context(SubSeq(P, 1, i))) + 1 =>
                 /\ samples[Len(samples)].count > 0
                 /\ samples[Len(samples)].at > P[i].at
      BY <1>2
    <2> HIDE DEF samples, P
    <2>3. \E first \in 1 .. i :
              /\ \A j \in first .. i : P[j] \in ToSet(samples)
              /\ \A s \in ToSet(samples) :
                     \/ \E j \in first .. i : s = P[j]
                     \/ s.count > 0 /\ s.at > P[i].at
      BY <1>3, <2>1, <2>2, SamplesOf
    <2> QED BY <2>3 DEF samples
  <1>6. M \subseteq Samples
    BY <1>0 DEF ToSet
  <1>7. PolledBy(r.detected) = {polled}
    BY <1>0, <1>2, OneSequence
  <1>8. /\ Led(ToSet(polled)) # {}
        /\ led = Max(TimesOf(Led(ToSet(polled))))
    <2> DEFINE L == Led(UNION {ToSet(q) : q \in PolledBy(r.detected)})
    <2>1. UNION {ToSet(q) : q \in PolledBy(r.detected)} = ToSet(polled)
      BY <1>7
    <2>2. L = Led(ToSet(polled))
      BY <2>1
    <2> HIDE DEF L
    <2>3. LastLed(r) = IF TimesOf(L) = {} THEN {} ELSE {Max(TimesOf(L))}
      BY DEF LastLed, L, TimesOf
    <2>4. TimesOf(L) # {} /\ led = Max(TimesOf(L))
      BY <2>3
    <2>5. L # {}
      BY <2>4 DEF TimesOf
    <2> QED BY <2>2, <2>4, <2>5
  <1>9. Merged({r}) = M
    BY DEF Merged
  <1> DEFINE start == Max(TimesOf(BeforeStreak(M)))
  <1>10. BeforeStreak(M) # {} /\ d = r.confirmed - start
    <2>1. {x.confirmed : x \in {r}} \ {0} = {r.confirmed}
      BY <1>0
    <2>2. Ends({r}) = {r.confirmed}
      <3>1. Max({r.confirmed}) = r.confirmed
        BY <1>0, LastOfOne
      <3> QED BY <2>1, <3>1 DEF Ends
    <2>3. Starts(Merged({r})) = IF BeforeStreak(M) = {} THEN {} ELSE {start}
      BY <1>9 DEF Starts, TimesOf
    <2> HIDE DEF start, M
    <2>4. PICK p \in Ends({r}) \X Starts(Merged({r})) : d = p[1] - p[2]
      BY DEF Downtime
    <2> QED BY <2>2, <2>3, <2>4
  <1>14. i \in 1 .. Len(P)
    OBVIOUS
  <1> HIDE DEF P, M, polled, start
  <1>11. /\ start \in Nat /\ led \in Nat /\ start <= led
         /\ (\A s \in M : s.at < led => s.count = 0) => start = led
    <2>1. /\ led = Max(TimesOf(Led(ToSet(SubSeq(P, 1, i)))))
          /\ Led(ToSet(SubSeq(P, 1, i))) # {}
          /\ BeforeStreak(M) # {}
      BY <1>8, <1>10 DEF polled
    <2>2. start = Max(TimesOf(BeforeStreak(M)))
      BY DEF start
    <2>3. Covers(M, P, first, i)
      BY <1>5, <1>6 DEF Covers
    <2> QED BY <1>3, <1>4, <1>14, <2>1, <2>2, <2>3, DowntimeOfRecording
  <1>12. d >= r.confirmed - led
    BY <1>0, <1>10, <1>11
  <1>13. (\A s \in M : s.at < led => s.count = 0) => d = r.confirmed - led
    BY <1>10, <1>11
  <1> QED BY <1>12, <1>13 DEF M

\* The downtime that replay prints for a takeover is not shorter than the time
\* from the last sample with a leader to the confirmation, and longer only for
\* an earlier leaderless streak within the recording (ReplayData.Downtime).
THEOREM DowntimeIsNotUnderstated == Spec => []DowntimeNotUnderstated
  <1>1. TypeOK /\ TimesInv /\ SolidInv => DowntimeNotUnderstated
    <2> SUFFICES ASSUME TypeOK, TimesInv, SolidInv, NEW r \in OnDisk, r.result = "became_active",
                        NEW d \in Downtime({r}), NEW led \in LastLed(r)
                 PROVE  /\ d >= r.confirmed - led
                        /\ (\A s \in ToSet(r.samples) : s.at < led => s.count = 0)
                               => d = r.confirmed - led
      BY DEF DowntimeNotUnderstated
    <2>1. r \in Recordings
      BY DEF OnDisk, TypeOK, Files
    <2>2. Solid(polls, r) /\ r.confirmed > 0
      BY DEF SolidInv
    <2> QED BY <2>1, <2>2, SolidDowntime
  <1> QED
    BY <1>1, InitTypeOK, NextTypeOK, InitFrozen, NextFrozen, InitTimes, NextTimes, InitSolid,
       NextSolid, PTL DEF Spec
===========================================================================
