----------------------- MODULE HaManagerContestProofs ----------------------
(***************************************************************************)
(* That no two validators vote and no two managers take over at once, for  *)
(* every set of nodes, every ranking and every timing that leaves Room, as *)
(* long as nodes fail only by dropping out.  The first half proves that    *)
(* the contest stays on schedule, which leaves room for one winner; its    *)
(* lemmas speak of the contest through the mapping, of which they use      *)
(* nothing but the types.  The second half shows that every step of the    *)
(* managers and the cluster is a step of the contest, or a stutter.        *)
(***************************************************************************)
EXTENDS HaManagerContest, HaManagerProofs

---------------------------------------------------------------------------
(* The contest. *)

\* The constants the contest is held with.
LEMMA ContestConstants ==
    /\ PollInterval \in Nat /\ PollInterval > 0
    /\ ConfirmPoll \in Nat /\ 0 < ConfirmPoll /\ ConfirmPoll <= PollInterval
    /\ EvalLag \in Nat /\ NoticeLag \in Nat
    /\ Threshold \in Nat /\ Threshold > 0
    /\ NodeCount \in Nat /\ NodeCount > 0
<1>1. NodeCount \in Nat /\ NodeCount # 0
  BY NodesAssumption, FS_CardinalityType, FS_EmptySet DEF NodeCount
<1>2. Threshold \in Nat /\ Threshold > 0
  BY ThresholdAssumption, MaxCountAssumption
<1>3. NoticeLag \in Nat
  BY TimingAssumption DEF NoticeLag
<1> QED
  BY <1>1, <1>2, <1>3, TimingAssumption

\* Multiples of the poll interval are a poll interval apart.
LEMMA Multiples ==
    ASSUME NEW P \in Nat, NEW i \in Int, NEW j \in Int
    PROVE  /\ i * P \in Int
           /\ i < j => i * P + P <= j * P
           /\ (i - 1) * P = i * P - P
           /\ (i + 1) * P = i * P + P
<1>1. i * P \in Int /\ (i - 1) * P = i * P - P /\ (i + 1) * P = i * P + P
  OBVIOUS
<1>2. ASSUME i < j PROVE i * P + P <= j * P
  <2>1. PICK d \in Nat : j = i + 1 + d
    <3>1. j - i - 1 \in Nat /\ j = i + 1 + (j - i - 1)
      BY <1>2
    <3> QED
      BY <3>1
  <2>2. j * P = i * P + P + d * P
    BY <2>1
  <2>3. d * P \in Nat
    OBVIOUS
  <2> QED
    BY <1>1, <2>2, <2>3
<1> QED
  BY <1>1, <1>2

\* The turn of a node is now, or a poll interval or more later.
LEMMA TurnFacts ==
    ASSUME Contest!TypeOK, NEW n \in Nodes, NEW phase \in Nat, NEW turn \in Nat
    PROVE  /\ Contest!Turn(n, phase, turn) \in Int
           /\ RankIn[n] = turn => Contest!Turn(n, phase, turn) = phase
           /\ turn < RankIn[n] => phase + PollInterval <= Contest!Turn(n, phase, turn)
           /\ Contest!Turn(n, phase, turn + 1) = Contest!Turn(n, phase, turn) - PollInterval
<1> DEFINE i == RankIn[n] - turn
<1>1. i \in Int /\ RankIn[n] - (turn + 1) = i - 1
  BY DEF Contest!TypeOK
<1>2. /\ i * PollInterval \in Int
      /\ 0 < i => 0 * PollInterval + PollInterval <= i * PollInterval
      /\ (i - 1) * PollInterval = i * PollInterval - PollInterval
  BY <1>1, Multiples, ContestConstants
<1>3. /\ Contest!Turn(n, phase, turn) = phase + i * PollInterval
      /\ Contest!Turn(n, phase, turn + 1) = phase + (i - 1) * PollInterval
  BY <1>1 DEF Contest!Turn
<1>4. /\ RankIn[n] = turn => i * PollInterval = 0
      /\ turn < RankIn[n] => 0 < i
      /\ 0 * PollInterval = 0
  BY ContestConstants DEF Contest!TypeOK
<1> HIDE DEF i
<1> QED
  BY <1>2, <1>3, <1>4, ContestConstants

\* What a tick does to a node.
LEMMA TickSteps ==
    ASSUME Contest!TypeOK, Contest!Tick, NEW n \in Nodes
    PROVE  /\ Stage[n] \in {"out", "leader"} =>
                  /\ Stage'[n] = Stage[n] /\ Left'[n] = 0
                  /\ Count'[n] = Count[n] /\ RankIn'[n] = RankIn[n]
           /\ Stage[n] \in {"candidate", "hot", "pending"} =>
                  /\ Left[n] > 0 /\ Stage'[n] = Stage[n] /\ Left'[n] = Left[n] - 1
                  /\ Count'[n] = Count[n] /\ RankIn'[n] = RankIn[n]
           /\ Stage[n] \in {"calm", "asleep"} /\ Left[n] # 1 =>
                  /\ Stage'[n] = Stage[n] /\ Left'[n] = Left[n] - 1
                  /\ Count'[n] = Count[n] /\ RankIn'[n] = RankIn[n]
           /\ n \in Contest!Resampled =>
                  /\ Stage'[n] = "calm" /\ RankIn'[n] = RankIn[n]
                  /\ Left'[n] = Contest!Rearmed(Contest!Total(n), clock')
                  /\ Count'[n] = Contest!Total(n)
           /\ n \in Contest!Nominated =>
                  /\ Stage'[n] = "candidate" /\ Left'[n] = EvalLag /\ Count'[n] = 0
                  /\ RankIn'[n] \in 0 .. NodeCount - 1
           /\ n \in Contest!Waking =>
                  /\ Stage'[n] = IF Dark THEN "hot" ELSE "calm"
                  /\ Left'[n] = IF Dark THEN EvalLag ELSE PollInterval - clock'
                  /\ Count'[n] = 0 /\ RankIn'[n] = 0
<1>1. PICK r \in [Contest!Nominated -> 0 .. NodeCount - 1] :
          RankIn' = [m \in Nodes |->
                CASE m \in Contest!Nominated -> r[m]
                  [] m \in Contest!Waking    -> 0
                  [] OTHER                   -> RankIn[m]]
  BY DEF Contest!Tick
<1>2. /\ n \in Contest!Polling <=> Stage[n] = "calm" /\ Left[n] = 1
      /\ n \in Contest!Waking <=> Stage[n] = "asleep" /\ Left[n] = 1
  BY DEF Contest!Polling, Contest!Waking, Contest!At
<1>3. /\ n \in Contest!Nominated => n \in Contest!Polling
      /\ n \in Contest!Resampled <=> n \in Contest!Polling /\ n \notin Contest!Nominated
  BY DEF Contest!Nominated, Contest!Resampled
<1>4. RankIn'[n] = CASE n \in Contest!Nominated -> r[n]
                     [] n \in Contest!Waking    -> 0
                     [] OTHER                   -> RankIn[n]
  BY <1>1
<1>5. Stage'[n] = CASE n \in Contest!Nominated       -> "candidate"
                    [] n \in Contest!Waking /\ Dark  -> "hot"
                    [] n \in Contest!Waking /\ ~Dark -> "calm"
                    [] OTHER                         -> Stage[n]
  BY DEF Contest!Tick
<1>6. Left'[n] = CASE n \in Contest!Nominated           -> EvalLag
                   [] n \in Contest!Waking /\ Dark      -> EvalLag
                   [] n \in Contest!Waking /\ ~Dark     -> PollInterval - clock'
                   [] n \in Contest!Resampled           ->
                          Contest!Rearmed(Contest!Total(n), clock')
                   [] Stage[n] \in {"out", "leader"}    -> 0
                   [] OTHER                             -> Left[n] - 1
  BY DEF Contest!Tick
<1>7. Count'[n] = CASE n \in Contest!Resampled                     -> Contest!Total(n)
                    [] n \in Contest!Nominated \cup Contest!Waking -> 0
                    [] OTHER                                       -> Count[n]
  BY DEF Contest!Tick
<1>8. Stage[n] \in {"candidate", "hot", "pending"} => Left[n] > 0
  BY DEF Contest!Tick, Contest!At, Contest!Busy
<1>9. CASE n \in Contest!Nominated
  BY <1>2, <1>3, <1>4, <1>5, <1>6, <1>7, <1>9
<1>10. CASE n \in Contest!Waking
  <2>1. n \notin Contest!Nominated /\ n \notin Contest!Resampled
    BY <1>2, <1>3, <1>10
  <2> QED
    BY <1>2, <1>4, <1>5, <1>6, <1>7, <1>10, <2>1
<1>11. CASE n \in Contest!Resampled
  BY <1>2, <1>3, <1>4, <1>5, <1>6, <1>7, <1>11
<1>12. CASE n \notin Contest!Polling /\ n \notin Contest!Waking
  <2>1. n \notin Contest!Nominated /\ n \notin Contest!Resampled
    BY <1>3, <1>12
  <2> QED
    BY <1>2, <1>4, <1>5, <1>6, <1>7, <1>8, <1>12, <2>1
<1> QED
  BY <1>2, <1>3, <1>9, <1>10, <1>11, <1>12

\* The clock goes round the poll interval.
LEMMA TickClock ==
    ASSUME Contest!TypeOK, Contest!Tick
    PROVE  /\ clock' \in 0 .. PollInterval - 1
           /\ \/ clock + 1 < PollInterval /\ clock' = clock + 1
              \/ clock + 1 = PollInterval /\ clock' = 0
<1>1. clock' = (clock + 1) % PollInterval /\ clock \in 0 .. PollInterval - 1
  BY DEF Contest!Tick, Contest!TypeOK
<1>2. CASE clock + 1 < PollInterval
  BY <1>1, <1>2, ContestConstants
<1>3. CASE clock + 1 = PollInterval
  BY <1>1, <1>3, ContestConstants
<1> QED
  BY <1>1, <1>2, <1>3, ContestConstants

\* A sample that does not nominate: it counts at boundaries only, and puts the
\* next one there or at the confirmation poll.
LEMMA Resampling ==
    ASSUME Contest!Room, Contest!TypeOK, Contest!CalmOnTime, Contest!Tick,
           NEW n \in Contest!Resampled
    PROVE  /\ n \in Nodes /\ Stage[n] = "calm" /\ Left[n] = 1 /\ Stage'[n] = "calm"
           /\ Dark => /\ clock + 1 = PollInterval /\ clock' = 0
                      /\ Count[n] < Threshold - 1 /\ Count'[n] = Count[n] + 1
                      /\ Left'[n] = IF Count'[n] = Threshold - 1 THEN ConfirmPoll
                                    ELSE PollInterval
           /\ ~Dark => Count'[n] = 0 /\ Left'[n] = PollInterval - clock'
<1>1. n \in Nodes /\ Stage[n] = "calm" /\ Left[n] = 1 /\ n \in Contest!Polling
  BY DEF Contest!Resampled, Contest!Polling, Contest!At
<1>2. Contest!Total(n) < Threshold
  <2>1. ~(Contest!Total(n) >= Threshold)
    BY <1>1 DEF Contest!Resampled, Contest!Nominated
  <2>2. Contest!Total(n) \in Nat
    BY <1>1, ContestConstants DEF Contest!Total, Contest!TypeOK
  <2> QED
    BY <2>1, <2>2, ContestConstants
<1>3. /\ Stage'[n] = "calm" /\ Count'[n] = Contest!Total(n)
      /\ Left'[n] = Contest!Rearmed(Contest!Total(n), clock')
  BY <1>1, TickSteps
<1>4. ASSUME Dark
      PROVE  /\ clock + 1 = PollInterval /\ clock' = 0
             /\ Count[n] < Threshold - 1 /\ Count'[n] = Count[n] + 1
             /\ Left'[n] = IF Count'[n] = Threshold - 1 THEN ConfirmPoll ELSE PollInterval
  <2>1. Contest!Total(n) = Count[n] + 1 /\ Count[n] \in Nat /\ Count[n] < Threshold - 1
    BY <1>1, <1>2, <1>4, ContestConstants DEF Contest!Total, Contest!TypeOK
  <2>2. clock + 1 \in {PollInterval, 2 * PollInterval}
    BY <1>1, <2>1, ContestConstants DEF Contest!CalmOnTime, Contest!Until, Contest!At
  <2>3. clock + 1 = PollInterval /\ clock' = 0
    BY <2>2, TickClock, ContestConstants DEF Contest!TypeOK
  <2> QED
    BY <1>3, <2>1, <2>3, ContestConstants DEF Contest!Rearmed
<1>5. ASSUME ~Dark PROVE Count'[n] = 0 /\ Left'[n] = PollInterval - clock'
  BY <1>3, <1>5, ContestConstants DEF Contest!Total, Contest!Rearmed, Contest!Room
<1> QED
  BY <1>1, <1>3, <1>4, <1>5

\* A node that gives up after its delay starts over at the next boundary.
LEMMA FreshNomination ==
    ASSUME Contest!Room, NEW n \in Nodes, Count'[n] = 0, Left'[n] = PollInterval - clock',
           clock' \in Nat
    PROVE  Contest!Nomination(n)' = PollInterval + (Threshold - 2) * PollInterval + ConfirmPoll
<1>1. Contest!Until(n)' = PollInterval
  BY ContestConstants DEF Contest!Until
<1>2. Count'[n] # Threshold - 1 /\ Threshold - 2 - Count'[n] = Threshold - 2
  BY ContestConstants DEF Contest!Room
<1> QED
  BY <1>1, <1>2 DEF Contest!Nomination

\* No sample brings the nomination of a calm node forward.
LEMMA NominationKept ==
    ASSUME Contest!Room, Contest!TypeOK, Contest!CalmOnTime, Contest!Tick,
           NEW n \in Nodes, Stage[n] = "calm", n \notin Contest!Nominated
    PROVE  /\ Contest!Nomination(n) \in Int /\ Contest!Nomination(n)' \in Int
           /\ Contest!Nomination(n) - (clock + 1 - clock') <= Contest!Nomination(n)'
<1> DEFINE ahead == Threshold - 2 - Count[n]
           later == Threshold - 2 - Count'[n]
           P == PollInterval
<1>1. /\ Count[n] \in 0 .. Threshold - 1 /\ Left[n] \in Nat /\ Left[n] > 0
      /\ clock \in 0 .. P - 1
  BY DEF Contest!TypeOK, Contest!CalmOnTime, Contest!At
<1>2. ahead \in Int /\ ahead * P \in Int
  BY <1>1, Multiples, ContestConstants
<1>3. Contest!Nomination(n) = IF Count[n] = Threshold - 1 THEN clock + Left[n]
                              ELSE clock + Left[n] + ahead * P + ConfirmPoll
  BY DEF Contest!Nomination, Contest!Until
<1>4. Contest!Nomination(n)' = IF Count'[n] = Threshold - 1 THEN clock' + Left'[n]
                               ELSE clock' + Left'[n] + later * P + ConfirmPoll
  BY DEF Contest!Nomination, Contest!Until
<1>5. Contest!Nomination(n) \in Int
  BY <1>1, <1>2, <1>3, ContestConstants
<1>6. CASE Left[n] # 1
  <2>1. Count'[n] = Count[n] /\ Left'[n] = Left[n] - 1
    BY <1>6, TickSteps
  <2>2. later * P = ahead * P
    BY <2>1
  <2> HIDE DEF ahead, later
  <2> QED
    BY <1>1, <1>2, <1>3, <1>4, <1>5, <2>1, <2>2, TickClock, ContestConstants
<1>7. CASE Left[n] = 1
  <2>1. n \in Contest!Resampled
    BY <1>7 DEF Contest!Resampled, Contest!Polling, Contest!At
  <2>2. CASE Dark
    <3>1. /\ clock + 1 = P /\ clock' = 0
          /\ Count[n] < Threshold - 1 /\ Count'[n] = Count[n] + 1
          /\ Left'[n] = IF Count'[n] = Threshold - 1 THEN ConfirmPoll ELSE P
      BY <2>1, <2>2, Resampling
    <3>2. later = ahead - 1 /\ later * P = ahead * P - P
      BY <1>1, <1>2, <3>1, Multiples, ContestConstants
    <3>3. Count'[n] = Threshold - 1 => ahead * P = 0
      BY <1>1, <3>1, ContestConstants
    <3> HIDE DEF ahead, later
    <3> QED
      BY <1>1, <1>2, <1>3, <1>4, <1>5, <1>7, <3>1, <3>2, <3>3, ContestConstants
  <2>3. CASE ~Dark
    <3>1. Count'[n] = 0 /\ Left'[n] = P - clock'
      BY <2>1, <2>3, Resampling
    <3>2. /\ Contest!Nomination(n)' = P + (Threshold - 2) * P + ConfirmPoll
          /\ clock' \in 0 .. P - 1
      BY <3>1, FreshNomination, TickClock, ContestConstants
    <3>3. /\ (Threshold - 2) * P \in Int
          /\ Count[n] # Threshold - 1 => ahead * P <= (Threshold - 2) * P
          /\ 0 <= (Threshold - 2) * P
      <4>1. /\ ahead < Threshold - 2 => ahead * P + P <= (Threshold - 2) * P
            /\ 0 < Threshold - 2 => 0 * P + P <= (Threshold - 2) * P
            /\ (Threshold - 2) * P \in Int
        BY <1>1, <1>2, Multiples, ContestConstants
      <4>2. ahead = Threshold - 2 => ahead * P = (Threshold - 2) * P
        OBVIOUS
      <4>3. Threshold - 2 = 0 => (Threshold - 2) * P = 0
        BY ContestConstants
      <4>4. 0 * P = 0 /\ 0 <= Threshold - 2
        BY ContestConstants DEF Contest!Room
      <4>5. ahead < Threshold - 2 \/ ahead = Threshold - 2
        BY <1>1, ContestConstants
      <4> HIDE DEF ahead
      <4> QED
        BY <1>2, <4>1, <4>2, <4>3, <4>4, <4>5, ContestConstants
    <3>4. clock + 1 <= P /\ 0 <= clock + 1 - clock'
      BY <1>1, TickClock, ContestConstants
    <3>5. Contest!Nomination(n) <= P + (Threshold - 2) * P + ConfirmPoll
      <4>1. CASE Count[n] = Threshold - 1
        BY <1>1, <1>3, <1>7, <3>3, <3>4, <4>1, ContestConstants
      <4>2. CASE Count[n] # Threshold - 1
        <5> HIDE DEF ahead
        <5> QED
          BY <1>1, <1>2, <1>3, <1>7, <3>3, <3>4, <4>2, ContestConstants
      <4> QED
        BY <4>1, <4>2
    <3> DEFINE full == (Threshold - 2) * P
    <3>6. /\ full \in Int /\ Contest!Nomination(n) <= P + full + ConfirmPoll
          /\ Contest!Nomination(n)' = P + full + ConfirmPoll
      BY <3>2, <3>3, <3>5
    <3> HIDE DEF full
    <3>7. Contest!Nomination(n)' \in Int
      BY <3>6, ContestConstants
    <3>8. Contest!Nomination(n) <= Contest!Nomination(n)'
      BY <3>6
    <3> DEFINE old == Contest!Nomination(n)
               new == Contest!Nomination(n)'
               passed == clock + 1 - clock'
    <3>9. old \in Int /\ new \in Int /\ old <= new
      BY <1>5, <3>7, <3>8
    <3>11. passed \in Int
      BY <1>1, <3>2, ContestConstants
    <3>12. 0 <= passed
      BY <3>4
    <3> HIDE DEF old, new, passed
    <3>10. old - passed <= new
      BY <3>9, <3>11, <3>12
    <3> QED
      BY <1>5, <3>7, <3>10 DEF old, new, passed
  <2> QED
    BY <2>2, <2>3
<1> QED
  BY <1>6, <1>7

\* Ticks keep the types.
LEMMA TickContestType ==
    ASSUME Contest!TypeOK, Contest!Tick,
           \A n \in Nodes : Stage[n] \in {"calm", "asleep"} => Left[n] > 0
    PROVE  Contest!TypeOK'
<1> SUFFICES ASSUME NEW n \in Nodes
             PROVE  /\ Stage'[n] \in Contest!Stages /\ Left'[n] \in Nat
                    /\ Count'[n] \in 0 .. Threshold - 1 /\ RankIn'[n] \in Nat
  <2>1. DOMAIN Stage' = Nodes /\ DOMAIN Left' = Nodes /\ DOMAIN Count' = Nodes
        /\ DOMAIN RankIn' = Nodes
    BY DEF Stage, Left, Count, RankIn
  <2>2. /\ Stage' = [n \in Nodes |-> Stage'[n]] /\ Left' = [n \in Nodes |-> Left'[n]]
        /\ Count' = [n \in Nodes |-> Count'[n]] /\ RankIn' = [n \in Nodes |-> RankIn'[n]]
    BY DEF Stage, Left, Count, RankIn
  <2>3. Dark' \in BOOLEAN
    BY DEF Contest!Tick, Contest!TypeOK
  <2> QED
    BY <2>2, <2>3, TickClock DEF Contest!TypeOK
<1>1. /\ Stage[n] \in Contest!Stages /\ Left[n] \in Nat /\ Count[n] \in 0 .. Threshold - 1
      /\ RankIn[n] \in Nat /\ clock' \in 0 .. PollInterval - 1
  BY TickClock DEF Contest!TypeOK
<1>2. /\ n \in Contest!Polling <=> Stage[n] = "calm" /\ Left[n] = 1
      /\ n \in Contest!Waking <=> Stage[n] = "asleep" /\ Left[n] = 1
      /\ n \in Contest!Polling <=> n \in Contest!Nominated \/ n \in Contest!Resampled
  BY DEF Contest!Polling, Contest!Waking, Contest!At, Contest!Nominated, Contest!Resampled
<1>3. CASE n \in Contest!Nominated
  BY <1>1, <1>3, TickSteps, ContestConstants DEF Contest!Stages
<1>4. CASE n \in Contest!Waking
  BY <1>1, <1>4, TickSteps, ContestConstants DEF Contest!Stages
<1>5. CASE n \in Contest!Resampled
  <2>1. Contest!Total(n) \in 0 .. Threshold - 1
    <3>1. ~(Contest!Total(n) >= Threshold)
      BY <1>2, <1>5 DEF Contest!Resampled, Contest!Nominated
    <3>2. Contest!Total(n) \in Nat
      BY <1>1, ContestConstants DEF Contest!Total
    <3> QED
      BY <3>1, <3>2, ContestConstants
  <2>2. PollInterval - clock' \in Nat
    BY TickClock, ContestConstants
  <2>3. Contest!Rearmed(Contest!Total(n), clock') \in Nat
    BY <2>2, ContestConstants DEF Contest!Rearmed
  <2> QED
    BY <1>1, <1>5, <2>1, <2>3, TickSteps DEF Contest!Stages
<1>6. CASE n \notin Contest!Nominated /\ n \notin Contest!Waking /\ n \notin Contest!Resampled
  <2>1. Stage[n] \in {"calm", "asleep"} => Left[n] # 1 /\ Left[n] > 0
    BY <1>2, <1>6
  <2> QED
    BY <1>1, <2>1, TickSteps DEF Contest!Stages
<1> QED
  BY <1>3, <1>4, <1>5, <1>6

\* When a node is nominated the round before it is over: all contenders are
\* calm, are nominated with it, and there is no leader.
LEMMA NominationClears ==
    ASSUME Contest!Room, Contest!TypeOK, Contest!InStep, Contest!Tick,
           NEW phase \in Nat, NEW turn \in Nat, Contest!Scheduled(phase, turn),
           NEW n \in Contest!Nominated
    PROVE  /\ \A m \in Nodes : Stage[m] = "out" \/ m \in Contest!Nominated
           /\ clock' \in {0, ConfirmPoll} /\ Contest!TurnsFit(clock')
<1>1. /\ n \in Nodes /\ Stage[n] = "calm" /\ Left[n] = 1 /\ Contest!Total(n) >= Threshold
  BY DEF Contest!Nominated, Contest!Polling, Contest!At
<1>2. Dark /\ Count[n] = Threshold - 1
  BY <1>1, ContestConstants DEF Contest!Total, Contest!TypeOK
<1>3. Contest!Nomination(n) = clock + 1
  BY <1>1, <1>2 DEF Contest!Nomination, Contest!Until
<1>4. Contest!CalmLater(phase, turn)
  BY DEF Contest!Scheduled
<1>5. ASSUME NEW m \in Nodes PROVE Stage[m] = "out" \/ m \in Contest!Nominated
  <2>1. CASE Stage[m] = "candidate"
    BY <1>1, <1>4, <1>5, <2>1 DEF Contest!CalmLater, Contest!At
  <2>2. CASE Stage[m] = "asleep"
    <3>1. Contest!Turn(m, phase, turn) + 2 * EvalLag + NoticeLag < clock + 1
      BY <1>1, <1>3, <1>4, <1>5, <2>2 DEF Contest!CalmLater, Contest!At, Contest!Ranked
    <3>2. clock + Left[m] <= Contest!Turn(m, phase, turn) + EvalLag /\ Left[m] > 0
      BY <1>5, <2>2 DEF Contest!Scheduled, Contest!AsleepOnTime, Contest!At, Contest!Until
    <3>3. Contest!Turn(m, phase, turn) \in Int
      BY <1>5, TurnFacts
    <3>4. clock \in Nat /\ Left[m] \in Nat
      BY <1>5, ContestConstants DEF Contest!TypeOK
    <3> QED
      BY <3>1, <3>2, <3>3, <3>4, ContestConstants
  <2>3. CASE Stage[m] \in {"hot", "pending"}
    <3>1. phase + 2 * EvalLag + NoticeLag < clock + 1
      BY <1>1, <1>3, <1>4, <1>5, <2>3 DEF Contest!CalmLater, Contest!At, Contest!Busy
    <3>2. clock + Left[m] <= phase + 2 * EvalLag + NoticeLag
      BY <1>5, <2>3, ContestConstants
      DEF Contest!Scheduled, Contest!BusyOnTime, Contest!At, Contest!Until, Contest!TypeOK
    <3>3. Left[m] > 0
      BY <1>5, <2>3, TickSteps
    <3>4. clock \in Nat /\ Left[m] \in Nat
      BY <1>5, ContestConstants DEF Contest!TypeOK
    <3> QED
      BY <3>1, <3>2, <3>3, <3>4, ContestConstants
  <2>4. CASE Stage[m] = "leader"
    BY <1>2, <1>5, <2>4 DEF Contest!InStep, Contest!LeaderAlone, Contest!At
  <2>5. CASE Stage[m] = "calm"
    <3>1. Count[m] = Count[n] /\ Left[m] = Left[n]
      BY <1>1, <1>5, <2>5 DEF Contest!InStep, Contest!CalmAgree, Contest!At
    <3> QED
      BY <1>1, <1>5, <2>5, <3>1 DEF Contest!Nominated, Contest!Polling, Contest!At, Contest!Total
  <2> QED
    BY <1>5, <2>1, <2>2, <2>3, <2>4, <2>5 DEF Contest!TypeOK, Contest!Stages
<1>6. clock + 1 \in {PollInterval, 2 * PollInterval} \/ clock + 1 = ConfirmPoll
  BY <1>1 DEF Contest!InStep, Contest!CalmOnTime, Contest!At, Contest!Until
<1>7. \/ clock' = 0
      \/ clock' = ConfirmPoll /\ ConfirmPoll < PollInterval
  BY <1>6, TickClock, ContestConstants DEF Contest!TypeOK
<1>8. Contest!TurnsFit(clock')
  BY <1>7, ContestConstants DEF Contest!TurnsFit, Contest!Room
<1> QED
  BY <1>5, <1>7, <1>8

\* The nomination begins a round at this instant, with the first rank's turn.
LEMMA TickNominates ==
    ASSUME Contest!Room, Contest!TypeOK, Contest!InStep, Contest!Tick,
           NEW phase \in Nat, NEW turn \in Nat, Contest!Scheduled(phase, turn),
           Contest!Nominated # {}, NEW start, start = clock'
    PROVE  /\ Contest!InStep'
           /\ start \in {0, ConfirmPoll} /\ Contest!Scheduled(start, 0)'
<1>1. /\ \A m \in Nodes : Stage[m] = "out" \/ m \in Contest!Nominated
      /\ start \in {0, ConfirmPoll} /\ Contest!TurnsFit(start)
  BY NominationClears
<1>2. \A m \in Nodes : \/ Stage'[m] = "out"
                       \/ /\ m \in Contest!Nominated /\ Stage'[m] = "candidate"
                          /\ Left'[m] = EvalLag /\ RankIn'[m] \in 0 .. NodeCount - 1
  BY <1>1, TickSteps
<1>3. PICK r \in [Contest!Nominated -> 0 .. NodeCount - 1] :
          /\ \A n, m \in Contest!Nominated : r[n] = r[m] => n = m
          /\ RankIn' = [m \in Nodes |->
                CASE m \in Contest!Nominated -> r[m]
                  [] m \in Contest!Waking    -> 0
                  [] OTHER                   -> RankIn[m]]
  BY DEF Contest!Tick
<1>4. \A m \in Contest!Nominated : m \in Nodes /\ RankIn'[m] = r[m]
  <2>1. \A m \in Contest!Nominated : m \in Nodes
    BY DEF Contest!Nominated, Contest!Polling, Contest!At
  <2>2. ASSUME NEW m \in Contest!Nominated PROVE RankIn'[m] = r[m]
    <3>1. m \in Nodes
      BY <2>1, <2>2
    <3>2. RankIn'[m] = CASE m \in Contest!Nominated -> r[m]
                         [] m \in Contest!Waking    -> 0
                         [] OTHER                   -> RankIn[m]
      BY <1>3, <3>1
    <3>3. m \notin Contest!Waking
      BY DEF Contest!Nominated, Contest!Polling, Contest!Waking, Contest!At
    <3> QED
      BY <3>2, <3>3, <2>2
  <2> QED
    BY <2>1, <2>2
<1>5. /\ Contest!At("calm")' = {} /\ Contest!At("asleep")' = {} /\ Contest!At("hot")' = {}
      /\ Contest!At("pending")' = {} /\ Contest!At("leader")' = {}
      /\ \A m \in Contest!At("candidate")' :
             m \in Nodes /\ m \in Contest!Nominated /\ Left'[m] = EvalLag
  BY <1>2 DEF Contest!At
<1>6. Contest!RanksApart'
  <2>1. \A m \in Contest!Ranked' :
            m \in Contest!Nominated /\ RankIn'[m] = r[m] /\ r[m] \in 0 .. NodeCount - 1
    BY <1>4, <1>5 DEF Contest!Ranked
  <2> QED
    BY <1>3, <2>1, ContestConstants DEF Contest!RanksApart
<1>7. Contest!InStep'
  BY <1>5, <1>6 DEF Contest!InStep, Contest!CalmOnTime, Contest!CalmAgree, Contest!LeaderAlone,
     Contest!CalmNotSurprised
<1>8. Contest!CandidateOnTime(start, 0)'
  <2>1. start \in Nat
    BY TickClock, ContestConstants
  <2> QED
    BY <1>5, <2>1 DEF Contest!CandidateOnTime, Contest!Until
<1>9. Contest!Busy' = {}
  BY <1>5 DEF Contest!Busy
<1>10. Contest!Scheduled(start, 0)'
  BY <1>1, <1>5, <1>8, <1>9 DEF Contest!Scheduled, Contest!TurnsFit, Contest!AsleepOnTime,
     Contest!BusyOnTime, Contest!BusyAlone, Contest!CalmLater
<1> QED
  BY <1>1, <1>7, <1>10

\* Boundaries pass turns on: a busy node or a candidate does not live to see
\* one, and a sleeper whose turn has come neither.
LEMMA TurnPasses ==
    ASSUME Contest!Room, Contest!TypeOK, Contest!InStep, Contest!Tick,
           NEW phase \in Nat, NEW turn \in 0 .. NodeCount - 1,
           Contest!Scheduled(phase, turn)
    PROVE  \E next \in 0 .. NodeCount - 1 :
              /\ clock' = 0 \/ (next = turn /\ clock' = clock + 1)
              /\ clock' = 0 => /\ \A m \in Nodes : Stage[m] \notin {"candidate", "hot", "pending"}
                               /\ clock + 1 = PollInterval
              /\ \A m \in Nodes : Stage[m] = "asleep" =>
                     /\ next <= RankIn[m]
                     /\ Contest!Turn(m, phase, next) =
                            Contest!Turn(m, phase, turn) - (clock + 1 - clock')
<1>1. /\ clock \in 0 .. PollInterval - 1 /\ \A m \in Nodes : Left[m] \in Nat /\ RankIn[m] \in Nat
      /\ phase + 2 * EvalLag + NoticeLag < PollInterval
  BY DEF Contest!TypeOK, Contest!Scheduled, Contest!TurnsFit
<1>2. \A m \in Nodes : Stage[m] = "asleep" =>
          /\ Left[m] > 0 /\ turn <= RankIn[m] /\ RankIn[m] < NodeCount
          /\ clock + Left[m] <= Contest!Turn(m, phase, turn) + EvalLag
  BY DEF Contest!Scheduled, Contest!AsleepOnTime, Contest!InStep, Contest!RanksApart,
     Contest!Ranked, Contest!At, Contest!Until
<1>3. CASE clock + 1 < PollInterval /\ clock' = clock + 1
  <2>1. clock' # 0 /\ clock + 1 - clock' = 0
    BY <1>1, <1>3, ContestConstants
  <2>2. \A m \in Nodes :
            Contest!Turn(m, phase, turn) = Contest!Turn(m, phase, turn) - (clock + 1 - clock')
    BY <2>1, TurnFacts
  <2> QED
    BY <1>2, <1>3, <2>1, <2>2
<1>4. CASE clock + 1 = PollInterval /\ clock' = 0
  <2>1. ASSUME NEW m \in Nodes PROVE Stage[m] \notin {"candidate", "hot", "pending"}
    <3>1. Stage[m] = "candidate" => clock + Left[m] = phase + EvalLag
      BY <2>1 DEF Contest!Scheduled, Contest!CandidateOnTime, Contest!At, Contest!Until
    <3>2. Stage[m] = "hot" => clock + Left[m] <= phase + 2 * EvalLag
      BY <2>1 DEF Contest!Scheduled, Contest!BusyOnTime, Contest!At, Contest!Until
    <3>3. Stage[m] = "pending" => clock + Left[m] <= phase + 2 * EvalLag + NoticeLag
      BY <2>1 DEF Contest!Scheduled, Contest!BusyOnTime, Contest!At, Contest!Until
    <3>4. Stage[m] \in {"candidate", "hot", "pending"} => Left[m] > 0
      BY <2>1, TickSteps
    <3> QED
      BY <1>1, <1>4, <3>1, <3>2, <3>3, <3>4, ContestConstants
  <2>2. CASE \A m \in Nodes : Stage[m] # "asleep"
    <3>1. 0 \in 0 .. NodeCount - 1
      BY ContestConstants
    <3> QED
      BY <1>4, <2>1, <2>2, <3>1
  <2>3. CASE \E m \in Nodes : Stage[m] = "asleep"
    <3>1. ASSUME NEW m \in Nodes, Stage[m] = "asleep"
          PROVE  /\ turn + 1 <= RankIn[m] /\ turn + 1 \in 0 .. NodeCount - 1
                 /\ Contest!Turn(m, phase, turn + 1) =
                        Contest!Turn(m, phase, turn) - (clock + 1 - clock')
      <4>1. RankIn[m] # turn
        <5>1. RankIn[m] = turn => Contest!Turn(m, phase, turn) = phase
          BY <3>1, TurnFacts
        <5> QED
          BY <1>1, <1>2, <1>4, <3>1, <5>1, ContestConstants
      <4>2. turn + 1 <= RankIn[m] /\ turn + 1 \in 0 .. NodeCount - 1
        BY <1>1, <1>2, <3>1, <4>1, ContestConstants
      <4>3. Contest!Turn(m, phase, turn + 1) = Contest!Turn(m, phase, turn) - PollInterval
        BY <3>1, TurnFacts
      <4> QED
        BY <1>4, <4>2, <4>3, ContestConstants
    <3>2. turn + 1 \in 0 .. NodeCount - 1
      BY <2>3, <3>1
    <3> QED
      BY <1>4, <2>1, <3>1, <3>2
  <2> QED
    BY <2>2, <2>3
<1> QED
  BY <1>3, <1>4, TickClock

\* What a tick that nominates nobody makes of each part.
LEMMA TickWithoutNomination ==
    ASSUME Contest!TypeOK, Contest!InStep, Contest!Tick, Contest!Nominated = {},
           NEW n \in Nodes
    PROVE  /\ Stage'[n] = "asleep" =>
                  /\ Stage[n] = "asleep" /\ Left[n] # 1 /\ Left'[n] = Left[n] - 1
                  /\ RankIn'[n] = RankIn[n]
           /\ Stage'[n] = "candidate" =>
                  /\ Stage[n] = "candidate" /\ Left'[n] = Left[n] - 1
                  /\ RankIn'[n] = RankIn[n]
           /\ Stage'[n] = "hot" =>
                  \/ Stage[n] = "hot" /\ Left'[n] = Left[n] - 1
                  \/ n \in Contest!Waking /\ Dark /\ Left'[n] = EvalLag
           /\ Stage'[n] = "pending" => Stage[n] = "pending" /\ Left'[n] = Left[n] - 1
           /\ Stage'[n] = "leader" <=> Stage[n] = "leader"
           /\ Stage'[n] = "calm" =>
                  \/ /\ Stage[n] = "calm" /\ Left[n] # 1
                     /\ Left'[n] = Left[n] - 1 /\ Count'[n] = Count[n]
                  \/ n \in Contest!Resampled
                  \/ /\ n \in Contest!Waking /\ ~Dark
                     /\ Left'[n] = PollInterval - clock' /\ Count'[n] = 0
<1>1. /\ n \in Contest!Polling <=> Stage[n] = "calm" /\ Left[n] = 1
      /\ n \in Contest!Waking <=> Stage[n] = "asleep" /\ Left[n] = 1
      /\ n \in Contest!Polling <=> n \in Contest!Resampled
  BY DEF Contest!Polling, Contest!Waking, Contest!At, Contest!Resampled
<1>2. CASE n \in Contest!Resampled
  BY <1>1, <1>2, TickSteps
<1>3. CASE n \in Contest!Waking
  BY <1>1, <1>3, TickSteps
<1>4. CASE n \notin Contest!Resampled /\ n \notin Contest!Waking
  BY <1>1, <1>4, TickSteps DEF Contest!TypeOK, Contest!Stages
<1> QED
  BY <1>2, <1>3, <1>4

\* The parts of the schedule, read for one node or two.
LEMMA ScheduleReads ==
    ASSUME Contest!TypeOK, Contest!InStep, NEW phase \in Nat, NEW turn \in Nat,
           Contest!Scheduled(phase, turn), NEW n \in Nodes, NEW m \in Nodes
    PROVE  /\ Stage[n] = "calm" =>
                  /\ Left[n] > 0
                  /\ \/ clock + Left[n] \in {PollInterval, 2 * PollInterval}
                     \/ clock + Left[n] = ConfirmPoll /\ Count[n] = Threshold - 1
           /\ Stage[n] = "calm" /\ Stage[m] = "calm" =>
                  Count[n] = Count[m] /\ Left[n] = Left[m]
           /\ Stage[n] \in {"candidate", "asleep"} => RankIn[n] < NodeCount
           /\ Stage[n] \in {"candidate", "asleep"} /\ Stage[m] \in {"candidate", "asleep"} =>
                  (RankIn[n] = RankIn[m] => n = m)
           /\ Stage[n] = "leader" =>
                  /\ ~Dark /\ (Stage[m] = "leader" => n = m)
                  /\ Stage[m] = "candidate" => RankIn[m] > 0
           /\ Stage[n] = "calm" /\ Stage[m] = "asleep" /\ Count[n] > 0 /\ Left[m] < Left[n] =>
                  Dark /\ \A k \in Nodes : Stage[k] \notin {"hot", "pending"}
           /\ Stage[n] = "candidate" =>
                  turn = 0 /\ phase <= clock /\ clock + Left[n] = phase + EvalLag
           /\ Stage[n] = "asleep" =>
                  /\ Left[n] > 0 /\ 0 < RankIn[n] /\ turn <= RankIn[n]
                  /\ Contest!Turn(n, phase, turn) <= clock + Left[n]
                  /\ clock + Left[n] <= Contest!Turn(n, phase, turn) + EvalLag
           /\ Stage[n] = "hot" => clock + Left[n] <= phase + 2 * EvalLag
           /\ Stage[n] = "pending" => clock + Left[n] <= phase + 2 * EvalLag + NoticeLag
           /\ Stage[n] \in {"hot", "pending"} =>
                  /\ phase <= clock
                  /\ Stage[m] \in {"hot", "pending"} => n = m
                  /\ Stage[m] # "leader"
                  /\ Stage[m] \in {"candidate", "asleep"} => RankIn[m] # turn
           /\ Stage[n] = "calm" =>
                  /\ Stage[m] # "candidate"
                  /\ clock + Left[n] > PollInterval =>
                         Stage[m] \notin {"candidate", "asleep", "hot", "pending"}
                  /\ Stage[m] = "asleep" =>
                         Contest!Turn(m, phase, turn) + 2 * EvalLag + NoticeLag
                             < Contest!Nomination(n)
                  /\ Stage[m] \in {"hot", "pending"} =>
                         phase + 2 * EvalLag + NoticeLag < Contest!Nomination(n)
<1>1. ASSUME Stage[n] = "calm"
      PROVE  /\ Left[n] > 0
             /\ \/ clock + Left[n] \in {PollInterval, 2 * PollInterval}
                \/ clock + Left[n] = ConfirmPoll /\ Count[n] = Threshold - 1
             /\ Stage[m] = "calm" => Count[n] = Count[m] /\ Left[n] = Left[m]
  BY <1>1 DEF Contest!InStep, Contest!CalmOnTime, Contest!CalmAgree, Contest!At, Contest!Until
<1>2. ASSUME Stage[n] \in {"candidate", "asleep"}
      PROVE  /\ RankIn[n] < NodeCount
             /\ Stage[m] \in {"candidate", "asleep"} => (RankIn[n] = RankIn[m] => n = m)
  BY <1>2 DEF Contest!InStep, Contest!RanksApart, Contest!Ranked, Contest!At
<1>3. ASSUME Stage[n] = "leader"
      PROVE  /\ ~Dark /\ (Stage[m] = "leader" => n = m)
             /\ Stage[m] = "candidate" => RankIn[m] > 0
  BY <1>3 DEF Contest!InStep, Contest!LeaderAlone, Contest!At
<1>4. ASSUME Stage[n] = "calm", Stage[m] = "asleep", Count[n] > 0, Left[m] < Left[n]
      PROVE  Dark /\ \A k \in Nodes : Stage[k] \notin {"hot", "pending"}
  BY <1>4 DEF Contest!InStep, Contest!CalmNotSurprised, Contest!At, Contest!Busy
<1>5. Stage[n] = "candidate" =>
          turn = 0 /\ phase <= clock /\ clock + Left[n] = phase + EvalLag
  BY DEF Contest!Scheduled, Contest!CandidateOnTime, Contest!At, Contest!Until
<1>6. Stage[n] = "asleep" =>
          /\ Left[n] > 0 /\ 0 < RankIn[n] /\ turn <= RankIn[n]
          /\ Contest!Turn(n, phase, turn) <= clock + Left[n]
          /\ clock + Left[n] <= Contest!Turn(n, phase, turn) + EvalLag
  BY DEF Contest!Scheduled, Contest!AsleepOnTime, Contest!At, Contest!Until
<1>7. /\ Stage[n] = "hot" => clock + Left[n] <= phase + 2 * EvalLag
      /\ Stage[n] = "pending" => clock + Left[n] <= phase + 2 * EvalLag + NoticeLag
      /\ Stage[n] \in {"hot", "pending"} => phase <= clock
  BY DEF Contest!Scheduled, Contest!BusyOnTime, Contest!At, Contest!Busy, Contest!Until
<1>8. ASSUME Stage[n] \in {"hot", "pending"}
      PROVE  /\ Stage[m] \in {"hot", "pending"} => n = m
             /\ Stage[m] # "leader"
             /\ Stage[m] \in {"candidate", "asleep"} => RankIn[m] # turn
  BY <1>8 DEF Contest!Scheduled, Contest!BusyAlone, Contest!At, Contest!Busy, Contest!Ranked
<1>9. ASSUME Stage[n] = "calm"
      PROVE  /\ Stage[m] # "candidate"
             /\ clock + Left[n] > PollInterval =>
                    Stage[m] \notin {"candidate", "asleep", "hot", "pending"}
             /\ Stage[m] = "asleep" =>
                    Contest!Turn(m, phase, turn) + 2 * EvalLag + NoticeLag
                        < Contest!Nomination(n)
             /\ Stage[m] \in {"hot", "pending"} =>
                    phase + 2 * EvalLag + NoticeLag < Contest!Nomination(n)
  <2>1. n \in Contest!At("calm")
    BY <1>9 DEF Contest!At
  <2>2. /\ Stage[m] = "candidate" => m \in Contest!At("candidate")
        /\ Stage[m] \in {"candidate", "asleep"} => m \in Contest!Ranked
        /\ Stage[m] \in {"hot", "pending"} => m \in Contest!Busy
    BY DEF Contest!At, Contest!Ranked, Contest!Busy
  <2> QED
    BY <2>1, <2>2 DEF Contest!Scheduled, Contest!CalmLater, Contest!Until
<1> QED
  BY <1>1, <1>2, <1>3, <1>4, <1>5, <1>6, <1>7, <1>8, <1>9

\* A sleeper wakes when its turn has just begun.
LEMMA WakesInTurn ==
    ASSUME Contest!Room, Contest!TypeOK, Contest!InStep, Contest!Tick,
           NEW phase \in Nat, NEW turn \in Nat, Contest!Scheduled(phase, turn),
           NEW next \in Nat, NEW n \in Contest!Waking,
           next <= RankIn[n],
           Contest!Turn(n, phase, next) = Contest!Turn(n, phase, turn) - (clock + 1 - clock')
    PROVE  n \in Nodes /\ Stage[n] = "asleep" /\ Left[n] = 1 /\ RankIn[n] = next
           /\ 0 < RankIn[n] /\ phase <= clock' /\ clock' <= phase + EvalLag
<1>1. n \in Nodes /\ Stage[n] = "asleep" /\ Left[n] = 1
  BY DEF Contest!Waking, Contest!At
<1>2. /\ Contest!Turn(n, phase, turn) <= clock + 1 /\ 0 < RankIn[n]
      /\ clock + 1 <= Contest!Turn(n, phase, turn) + EvalLag
  BY <1>1, ScheduleReads
<1>3. clock' \in 0 .. PollInterval - 1 /\ clock \in Nat
  BY TickClock, ContestConstants DEF Contest!TypeOK
<1>4. /\ Contest!Turn(n, phase, turn) \in Int /\ Contest!Turn(n, phase, next) \in Int
      /\ RankIn[n] = next => Contest!Turn(n, phase, next) = phase
      /\ next < RankIn[n] => phase + PollInterval <= Contest!Turn(n, phase, next)
  BY <1>1, TurnFacts
<1>5. Contest!Turn(n, phase, next) <= clock' /\ clock' <= Contest!Turn(n, phase, next) + EvalLag
  BY <1>2, <1>3, <1>4, ContestConstants
<1>6. RankIn[n] = next
  BY <1>1, <1>3, <1>4, <1>5, ContestConstants DEF Contest!TypeOK
<1> QED
  BY <1>1, <1>2, <1>4, <1>5, <1>6

\* Calm nodes stay on time and in step, those included that have just given up
\* their takeover.
LEMMA TickCalm ==
    ASSUME Contest!Room, Contest!TypeOK, Contest!InStep, Contest!Tick,
           NEW phase \in Nat, NEW turn \in Nat, Contest!Scheduled(phase, turn),
           Contest!Nominated = {}
    PROVE  /\ Contest!CalmOnTime' /\ Contest!CalmAgree'
           /\ \A n \in Nodes : Stage'[n] = "calm" =>
                  \/ clock' + Left'[n] <= PollInterval
                  \/ clock' + Left'[n] = clock + Left[n] /\ Stage[n] = "calm"
<1>1. /\ clock \in 0 .. PollInterval - 1 /\ clock' \in 0 .. PollInterval - 1
      /\ \A n \in Nodes : Left[n] \in Nat /\ Count[n] \in Nat
  BY TickClock DEF Contest!TypeOK
<1>2. ASSUME NEW n \in Nodes, Stage[n] = "calm", Left[n] # 1,
             Left'[n] = Left[n] - 1, Count'[n] = Count[n]
      PROVE  /\ Left'[n] > 0
             /\ \/ clock' + Left'[n] \in {PollInterval, 2 * PollInterval}
                \/ clock' + Left'[n] = ConfirmPoll /\ Count'[n] = Threshold - 1
             /\ \/ clock' + Left'[n] <= PollInterval
                \/ clock' + Left'[n] = clock + Left[n]
  <2>1. /\ Left[n] > 0
        /\ \/ clock + Left[n] \in {PollInterval, 2 * PollInterval}
           \/ clock + Left[n] = ConfirmPoll /\ Count[n] = Threshold - 1
    BY <1>2, ScheduleReads
  <2>2. Left'[n] > 0
    BY <1>1, <1>2, <2>1
  <2>3. CASE clock' = clock + 1
    BY <1>1, <1>2, <2>1, <2>2, <2>3, ContestConstants
  <2>4. CASE clock + 1 = PollInterval /\ clock' = 0
    BY <1>1, <1>2, <2>1, <2>2, <2>4, ContestConstants
  <2> QED
    BY <2>2, <2>3, <2>4, TickClock
<1>3. ASSUME NEW n \in Contest!Resampled
      PROVE  /\ n \in Nodes /\ Left[n] = 1 /\ Stage[n] = "calm" /\ Left'[n] > 0
             /\ \/ clock' + Left'[n] = PollInterval
                \/ clock' + Left'[n] = ConfirmPoll /\ Count'[n] = Threshold - 1
             /\ ~Dark => Count'[n] = 0 /\ Left'[n] = PollInterval - clock'
  <2>1. Contest!CalmOnTime
    BY DEF Contest!InStep
  <2> QED
    BY <1>1, <1>3, <2>1, Resampling, ContestConstants
<1>4. ASSUME NEW n \in Contest!Waking, ~Dark
      PROVE  /\ n \in Nodes /\ Stage[n] = "asleep" /\ Left[n] = 1
             /\ Left'[n] = PollInterval - clock' /\ Count'[n] = 0
             /\ Left'[n] > 0 /\ clock' + Left'[n] = PollInterval
  <2>1. n \in Nodes /\ Stage[n] = "asleep" /\ Left[n] = 1
    BY DEF Contest!Waking, Contest!At
  <2>2. Left'[n] = PollInterval - clock' /\ Count'[n] = 0
    BY <1>4, <2>1, TickSteps
  <2> QED
    BY <1>1, <2>1, <2>2, ContestConstants
<1>5. ASSUME NEW n \in Nodes, Stage'[n] = "calm"
      PROVE  /\ Left'[n] > 0
             /\ \/ clock' + Left'[n] \in {PollInterval, 2 * PollInterval}
                \/ clock' + Left'[n] = ConfirmPoll /\ Count'[n] = Threshold - 1
             /\ \/ clock' + Left'[n] <= PollInterval
                \/ clock' + Left'[n] = clock + Left[n] /\ Stage[n] = "calm"
  BY <1>1, <1>2, <1>3, <1>4, <1>5, TickWithoutNomination, ContestConstants
<1>6. Contest!CalmOnTime'
  BY <1>5 DEF Contest!CalmOnTime, Contest!At, Contest!Until
<1>7. ASSUME NEW n \in Contest!Waking, ~Dark, NEW m \in Nodes, Stage'[m] = "calm"
      PROVE  Count'[m] = Count'[n] /\ Left'[m] = Left'[n]
  <2>1. CASE m \in Contest!Resampled
    BY <1>3, <1>4, <1>7, <2>1
  <2>2. CASE m \in Contest!Waking
    BY <1>4, <1>7, <2>2
  <2>3. CASE Stage[m] = "calm" /\ Left[m] # 1 /\ Left'[m] = Left[m] - 1 /\ Count'[m] = Count[m]
    <3>1. n \in Nodes /\ Stage[n] = "asleep" /\ Left[n] = 1 /\ Left'[n] = PollInterval - clock'
          /\ Count'[n] = 0
      BY <1>4, <1>7
    <3>2. /\ Left[m] > 0
          /\ \/ clock + Left[m] \in {PollInterval, 2 * PollInterval}
             \/ clock + Left[m] = ConfirmPoll /\ Count[m] = Threshold - 1
          /\ Count[m] > 0 /\ Left[n] < Left[m] => Dark
          /\ ~(clock + Left[m] > PollInterval)
      BY <2>3, <3>1, ScheduleReads
    <3>3. Count[m] = 0
      BY <1>1, <1>7, <2>3, <3>1, <3>2
    <3>4. clock + Left[m] = PollInterval
      BY <1>1, <3>2, <3>3, ContestConstants DEF Contest!Room
    <3>5. clock' = clock + 1
      BY <1>1, <2>3, <3>2, <3>4, TickClock, ContestConstants
    <3> QED
      BY <1>1, <2>3, <3>1, <3>3, <3>4, <3>5, ContestConstants
  <2> QED
    BY <1>7, <2>1, <2>2, <2>3, TickWithoutNomination
<1>8. ASSUME NEW n \in Nodes, NEW m \in Nodes, Stage'[n] = "calm", Stage'[m] = "calm"
      PROVE  Count'[n] = Count'[m] /\ Left'[n] = Left'[m]
  <2>1. CASE n \in Contest!Waking /\ ~Dark
    BY <1>7, <1>8, <2>1
  <2>2. CASE m \in Contest!Waking /\ ~Dark
    BY <1>7, <1>8, <2>2
  <2>3. CASE ~(n \in Contest!Waking /\ ~Dark) /\ ~(m \in Contest!Waking /\ ~Dark)
    <3>1. Stage[n] = "calm" /\ Stage[m] = "calm"
      BY <1>3, <1>8, <2>3, TickWithoutNomination
    <3>2. Count[n] = Count[m] /\ Left[n] = Left[m]
      BY <3>1, ScheduleReads
    <3>3. n \in Contest!Resampled <=> m \in Contest!Resampled
      BY <3>1, <3>2 DEF Contest!Resampled, Contest!Polling, Contest!At
    <3>4. CASE n \in Contest!Resampled
      <4>1. Contest!Total(n) = Contest!Total(m)
        BY <3>2 DEF Contest!Total
      <4> QED
        BY <3>3, <3>4, <4>1, TickSteps
    <3>5. CASE n \notin Contest!Resampled
      <4>1. n \notin Contest!Waking /\ m \notin Contest!Waking
        BY <3>1 DEF Contest!Waking, Contest!At
      <4> QED
        BY <1>8, <3>2, <3>3, <3>5, <4>1, TickWithoutNomination
    <3> QED
      BY <3>4, <3>5
  <2> QED
    BY <2>1, <2>2, <2>3
<1>9. Contest!CalmAgree'
  BY <1>8 DEF Contest!CalmAgree, Contest!At
<1> QED
  BY <1>5, <1>6, <1>9

\* The schedule after a tick that nominates nobody, for the nodes that are not
\* calm.
LEMMA TickTurns ==
    ASSUME Contest!Room, Contest!TypeOK, Contest!InStep, Contest!Tick,
           NEW phase \in Nat, NEW turn \in Nat, Contest!Scheduled(phase, turn),
           Contest!Nominated = {}, NEW next \in Nat,
           clock' = 0 \/ (next = turn /\ clock' = clock + 1),
           clock' = 0 => /\ \A m \in Nodes : Stage[m] \notin {"candidate", "hot", "pending"}
                         /\ clock + 1 = PollInterval,
           \A m \in Nodes : Stage[m] = "asleep" =>
               /\ next <= RankIn[m]
               /\ Contest!Turn(m, phase, next) =
                      Contest!Turn(m, phase, turn) - (clock + 1 - clock')
    PROVE  /\ Contest!RanksApart' /\ Contest!LeaderAlone'
           /\ Contest!TurnsFit(phase)' /\ Contest!CandidateOnTime(phase, next)'
           /\ Contest!AsleepOnTime(phase, next)'
           /\ Contest!BusyOnTime(phase)' /\ Contest!BusyAlone(next)'
<1>1. /\ clock \in Nat /\ clock' \in Nat /\ \A n \in Nodes : Left[n] \in Nat
      /\ \A n \in Nodes : RankIn[n] \in Nat
  BY TickClock, ContestConstants DEF Contest!TypeOK
<1>2. ASSUME NEW n \in Contest!Waking
      PROVE  n \in Nodes /\ Stage[n] = "asleep" /\ Left[n] = 1 /\ RankIn[n] = next
             /\ 0 < RankIn[n] /\ phase <= clock' /\ clock' <= phase + EvalLag
  <2>1. n \in Nodes /\ Stage[n] = "asleep"
    BY DEF Contest!Waking, Contest!At
  <2> QED
    BY <2>1, WakesInTurn
<1>3. Dark' = Dark
  BY DEF Contest!Tick
<1>4. Contest!RanksApart'
  <2>1. ASSUME NEW n \in Nodes, Stage'[n] \in {"candidate", "asleep"}
        PROVE  RankIn'[n] = RankIn[n] /\ Stage[n] \in {"candidate", "asleep"}
               /\ RankIn'[n] < NodeCount
    BY <2>1, TickWithoutNomination, ScheduleReads
  <2>2. ASSUME NEW n \in Nodes, Stage'[n] \in {"candidate", "asleep"},
               NEW m \in Nodes, Stage'[m] \in {"candidate", "asleep"}
        PROVE  RankIn'[n] = RankIn'[m] => n = m
    BY <2>1, <2>2, ScheduleReads
  <2> QED
    BY <2>1, <2>2 DEF Contest!RanksApart, Contest!Ranked, Contest!At
<1>5. Contest!LeaderAlone'
  <2>1. ASSUME NEW n \in Nodes, Stage'[n] = "leader", NEW m \in Nodes
        PROVE  /\ ~Dark /\ (Stage'[m] = "leader" => n = m)
               /\ Stage'[m] = "candidate" => RankIn'[m] > 0
    BY <2>1, TickWithoutNomination, ScheduleReads
  <2> QED
    BY <1>3, <2>1 DEF Contest!LeaderAlone, Contest!At
<1>6. Contest!TurnsFit(phase)'
  BY DEF Contest!Scheduled, Contest!TurnsFit
<1>7. Contest!CandidateOnTime(phase, next)'
  <2>1. ASSUME NEW n \in Nodes, Stage'[n] = "candidate"
        PROVE  next = 0 /\ phase <= clock' /\ clock' + Left'[n] = phase + EvalLag
    <3>1. Stage[n] = "candidate" /\ Left'[n] = Left[n] - 1
      BY <2>1, TickWithoutNomination
    <3>2. turn = 0 /\ phase <= clock /\ clock + Left[n] = phase + EvalLag
      BY <3>1, ScheduleReads
    <3>3. next = turn /\ clock' = clock + 1
      BY <3>1
    <3> QED
      BY <1>1, <3>1, <3>2, <3>3, ContestConstants
  <2> QED
    BY <2>1 DEF Contest!CandidateOnTime, Contest!At, Contest!Until
<1>8. Contest!AsleepOnTime(phase, next)'
  <2>1. ASSUME NEW n \in Nodes, Stage'[n] = "asleep"
        PROVE  /\ Left'[n] > 0 /\ 0 < RankIn'[n] /\ next <= RankIn'[n]
               /\ Contest!Turn(n, phase, next)' <= clock' + Left'[n]
               /\ clock' + Left'[n] <= Contest!Turn(n, phase, next)' + EvalLag
    <3>1. /\ Stage[n] = "asleep" /\ Left[n] # 1 /\ Left'[n] = Left[n] - 1
          /\ RankIn'[n] = RankIn[n]
      BY <2>1, TickWithoutNomination
    <3>2. /\ Left[n] > 0 /\ 0 < RankIn[n]
          /\ Contest!Turn(n, phase, turn) <= clock + Left[n]
          /\ clock + Left[n] <= Contest!Turn(n, phase, turn) + EvalLag
      BY <3>1, ScheduleReads
    <3>3. Contest!Turn(n, phase, next)' = Contest!Turn(n, phase, next)
      BY <3>1 DEF Contest!Turn
    <3>4. Contest!Turn(n, phase, turn) \in Int /\ Contest!Turn(n, phase, next) \in Int
      BY <2>1, TurnFacts
    <3>5. Contest!Turn(n, phase, next) = Contest!Turn(n, phase, turn) - (clock + 1 - clock')
      BY <2>1, <3>1
    <3>6. Left'[n] > 0 /\ 0 < RankIn'[n] /\ next <= RankIn'[n]
      BY <1>1, <2>1, <3>1, <3>2
    <3> DEFINE old == Contest!Turn(n, phase, turn)
               new == Contest!Turn(n, phase, next)
               t == clock'
    <3>7. /\ old \in Int /\ new \in Int /\ t \in Nat
          /\ old <= clock + Left[n] /\ clock + Left[n] <= old + EvalLag
          /\ new = old - (clock + 1 - t)
      BY <1>1, <3>2, <3>4, <3>5
    <3> HIDE DEF old, new, t
    <3>8. new <= t + (Left[n] - 1) /\ t + (Left[n] - 1) <= new + EvalLag
      BY <1>1, <2>1, <3>7, ContestConstants
    <3> QED
      BY <3>1, <3>3, <3>6, <3>8 DEF new, t
  <2> QED
    BY <2>1 DEF Contest!AsleepOnTime, Contest!At, Contest!Until
<1>9. ASSUME NEW n \in Nodes, Stage'[n] \in {"hot", "pending"}
      PROVE  \/ /\ Stage[n] \in {"hot", "pending"} /\ Left'[n] = Left[n] - 1
                /\ Stage'[n] = Stage[n] /\ next = turn /\ clock' = clock + 1
             \/ n \in Contest!Waking /\ Dark /\ Left'[n] = EvalLag /\ Stage'[n] = "hot"
  BY <1>9, TickWithoutNomination
<1>10. Contest!BusyOnTime(phase)'
  <2>1. ASSUME NEW n \in Nodes, Stage'[n] \in {"hot", "pending"}
        PROVE  /\ phase <= clock'
               /\ Stage'[n] = "hot" => clock' + Left'[n] <= phase + 2 * EvalLag
               /\ Stage'[n] = "pending" =>
                      clock' + Left'[n] <= phase + 2 * EvalLag + NoticeLag
    <3>1. CASE /\ Stage[n] \in {"hot", "pending"} /\ Left'[n] = Left[n] - 1
               /\ Stage'[n] = Stage[n] /\ clock' = clock + 1
      <4>1. /\ phase <= clock
            /\ Stage[n] = "hot" => clock + Left[n] <= phase + 2 * EvalLag
            /\ Stage[n] = "pending" => clock + Left[n] <= phase + 2 * EvalLag + NoticeLag
        BY <2>1, <3>1, ScheduleReads
      <4> QED
        BY <1>1, <2>1, <3>1, <4>1, ContestConstants
    <3>2. CASE n \in Contest!Waking /\ Left'[n] = EvalLag /\ Stage'[n] = "hot"
      <4>1. phase <= clock' /\ clock' <= phase + EvalLag
        BY <1>2, <3>2
      <4> DEFINE t == clock'
      <4>2. t \in Nat /\ phase <= t /\ t <= phase + EvalLag
        BY <1>1, <4>1
      <4> HIDE DEF t
      <4>3. t + EvalLag <= phase + 2 * EvalLag
        BY <4>2, ContestConstants
      <4> QED
        BY <3>2, <4>1, <4>3 DEF t
    <3> QED
      BY <1>9, <2>1, <3>1, <3>2
  <2> QED
    BY <2>1 DEF Contest!BusyOnTime, Contest!Busy, Contest!At, Contest!Until
<1>11. Contest!BusyAlone(next)'
  <2>1. ASSUME NEW n \in Nodes, Stage'[n] \in {"hot", "pending"}, NEW m \in Nodes
        PROVE  /\ Stage'[m] \in {"hot", "pending"} => n = m
               /\ Stage'[m] # "leader"
               /\ Stage'[m] \in {"candidate", "asleep"} => RankIn'[m] # next
    <3>1. CASE Stage[n] \in {"hot", "pending"} /\ next = turn
      <4>1. /\ Stage[m] \in {"hot", "pending"} => n = m
            /\ Stage[m] # "leader"
            /\ Stage[m] \in {"candidate", "asleep"} => RankIn[m] # turn
        BY <2>1, <3>1, ScheduleReads
      <4>2. m \notin Contest!Waking
        BY <1>2, <3>1, <4>1
      <4> QED
        BY <1>9, <2>1, <3>1, <4>1, <4>2, TickWithoutNomination
    <3>2. CASE n \in Contest!Waking /\ Dark
      <4>1. Stage[n] = "asleep" /\ RankIn[n] = next
        BY <1>2, <3>2
      <4>2. Stage[m] # "leader"
        BY <3>2, ScheduleReads
      <4>3. Stage[m] \in {"candidate", "asleep"} /\ RankIn[m] = next => n = m
        BY <2>1, <4>1, ScheduleReads
      <4>4. Stage[m] \in {"hot", "pending"} => next # turn
        BY <2>1, <4>1, ScheduleReads
      <4>5. Stage'[m] \in {"hot", "pending"} => n = m
        BY <1>2, <1>9, <2>1, <4>3, <4>4
      <4>6. Stage'[m] # "leader"
        BY <2>1, <4>2, TickWithoutNomination
      <4>7. Stage'[m] \in {"candidate", "asleep"} => RankIn'[m] # next
        BY <2>1, <4>3, TickWithoutNomination
      <4> QED
        BY <4>5, <4>6, <4>7
    <3> QED
      BY <1>9, <2>1, <3>1, <3>2
  <2> QED
    BY <2>1 DEF Contest!BusyAlone, Contest!Busy, Contest!Ranked, Contest!At
<1> QED
  BY <1>4, <1>5, <1>6, <1>7, <1>8, <1>10, <1>11

\* A node that gives up its takeover is not nominated again before the last
\* rank has had its turn and its leader is seen.
LEMMA NominatedAfterRound ==
    ASSUME Contest!Room, NEW phase \in {0, ConfirmPoll}, Contest!TurnsFit(phase),
           NEW n \in Nodes, Count'[n] = 0, Left'[n] = PollInterval - clock', clock' \in Nat,
           NEW d \in Int, d <= NodeCount - 2
    PROVE  phase + d * PollInterval + 2 * EvalLag + NoticeLag < Contest!Nomination(n)'
<1> DEFINE P == PollInterval
           full == (Threshold - 2) * P
           most == (NodeCount - 2) * P
<1>1. Contest!Nomination(n)' = P + full + ConfirmPoll
  BY FreshNomination
<1>2. /\ d * P \in Int /\ most \in Int /\ full \in Int
      /\ d < NodeCount - 2 => d * P + P <= most
  BY Multiples, ContestConstants
<1>3. d * P <= most
  <2>1. d = NodeCount - 2 => d * P = most
    OBVIOUS
  <2>2. d = NodeCount - 2 \/ d < NodeCount - 2
    BY ContestConstants
  <2> HIDE DEF most
  <2> QED
    BY <1>2, <2>1, <2>2, ContestConstants
<1>4. phase + 2 * EvalLag + NoticeLag < P
  BY DEF Contest!TurnsFit
<1>5. CASE ConfirmPoll = P
  <2>1. phase = 0 /\ NodeCount - 2 <= Threshold - 1
    BY <1>4, <1>5, ContestConstants DEF Contest!Room
  <2>2. (Threshold - 1) * P = full + P
    <3>1. /\ (Threshold - 2 + 1) * P = (Threshold - 2) * P + P
          /\ Threshold - 2 + 1 = Threshold - 1
      BY Multiples, ContestConstants
    <3> QED
      BY <3>1
  <2>3. most <= full + P
    <3>1. NodeCount - 2 < Threshold - 1 => most + P <= (Threshold - 1) * P
      BY Multiples, ContestConstants
    <3>2. NodeCount - 2 = Threshold - 1 => most = (Threshold - 1) * P
      OBVIOUS
    <3>3. NodeCount - 2 < Threshold - 1 \/ NodeCount - 2 = Threshold - 1
      BY <2>1, ContestConstants
    <3> DEFINE more == (Threshold - 1) * P
    <3>4. more = full + P
      BY <2>2
    <3>5. /\ NodeCount - 2 < Threshold - 1 => most + P <= more
          /\ NodeCount - 2 = Threshold - 1 => most = more
      BY <3>1, <3>2
    <3> HIDE DEF more, most, full
    <3> QED
      BY <1>2, <3>3, <3>4, <3>5, ContestConstants
  <2> DEFINE e == d * P
  <2>4. e \in Int /\ e <= most
    BY <1>2, <1>3
  <2> HIDE DEF e, most, full
  <2>5. phase + e + 2 * EvalLag + NoticeLag < P + full + ConfirmPoll
    BY <1>2, <1>4, <1>5, <2>1, <2>3, <2>4, ContestConstants
  <2> QED
    BY <1>1, <2>5 DEF e
<1>6. CASE ConfirmPoll # P
  <2>1. NodeCount - 2 <= Threshold - 2
    BY <1>6, ContestConstants DEF Contest!Room
  <2>2. most <= full
    <3>1. NodeCount - 2 < Threshold - 2 => most + P <= full
      BY Multiples, ContestConstants
    <3>2. NodeCount - 2 = Threshold - 2 => most = full
      OBVIOUS
    <3>3. NodeCount - 2 < Threshold - 2 \/ NodeCount - 2 = Threshold - 2
      BY <2>1, ContestConstants
    <3> HIDE DEF most, full
    <3> QED
      BY <1>2, <3>1, <3>2, <3>3, ContestConstants
  <2> DEFINE e == d * P
  <2>3. e \in Int /\ e <= most
    BY <1>2, <1>3
  <2> HIDE DEF e, most, full
  <2>4. phase + e + 2 * EvalLag + NoticeLag < P + full + ConfirmPoll
    BY <1>2, <1>4, <2>2, <2>3, ContestConstants
  <2> QED
    BY <1>1, <2>4 DEF e
<1> QED
  BY <1>5, <1>6

\* The schedule after a tick that nominates nobody, for the calm nodes.
LEMMA TickCalmLater ==
    ASSUME Contest!Room, Contest!TypeOK, Contest!InStep, Contest!Tick,
           NEW phase \in {0, ConfirmPoll}, NEW turn \in Nat, Contest!Scheduled(phase, turn),
           Contest!Nominated = {}, NEW next \in Nat,
           clock' = 0 \/ (next = turn /\ clock' = clock + 1),
           clock' = 0 => /\ \A m \in Nodes : Stage[m] \notin {"candidate", "hot", "pending"}
                         /\ clock + 1 = PollInterval,
           \A m \in Nodes : Stage[m] = "asleep" =>
               /\ next <= RankIn[m]
               /\ Contest!Turn(m, phase, next) =
                      Contest!Turn(m, phase, turn) - (clock + 1 - clock')
    PROVE  Contest!CalmLater(phase, next)'
<1> USE DEF Contest!Scheduled
<1>1. /\ clock \in Nat /\ clock' \in Nat /\ \A n \in Nodes : Left[n] \in Nat
      /\ \A n \in Nodes : RankIn[n] \in Nat
      /\ phase \in Nat
  BY TickClock, ContestConstants DEF Contest!TypeOK
<1>2. ASSUME NEW n \in Contest!Waking
      PROVE  n \in Nodes /\ Stage[n] = "asleep" /\ RankIn[n] = next /\ 0 < RankIn[n]
  <2>1. n \in Nodes /\ Stage[n] = "asleep"
    BY DEF Contest!Waking, Contest!At
  <2> QED
    BY <1>1, <2>1, WakesInTurn
<1>3. ASSUME NEW n \in Nodes, Stage'[n] = "calm"
      PROVE  \/ Stage[n] = "calm"
             \/ /\ n \in Contest!Waking /\ ~Dark
                /\ Left'[n] = PollInterval - clock' /\ Count'[n] = 0
  <2>1. n \in Contest!Resampled => Stage[n] = "calm"
    BY DEF Contest!Resampled, Contest!Polling, Contest!At
  <2> QED
    BY <1>3, <2>1, TickWithoutNomination
<1>4. ASSUME NEW n \in Nodes, Stage'[n] = "calm", NEW m \in Nodes
      PROVE  Stage'[m] # "candidate"
  <2> SUFFICES ASSUME Stage'[m] = "candidate" PROVE FALSE
    OBVIOUS
  <2>1. Stage[m] = "candidate"
    BY TickWithoutNomination
  <2>2. turn = 0 /\ next = 0
    BY <1>1, <2>1, ScheduleReads
  <2>3. Stage[n] # "calm"
    BY <1>1, <1>4, <2>1, ScheduleReads
  <2>4. RankIn[n] = next /\ 0 < RankIn[n]
    BY <1>2, <1>3, <1>4, <2>3
  <2> QED
    BY <2>2, <2>4
<1>5. ASSUME NEW n \in Nodes, Stage'[n] = "calm", NEW m \in Nodes,
             clock' + Left'[n] > PollInterval
      PROVE  Stage'[m] \notin {"candidate", "asleep", "hot", "pending"}
  <2>1. ~(clock' + Left'[n] <= PollInterval)
    <3>1. Left'[n] \in Int
      BY <1>1, <1>5, TickContestType, ScheduleReads DEF Contest!TypeOK
    <3> QED
      BY <1>1, <1>5, <3>1, ContestConstants
  <2>2. clock + Left[n] > PollInterval /\ Stage[n] = "calm"
    BY <1>1, <1>5, <2>1, TickCalm
  <2>3. Stage[m] \notin {"candidate", "asleep", "hot", "pending"}
    BY <1>1, <1>5, <2>2, ScheduleReads
  <2>4. m \notin Contest!Waking
    BY <1>2, <2>3
  <2> QED
    BY <1>5, <2>3, <2>4, TickWithoutNomination
<1>6. ASSUME NEW n \in Nodes, Stage[n] = "calm", NEW m \in Nodes, Stage[m] = "asleep"
      PROVE  Contest!Turn(m, phase, next) + 2 * EvalLag + NoticeLag < Contest!Nomination(n)'
  <2>1. Contest!Turn(m, phase, turn) + 2 * EvalLag + NoticeLag < Contest!Nomination(n)
    BY <1>1, <1>6, ScheduleReads
  <2>2. /\ Contest!Nomination(n) \in Int /\ Contest!Nomination(n)' \in Int
        /\ Contest!Nomination(n) - (clock + 1 - clock') <= Contest!Nomination(n)'
    BY <1>6, NominationKept DEF Contest!InStep
  <2>3. Contest!Turn(m, phase, turn) \in Int /\ Contest!Turn(m, phase, next) \in Int
    BY <1>1, TurnFacts
  <2>4. Contest!Turn(m, phase, next) = Contest!Turn(m, phase, turn) - (clock + 1 - clock')
    BY <1>6
  <2> DEFINE passed == clock + 1 - clock'
             old == Contest!Nomination(n)
             new == Contest!Nomination(n)'
             was == Contest!Turn(m, phase, turn)
             is == Contest!Turn(m, phase, next)
  <2>5. /\ passed \in Int /\ old \in Int /\ new \in Int /\ was \in Int /\ is \in Int
        /\ was + 2 * EvalLag + NoticeLag < old /\ old - passed <= new /\ is = was - passed
    BY <1>1, <2>1, <2>2, <2>3, <2>4
  <2> HIDE DEF passed, old, new, was, is
  <2>6. is + 2 * EvalLag + NoticeLag < new
    BY <2>5, ContestConstants
  <2> QED
    BY <2>6 DEF is, new
<1>7. ASSUME NEW n \in Nodes, Stage'[n] = "calm", NEW m \in Nodes, Stage'[m] = "asleep"
      PROVE  Contest!Turn(m, phase, next)' + 2 * EvalLag + NoticeLag < Contest!Nomination(n)'
  <2>1. Stage[m] = "asleep" /\ RankIn'[m] = RankIn[m] /\ m \notin Contest!Waking
    BY <1>7, TickWithoutNomination DEF Contest!Waking, Contest!At
  <2>2. Contest!Turn(m, phase, next)' = Contest!Turn(m, phase, next)
    BY <2>1 DEF Contest!Turn
  <2>3. CASE Stage[n] = "calm"
    BY <1>6, <1>7, <2>1, <2>2, <2>3
  <2>4. CASE /\ n \in Contest!Waking
             /\ Left'[n] = PollInterval - clock' /\ Count'[n] = 0
    <3>1. Stage[n] = "asleep" /\ RankIn[n] = next /\ 0 < RankIn[n]
      BY <1>2, <2>4
    <3>2. RankIn[m] < NodeCount
      BY <1>1, <1>7, <2>1, ScheduleReads
    <3>3. RankIn[m] - next \in Int /\ RankIn[m] - next <= NodeCount - 2
      BY <1>1, <1>7, <3>1, <3>2, ContestConstants
    <3>4. phase + (RankIn[m] - next) * PollInterval + 2 * EvalLag + NoticeLag
              < Contest!Nomination(n)'
      BY <1>1, <1>7, <2>4, <3>3, NominatedAfterRound
    <3> QED
      BY <2>2, <3>4 DEF Contest!Turn
  <2> QED
    BY <1>3, <1>7, <2>3, <2>4
<1>8. ASSUME NEW n \in Nodes, Stage'[n] = "calm", NEW m \in Nodes,
             Stage'[m] \in {"hot", "pending"}
      PROVE  phase + 2 * EvalLag + NoticeLag < Contest!Nomination(n)'
  <2>1. \/ Stage[m] \in {"hot", "pending"} /\ next = turn /\ clock' = clock + 1
        \/ m \in Contest!Waking /\ Dark
    BY <1>8, TickWithoutNomination
  <2>2. CASE Stage[m] \in {"hot", "pending"} /\ next = turn /\ clock' = clock + 1
    <3>1. Stage[n] = "calm"
      <4>1. Stage[n] = "asleep" => RankIn[n] # turn
        BY <1>1, <1>8, <2>2, ScheduleReads
      <4> QED
        BY <1>2, <1>3, <1>8, <2>2, <4>1
    <3>2. phase + 2 * EvalLag + NoticeLag < Contest!Nomination(n)
      BY <1>1, <1>8, <2>2, <3>1, ScheduleReads
    <3>3. /\ Contest!Nomination(n) \in Int /\ Contest!Nomination(n)' \in Int
          /\ Contest!Nomination(n) - (clock + 1 - clock') <= Contest!Nomination(n)'
      BY <1>8, <3>1, NominationKept DEF Contest!InStep
    <3> DEFINE old == Contest!Nomination(n)
               new == Contest!Nomination(n)'
    <3>4. clock + 1 - clock' = 0
      BY <1>1, <2>2
    <3>5. old \in Int /\ new \in Int /\ phase + 2 * EvalLag + NoticeLag < old /\ old - 0 <= new
      BY <3>2, <3>3, <3>4
    <3> HIDE DEF old, new
    <3>6. phase + 2 * EvalLag + NoticeLag < new
      BY <1>1, <3>5, ContestConstants
    <3> QED
      BY <3>6 DEF new
  <2>3. CASE m \in Contest!Waking /\ Dark
    <3>1. Stage[m] = "asleep" /\ RankIn[m] = next
      BY <1>2, <2>3
    <3>2. Contest!Turn(m, phase, next) = phase
      BY <1>1, <1>8, <3>1, TurnFacts
    <3>3. Stage[n] = "calm"
      BY <1>3, <1>8, <2>3
    <3> QED
      BY <1>6, <1>8, <3>1, <3>2, <3>3
  <2> QED
    BY <2>1, <2>2, <2>3
<1>9. ASSUME NEW n \in Contest!At("calm")'
      PROVE  /\ Contest!At("candidate")' = {}
             /\ Contest!Until(n)' > PollInterval => Contest!Ranked' \cup Contest!Busy' = {}
             /\ \A m \in Contest!Ranked' :
                    Contest!Turn(m, phase, next)' + 2 * EvalLag + NoticeLag
                        < Contest!Nomination(n)'
             /\ Contest!Busy' # {} => phase + 2 * EvalLag + NoticeLag < Contest!Nomination(n)'
  <2>1. n \in Nodes /\ Stage'[n] = "calm"
    BY <1>9 DEF Contest!At
  <2>2. Contest!At("candidate")' = {}
    BY <1>4, <2>1 DEF Contest!At
  <2>3. Contest!Until(n)' > PollInterval => Contest!Ranked' \cup Contest!Busy' = {}
    BY <1>5, <2>1 DEF Contest!At, Contest!Ranked, Contest!Busy, Contest!Until
  <2>4. ASSUME NEW m \in Contest!Ranked'
        PROVE  Contest!Turn(m, phase, next)' + 2 * EvalLag + NoticeLag
                   < Contest!Nomination(n)'
    <3>1. m \in Nodes /\ Stage'[m] = "asleep"
      BY <2>2, <2>4 DEF Contest!At, Contest!Ranked
    <3> QED
      BY <1>7, <2>1, <3>1
  <2>5. ASSUME Contest!Busy' # {}
        PROVE  phase + 2 * EvalLag + NoticeLag < Contest!Nomination(n)'
    <3>1. PICK m \in Nodes : Stage'[m] \in {"hot", "pending"}
      BY <2>5 DEF Contest!Busy, Contest!At
    <3> QED
      BY <1>8, <2>1, <3>1
  <2> QED
    BY <2>2, <2>3, <2>4, <2>5
<1> QED
  BY <1>9 DEF Contest!CalmLater

\* A tick that nominates nobody puts no calm node in for a surprise.
LEMMA TickCalmNotSurprised ==
    ASSUME Contest!Room, Contest!TypeOK, Contest!InStep, Contest!Tick,
           NEW phase \in {0, ConfirmPoll}, NEW turn \in Nat, Contest!Scheduled(phase, turn),
           Contest!Nominated = {}, NEW next \in Nat,
           clock' = 0 \/ (next = turn /\ clock' = clock + 1),
           clock' = 0 => /\ \A m \in Nodes : Stage[m] \notin {"candidate", "hot", "pending"}
                         /\ clock + 1 = PollInterval,
           \A m \in Nodes : Stage[m] = "asleep" =>
               /\ next <= RankIn[m]
               /\ Contest!Turn(m, phase, next) =
                      Contest!Turn(m, phase, turn) - (clock + 1 - clock')
    PROVE  Contest!CalmNotSurprised'
<1>1. /\ clock \in Nat /\ clock' \in Nat /\ \A n \in Nodes : Left[n] \in Nat
      /\ \A n \in Nodes : RankIn[n] \in Nat /\ Count[n] \in Nat
      /\ phase \in Nat
  BY TickClock, ContestConstants DEF Contest!TypeOK
<1>2. \A n \in Nodes : Left'[n] \in Nat
  BY <1>1, TickContestType, ScheduleReads DEF Contest!TypeOK
<1>3. ASSUME NEW n \in Nodes, Stage'[n] = "calm", NEW m \in Nodes, Stage'[m] = "asleep",
             Count'[n] > 0, Left'[m] < Left'[n]
      PROVE  Dark' /\ \A k \in Nodes : Stage'[k] \notin {"hot", "pending"}
  <2>1. /\ Stage[m] = "asleep" /\ Left[m] # 1 /\ Left'[m] = Left[m] - 1
        /\ RankIn'[m] = RankIn[m]
    BY <1>3, TickWithoutNomination
  <2>2. \/ Stage[n] = "calm" /\ Left[n] # 1 /\ Left'[n] = Left[n] - 1 /\ Count'[n] = Count[n]
        \/ n \in Contest!Resampled
    <3>1. Count'[n] # 0
      BY <1>3
    <3> QED
      BY <1>3, <3>1, TickWithoutNomination
  <2>3. Dark /\ \A k \in Nodes : Stage[k] \notin {"hot", "pending"}
    <3>1. CASE n \in Contest!Resampled
      <4>1. Dark /\ clock' = 0
        BY <1>3, <3>1, Resampling DEF Contest!InStep
      <4> QED
        BY <4>1
    <3>2. CASE /\ Stage[n] = "calm" /\ Left[n] # 1
               /\ Left'[n] = Left[n] - 1 /\ Count'[n] = Count[n]
      <4>1. Left[m] < Left[n]
        BY <1>1, <1>3, <2>1, <3>2
      <4> QED
        BY <1>1, <1>3, <2>1, <3>2, <4>1, ScheduleReads
    <3> QED
      BY <2>2, <3>1, <3>2
  <2>4. clock' + Left'[n] <= PollInterval
    <3>1. clock + Left[n] <= PollInterval \/ Stage[n] # "calm"
      <4>1. Stage[n] = "calm" => ~(clock + Left[n] > PollInterval)
        BY <1>1, <1>3, <2>1, ScheduleReads
      <4> QED
        BY <1>1, <1>3, <4>1, ContestConstants
    <3>2. \/ clock' + Left'[n] <= PollInterval
          \/ clock' + Left'[n] = clock + Left[n] /\ Stage[n] = "calm"
      BY <1>1, <1>3, TickCalm
    <3> QED
      BY <3>1, <3>2
  <2>5. RankIn[m] = next
    <3>1. Contest!Turn(m, phase, next) <= clock' + Left'[m]
      <4>1. Contest!AsleepOnTime(phase, next)'
        BY <1>1, TickTurns
      <4>2. Contest!Turn(m, phase, next)' <= clock' + Left'[m]
        BY <1>3, <4>1 DEF Contest!AsleepOnTime, Contest!At, Contest!Until
      <4>3. Contest!Turn(m, phase, next)' = Contest!Turn(m, phase, next)
        BY <2>1 DEF Contest!Turn
      <4> QED
        BY <4>2, <4>3
    <3>2. clock' + Left'[m] < PollInterval
      <4> DEFINE t == clock'
                 a == Left'[m]
                 b == Left'[n]
      <4>1. t \in Nat /\ a \in Nat /\ b \in Nat /\ a < b /\ t + b <= PollInterval
        BY <1>1, <1>2, <1>3, <2>4
      <4> HIDE DEF t, a, b
      <4>2. t + a < PollInterval
        BY <4>1, ContestConstants
      <4> QED
        BY <4>2 DEF t, a
    <3>3. next < RankIn[m] => phase + PollInterval <= Contest!Turn(m, phase, next)
      BY <1>1, <1>3, TurnFacts
    <3>4. next <= RankIn[m] /\ Contest!Turn(m, phase, next) \in Int
      BY <1>1, <1>3, <2>1, TurnFacts
    <3> DEFINE is == Contest!Turn(m, phase, next)
               until == clock' + Left'[m]
    <3>5. /\ is \in Int /\ until \in Int /\ is <= until /\ until < PollInterval
          /\ next < RankIn[m] => phase + PollInterval <= is
      BY <1>1, <1>2, <1>3, <3>1, <3>2, <3>3, <3>4
    <3> HIDE DEF is, until
    <3> QED
      BY <1>1, <1>3, <3>4, <3>5, ContestConstants
  <2>6. ASSUME NEW k \in Nodes PROVE Stage'[k] \notin {"hot", "pending"}
    <3>1. k \notin Contest!Waking
      <4> SUFFICES ASSUME k \in Contest!Waking PROVE FALSE
        OBVIOUS
      <4>1. Stage[k] = "asleep" /\ Left[k] = 1
        BY DEF Contest!Waking, Contest!At
      <4>2. RankIn[k] = next
        BY <1>1, <4>1, WakesInTurn
      <4>3. k = m
        BY <1>1, <1>3, <2>1, <2>5, <2>6, <4>1, <4>2, ScheduleReads
      <4> QED
        BY <2>1, <4>1, <4>3
    <3> QED
      BY <2>3, <2>6, <3>1, TickWithoutNomination
  <2> QED
    BY <2>3, <2>6 DEF Contest!Tick
<1> QED
  BY <1>3 DEF Contest!CalmNotSurprised, Contest!At, Contest!Busy

\* Time keeps the contest on schedule.
LEMMA TickOnSchedule ==
    ASSUME Contest!Room, Contest!OnSchedule, Contest!Tick
    PROVE  Contest!OnSchedule'
<1>1. Contest!TypeOK /\ Contest!InStep
  BY DEF Contest!OnSchedule
<1>2. PICK phase \in {0, ConfirmPoll}, turn \in 0 .. NodeCount - 1 :
          Contest!Scheduled(phase, turn)
  BY DEF Contest!OnSchedule
<1>3. phase \in Nat /\ turn \in Nat
  BY ContestConstants
<1>4. Contest!TypeOK'
  BY <1>1, <1>2, <1>3, ScheduleReads, TickContestType
<1>5. CASE Contest!Nominated # {}
  <2>1. \A start : start = clock' =>
            /\ Contest!InStep'
            /\ start \in {0, ConfirmPoll} /\ Contest!Scheduled(start, 0)'
    BY <1>1, <1>2, <1>3, <1>5, TickNominates
  <2>2. PICK start : start = clock'
    OBVIOUS
  <2>3. /\ Contest!InStep' /\ start \in {0, ConfirmPoll} /\ Contest!Scheduled(start, 0)'
    BY <2>1, <2>2
  <2>4. 0 \in 0 .. NodeCount - 1
    BY ContestConstants
  <2>5. \E p \in {0, ConfirmPoll}, t \in 0 .. NodeCount - 1 : Contest!Scheduled(p, t)'
    BY <2>3, <2>4
  <2> QED
    BY <1>4, <2>3, <2>5 DEF Contest!OnSchedule
<1>6. CASE Contest!Nominated = {}
  <2>1. PICK next \in 0 .. NodeCount - 1 :
            /\ clock' = 0 \/ (next = turn /\ clock' = clock + 1)
            /\ clock' = 0 => /\ \A m \in Nodes :
                                    Stage[m] \notin {"candidate", "hot", "pending"}
                             /\ clock + 1 = PollInterval
            /\ \A m \in Nodes : Stage[m] = "asleep" =>
                   /\ next <= RankIn[m]
                   /\ Contest!Turn(m, phase, next) =
                          Contest!Turn(m, phase, turn) - (clock + 1 - clock')
    BY <1>1, <1>2, <1>3, TurnPasses
  <2>2. next \in Nat
    BY <2>1, ContestConstants
  <2>3. /\ Contest!RanksApart' /\ Contest!LeaderAlone'
        /\ Contest!TurnsFit(phase)' /\ Contest!CandidateOnTime(phase, next)'
        /\ Contest!AsleepOnTime(phase, next)'
        /\ Contest!BusyOnTime(phase)' /\ Contest!BusyAlone(next)'
    BY <1>1, <1>2, <1>3, <1>6, <2>1, <2>2, TickTurns
  <2>4. Contest!CalmLater(phase, next)'
    BY <1>1, <1>2, <1>3, <1>6, <2>1, <2>2, TickCalmLater
  <2>5. Contest!CalmNotSurprised'
    BY <1>1, <1>2, <1>3, <1>6, <2>1, <2>2, TickCalmNotSurprised
  <2>6. Contest!CalmOnTime' /\ Contest!CalmAgree'
    BY <1>1, <1>2, <1>3, <1>6, TickCalm
  <2>7. Contest!InStep'
    BY <2>3, <2>5, <2>6 DEF Contest!InStep
  <2>8. Contest!Scheduled(phase, next)'
    BY <2>3, <2>4 DEF Contest!Scheduled
  <2>9. \E p \in {0, ConfirmPoll}, t \in 0 .. NodeCount - 1 : Contest!Scheduled(p, t)'
    BY <1>2, <2>1, <2>8
  <2> QED
    BY <1>4, <2>7, <2>9 DEF Contest!OnSchedule
<1> QED
  BY <1>5, <1>6

\* The parts of the next schedule, from what holds of one node or two.
LEMMA ScheduleFromParts ==
    ASSUME NEW phase \in Nat, NEW turn \in Nat, Contest!TurnsFit(phase),
           \A n, m \in Nodes :
              /\ Stage'[n] = "calm" =>
                     /\ Left'[n] > 0
                     /\ \/ clock' + Left'[n] \in {PollInterval, 2 * PollInterval}
                        \/ clock' + Left'[n] = ConfirmPoll /\ Count'[n] = Threshold - 1
              /\ Stage'[n] = "calm" /\ Stage'[m] = "calm" =>
                     Count'[n] = Count'[m] /\ Left'[n] = Left'[m]
              /\ Stage'[n] \in {"candidate", "asleep"} => RankIn'[n] < NodeCount
              /\ Stage'[n] \in {"candidate", "asleep"} /\ Stage'[m] \in {"candidate", "asleep"} =>
                     (RankIn'[n] = RankIn'[m] => n = m)
              /\ Stage'[n] = "leader" =>
                     /\ ~Dark' /\ (Stage'[m] = "leader" => n = m)
                     /\ Stage'[m] = "candidate" => RankIn'[m] > 0
              /\ (Stage'[n] = "calm" /\ Stage'[m] = "asleep" /\ Count'[n] > 0
                     /\ Left'[m] < Left'[n]) =>
                     Dark' /\ \A k \in Nodes : Stage'[k] \notin {"hot", "pending"},
           \A n, m \in Nodes :
              /\ Stage'[n] = "candidate" =>
                     turn = 0 /\ phase <= clock' /\ clock' + Left'[n] = phase + EvalLag
              /\ Stage'[n] = "asleep" =>
                     /\ Left'[n] > 0 /\ 0 < RankIn'[n] /\ turn <= RankIn'[n]
                     /\ Contest!Turn(n, phase, turn)' <= clock' + Left'[n]
                     /\ clock' + Left'[n] <= Contest!Turn(n, phase, turn)' + EvalLag
              /\ Stage'[n] = "hot" => clock' + Left'[n] <= phase + 2 * EvalLag
              /\ Stage'[n] = "pending" => clock' + Left'[n] <= phase + 2 * EvalLag + NoticeLag
              /\ Stage'[n] \in {"hot", "pending"} =>
                     /\ phase <= clock'
                     /\ Stage'[m] \in {"hot", "pending"} => n = m
                     /\ Stage'[m] # "leader"
                     /\ Stage'[m] \in {"candidate", "asleep"} => RankIn'[m] # turn
              /\ Stage'[n] = "calm" =>
                     /\ Stage'[m] # "candidate"
                     /\ clock' + Left'[n] > PollInterval =>
                            Stage'[m] \notin {"candidate", "asleep", "hot", "pending"}
                     /\ Stage'[m] = "asleep" =>
                            Contest!Turn(m, phase, turn)' + 2 * EvalLag + NoticeLag
                                < Contest!Nomination(n)'
                     /\ Stage'[m] \in {"hot", "pending"} =>
                            phase + 2 * EvalLag + NoticeLag < Contest!Nomination(n)'
    PROVE  Contest!InStep' /\ Contest!Scheduled(phase, turn)'
<1>1. Contest!CalmOnTime' /\ Contest!CalmAgree'
  BY DEF Contest!CalmOnTime, Contest!CalmAgree, Contest!At, Contest!Until
<1>2. Contest!RanksApart'
  BY DEF Contest!RanksApart, Contest!Ranked, Contest!At
<1>3. Contest!LeaderAlone'
  BY DEF Contest!LeaderAlone, Contest!At
<1>4. Contest!CalmNotSurprised'
  BY DEF Contest!CalmNotSurprised, Contest!At, Contest!Busy
<1>5. Contest!InStep'
  BY <1>1, <1>2, <1>3, <1>4 DEF Contest!InStep
<1>6. Contest!TurnsFit(phase)' /\ Contest!CandidateOnTime(phase, turn)'
  BY DEF Contest!TurnsFit, Contest!CandidateOnTime, Contest!At, Contest!Until
<1>7. Contest!AsleepOnTime(phase, turn)'
  BY DEF Contest!AsleepOnTime, Contest!At, Contest!Until
<1>8. Contest!BusyOnTime(phase)'
  BY DEF Contest!BusyOnTime, Contest!Busy, Contest!At, Contest!Until
<1>9. Contest!BusyAlone(turn)'
  BY DEF Contest!BusyAlone, Contest!Busy, Contest!Ranked, Contest!At
<1>10. Contest!CalmLater(phase, turn)'
  <2> SUFFICES ASSUME NEW n \in Contest!At("calm")'
               PROVE  /\ Contest!At("candidate")' = {}
                      /\ Contest!Until(n)' > PollInterval =>
                             Contest!Ranked' \cup Contest!Busy' = {}
                      /\ \A m \in Contest!Ranked' :
                             Contest!Turn(m, phase, turn)' + 2 * EvalLag + NoticeLag
                                 < Contest!Nomination(n)'
                      /\ Contest!Busy' # {} =>
                             phase + 2 * EvalLag + NoticeLag < Contest!Nomination(n)'
    BY DEF Contest!CalmLater
  <2>1. n \in Nodes /\ Stage'[n] = "calm"
    BY DEF Contest!At
  <2>2. \A m \in Nodes :
            /\ Stage'[m] # "candidate"
            /\ clock' + Left'[n] > PollInterval =>
                   Stage'[m] \notin {"candidate", "asleep", "hot", "pending"}
            /\ Stage'[m] = "asleep" =>
                   Contest!Turn(m, phase, turn)' + 2 * EvalLag + NoticeLag
                       < Contest!Nomination(n)'
            /\ Stage'[m] \in {"hot", "pending"} =>
                   phase + 2 * EvalLag + NoticeLag < Contest!Nomination(n)'
    BY <2>1
  <2>3. Contest!At("candidate")' = {}
    BY <2>2 DEF Contest!At
  <2>4. Contest!Until(n)' > PollInterval => Contest!Ranked' \cup Contest!Busy' = {}
    BY <2>2 DEF Contest!At, Contest!Ranked, Contest!Busy, Contest!Until
  <2>5. \A m \in Contest!Ranked' : m \in Nodes /\ Stage'[m] = "asleep"
    BY <2>3 DEF Contest!At, Contest!Ranked
  <2>6. Contest!Busy' # {} => \E m \in Nodes : Stage'[m] \in {"hot", "pending"}
    BY DEF Contest!At, Contest!Busy
  <2> QED
    BY <2>2, <2>3, <2>4, <2>5, <2>6
<1> QED
  BY <1>5, <1>6, <1>7, <1>8, <1>9, <1>10 DEF Contest!Scheduled

\* A step that does not move a node's turn or its nomination.
LEMMA TurnFramed ==
    ASSUME NEW n \in Nodes, NEW phase, NEW turn, RankIn'[n] = RankIn[n]
    PROVE  Contest!Turn(n, phase, turn)' = Contest!Turn(n, phase, turn)
BY DEF Contest!Turn

\* Nor when it is nominated.
LEMMA NominationFramed ==
    ASSUME NEW n \in Nodes, Count'[n] = Count[n], Left'[n] = Left[n], clock' = clock
    PROVE  Contest!Nomination(n)' = Contest!Nomination(n)
BY DEF Contest!Nomination, Contest!Until

\* A delay begins.
LEMMA SleepOnSchedule ==
    ASSUME Contest!Room, Contest!OnSchedule, NEW s \in Nodes, Contest!Sleep(s)
    PROVE  Contest!OnSchedule'
<1>1. Contest!TypeOK /\ Contest!InStep
  BY DEF Contest!OnSchedule
<1>2. PICK phase \in {0, ConfirmPoll}, turn \in 0 .. NodeCount - 1 :
          Contest!Scheduled(phase, turn)
  BY DEF Contest!OnSchedule
<1>3. phase \in Nat /\ turn \in Nat
  BY ContestConstants
<1>4. /\ Stage[s] = "candidate" /\ RankIn[s] > 0
      /\ Stage' = [Stage EXCEPT ![s] = "asleep"]
      /\ Left' = [Left EXCEPT ![s] = RankIn[s] * PollInterval]
      /\ Count' = Count /\ RankIn' = RankIn /\ clock' = clock /\ Dark' = Dark
  BY DEF Contest!Sleep
<1>5. /\ Stage \in [Nodes -> Contest!Stages] /\ Left \in [Nodes -> Nat]
      /\ RankIn \in [Nodes -> Nat] /\ clock \in Nat
  BY <1>1, ContestConstants DEF Contest!TypeOK
<1>6. RankIn[s] * PollInterval \in Nat /\ RankIn[s] * PollInterval > 0
  <2>1. /\ 0 * PollInterval + PollInterval <= RankIn[s] * PollInterval
        /\ RankIn[s] * PollInterval \in Int
    BY <1>4, <1>5, Multiples, ContestConstants
  <2>2. 0 * PollInterval = 0
    BY ContestConstants
  <2> DEFINE delay == RankIn[s] * PollInterval
  <2> HIDE DEF delay
  <2> QED
    BY <2>1, <2>2, ContestConstants DEF delay
<1>7. \A n \in Nodes : n # s => Stage'[n] = Stage[n] /\ Left'[n] = Left[n]
  BY <1>4, <1>5
<1>8. Stage'[s] = "asleep" /\ Left'[s] = RankIn[s] * PollInterval
  BY <1>4, <1>5
<1>9. Contest!TypeOK'
  BY <1>1, <1>4, <1>6 DEF Contest!TypeOK, Contest!Stages
<1>10. turn = 0 /\ phase <= clock /\ clock + Left[s] = phase + EvalLag
  BY <1>1, <1>2, <1>3, <1>4, ScheduleReads
<1>11. ASSUME NEW n \in Nodes PROVE Stage[n] # "calm" /\ Stage'[n] # "calm"
  BY <1>1, <1>2, <1>3, <1>4, <1>7, <1>8, <1>11, ScheduleReads
<1>12. /\ Contest!Turn(s, phase, turn)' <= clock' + Left'[s]
       /\ clock' + Left'[s] <= Contest!Turn(s, phase, turn)' + EvalLag
  <2> DEFINE delay == RankIn[s] * PollInterval
  <2>1. Contest!Turn(s, phase, turn)' = phase + delay
    BY <1>4, <1>5, <1>10, TurnFramed DEF Contest!Turn
  <2>2. clock' + Left'[s] = clock + delay
    BY <1>4, <1>8
  <2>3. delay \in Nat
    BY <1>6
  <2> HIDE DEF delay
  <2>4. clock <= phase + EvalLag
    BY <1>3, <1>5, <1>10, ContestConstants
  <2> QED
    BY <1>3, <1>5, <1>10, <2>1, <2>2, <2>3, <2>4, ContestConstants
<1>13. ASSUME NEW n \in Nodes, NEW m \in Nodes
       PROVE  /\ Stage'[n] \in {"candidate", "asleep"} => RankIn'[n] < NodeCount
              /\ Stage'[n] \in {"candidate", "asleep"} /\ Stage'[m] \in {"candidate", "asleep"} =>
                     (RankIn'[n] = RankIn'[m] => n = m)
              /\ Stage'[n] = "leader" =>
                     /\ ~Dark' /\ (Stage'[m] = "leader" => n = m)
                     /\ Stage'[m] = "candidate" => RankIn'[m] > 0
              /\ Stage'[n] = "candidate" =>
                     turn = 0 /\ phase <= clock' /\ clock' + Left'[n] = phase + EvalLag
              /\ Stage'[n] = "hot" => clock' + Left'[n] <= phase + 2 * EvalLag
              /\ Stage'[n] = "pending" => clock' + Left'[n] <= phase + 2 * EvalLag + NoticeLag
              /\ Stage'[n] \in {"hot", "pending"} =>
                     /\ phase <= clock'
                     /\ Stage'[m] \in {"hot", "pending"} => n = m
                     /\ Stage'[m] # "leader"
                     /\ Stage'[m] \in {"candidate", "asleep"} => RankIn'[m] # turn
  <2>1. /\ Stage'[n] \in {"candidate", "asleep"} <=> Stage[n] \in {"candidate", "asleep"}
        /\ Stage'[n] = "candidate" => Stage[n] = "candidate" /\ Left'[n] = Left[n]
        /\ Stage'[m] \in {"candidate", "asleep"} <=> Stage[m] \in {"candidate", "asleep"}
        /\ Stage'[m] = "candidate" => Stage[m] = "candidate"
    BY <1>4, <1>7, <1>8, <1>13
  <2>2. /\ \A k \in {"hot", "pending", "leader"} : Stage'[n] = k <=> Stage[n] = k
        /\ \A k \in {"hot", "pending", "leader"} : Stage'[m] = k <=> Stage[m] = k
        /\ Stage[n] \in {"hot", "pending"} => Left'[n] = Left[n]
    BY <1>4, <1>7, <1>8, <1>13
  <2>3. /\ Stage'[n] \in {"candidate", "asleep"} => RankIn'[n] < NodeCount
        /\ Stage'[n] \in {"candidate", "asleep"} /\ Stage'[m] \in {"candidate", "asleep"} =>
               (RankIn'[n] = RankIn'[m] => n = m)
    BY <1>1, <1>2, <1>3, <1>4, <1>13, <2>1, ScheduleReads
  <2>4. Stage'[n] = "leader" =>
            /\ ~Dark' /\ (Stage'[m] = "leader" => n = m)
            /\ Stage'[m] = "candidate" => RankIn'[m] > 0
    BY <1>1, <1>2, <1>3, <1>4, <1>13, <2>1, <2>2, ScheduleReads
  <2>5. Stage'[n] = "candidate" =>
            turn = 0 /\ phase <= clock' /\ clock' + Left'[n] = phase + EvalLag
    BY <1>1, <1>2, <1>3, <1>4, <1>13, <2>1, ScheduleReads
  <2>6. /\ Stage'[n] = "hot" => clock' + Left'[n] <= phase + 2 * EvalLag
        /\ Stage'[n] = "pending" => clock' + Left'[n] <= phase + 2 * EvalLag + NoticeLag
    BY <1>1, <1>2, <1>3, <1>4, <1>13, <2>2, ScheduleReads
  <2>7. Stage'[n] \in {"hot", "pending"} =>
            /\ phase <= clock'
            /\ Stage'[m] \in {"hot", "pending"} => n = m
            /\ Stage'[m] # "leader"
            /\ Stage'[m] \in {"candidate", "asleep"} => RankIn'[m] # turn
    BY <1>1, <1>2, <1>3, <1>4, <1>13, <2>1, <2>2, ScheduleReads
  <2> QED
    BY <2>3, <2>4, <2>5, <2>6, <2>7
<1>14. ASSUME NEW n \in Nodes, Stage'[n] = "asleep"
       PROVE  /\ Left'[n] > 0 /\ 0 < RankIn'[n] /\ turn <= RankIn'[n]
              /\ Contest!Turn(n, phase, turn)' <= clock' + Left'[n]
              /\ clock' + Left'[n] <= Contest!Turn(n, phase, turn)' + EvalLag
  <2>1. CASE n = s
    BY <1>4, <1>5, <1>6, <1>8, <1>10, <1>12, <2>1
  <2>2. CASE n # s
    <3>1. Stage[n] = "asleep" /\ Left'[n] = Left[n]
      BY <1>7, <1>14, <2>2
    <3>2. Contest!Turn(n, phase, turn)' = Contest!Turn(n, phase, turn)
      BY <1>4, <1>14, TurnFramed
    <3> QED
      BY <1>1, <1>2, <1>3, <1>4, <1>14, <3>1, <3>2, ScheduleReads
  <2> QED
    BY <2>1, <2>2
<1>15. Contest!TurnsFit(phase)
  BY <1>2 DEF Contest!Scheduled
<1>16. Contest!InStep' /\ Contest!Scheduled(phase, turn)'
  BY <1>3, <1>11, <1>13, <1>14, <1>15, ScheduleFromParts
<1>17. \E p \in {0, ConfirmPoll}, t \in 0 .. NodeCount - 1 : Contest!Scheduled(p, t)'
  BY <1>2, <1>16
<1> QED
  BY <1>9, <1>16, <1>17 DEF Contest!OnSchedule

\* The first takes over.
LEMMA AdvanceOnSchedule ==
    ASSUME Contest!Room, Contest!OnSchedule, NEW s \in Nodes, Contest!Advance(s)
    PROVE  Contest!OnSchedule'
<1>1. Contest!TypeOK /\ Contest!InStep
  BY DEF Contest!OnSchedule
<1>2. PICK phase \in {0, ConfirmPoll}, turn \in 0 .. NodeCount - 1 :
          Contest!Scheduled(phase, turn)
  BY DEF Contest!OnSchedule
<1>3. phase \in Nat /\ turn \in Nat
  BY ContestConstants
<1>4. /\ Stage[s] = "candidate" /\ RankIn[s] = 0
      /\ Stage' = [Stage EXCEPT ![s] = "hot"]
      /\ Left' = Left
      /\ Count' = Count /\ RankIn' = RankIn /\ clock' = clock /\ Dark' = Dark
  BY DEF Contest!Advance
<1>5. /\ Stage \in [Nodes -> Contest!Stages] /\ Left \in [Nodes -> Nat]
      /\ RankIn \in [Nodes -> Nat] /\ clock \in Nat
  BY <1>1, ContestConstants DEF Contest!TypeOK
<1>6. \A n \in Nodes : n # s => Stage'[n] = Stage[n]
  BY <1>4, <1>5
<1>7. Stage'[s] = "hot"
  BY <1>4, <1>5
<1>8. Contest!TypeOK'
  BY <1>1, <1>4 DEF Contest!TypeOK, Contest!Stages
<1>9. turn = 0 /\ phase <= clock /\ clock + Left[s] = phase + EvalLag
  BY <1>1, <1>2, <1>3, <1>4, ScheduleReads
<1>10. ASSUME NEW n \in Nodes
       PROVE  /\ Stage[n] \notin {"calm", "hot", "pending", "leader"}
              /\ Stage'[n] # "calm" /\ Stage'[n] # "leader" /\ Stage'[n] # "pending"
              /\ Stage'[n] = "hot" => n = s
  <2>1. Stage[n] # "calm" /\ Stage[n] # "leader"
    <3>1. Stage[n] = "calm" => Stage[s] # "candidate"
      BY <1>1, <1>2, <1>3, <1>10, ScheduleReads
    <3>2. Stage[n] = "leader" => RankIn[s] > 0
      BY <1>1, <1>2, <1>3, <1>4, <1>10, ScheduleReads
    <3> QED
      BY <1>4, <3>1, <3>2
  <2>2. Stage[n] \notin {"hot", "pending"}
    BY <1>1, <1>2, <1>3, <1>4, <1>9, <1>10, ScheduleReads
  <2> QED
    BY <1>6, <1>7, <1>10, <2>1, <2>2
<1>11. clock' + Left'[s] <= phase + 2 * EvalLag
  BY <1>3, <1>4, <1>5, <1>9, ContestConstants
<1>12. ASSUME NEW n \in Nodes, NEW m \in Nodes
       PROVE  /\ Stage'[n] \in {"candidate", "asleep"} => RankIn'[n] < NodeCount
              /\ Stage'[n] \in {"candidate", "asleep"} /\ Stage'[m] \in {"candidate", "asleep"} =>
                     (RankIn'[n] = RankIn'[m] => n = m)
              /\ Stage'[n] = "candidate" =>
                     turn = 0 /\ phase <= clock' /\ clock' + Left'[n] = phase + EvalLag
              /\ Stage'[m] \in {"candidate", "asleep"} => RankIn'[m] # turn
  BY <1>1, <1>2, <1>3, <1>4, <1>6, <1>7, <1>9, <1>12, ScheduleReads
<1>13. ASSUME NEW n \in Nodes, Stage'[n] = "asleep"
       PROVE  /\ Left'[n] > 0 /\ 0 < RankIn'[n] /\ turn <= RankIn'[n]
              /\ Contest!Turn(n, phase, turn)' <= clock' + Left'[n]
              /\ clock' + Left'[n] <= Contest!Turn(n, phase, turn)' + EvalLag
  <2>1. Stage[n] = "asleep"
    BY <1>6, <1>7, <1>13
  <2>2. Contest!Turn(n, phase, turn)' = Contest!Turn(n, phase, turn)
    BY <1>4, <1>13, TurnFramed
  <2> QED
    BY <1>1, <1>2, <1>3, <1>4, <1>13, <2>1, <2>2, ScheduleReads
<1>14. Contest!TurnsFit(phase)
  BY <1>2 DEF Contest!Scheduled
<1>15. phase <= clock'
  BY <1>4, <1>9
<1>16. Contest!InStep' /\ Contest!Scheduled(phase, turn)'
  BY <1>3, <1>10, <1>11, <1>12, <1>13, <1>14, <1>15, ScheduleFromParts
<1>17. \E p \in {0, ConfirmPoll}, t \in 0 .. NodeCount - 1 : Contest!Scheduled(p, t)'
  BY <1>2, <1>16
<1> QED
  BY <1>8, <1>16, <1>17 DEF Contest!OnSchedule

\* A hot node becomes active.
LEMMA WinOnSchedule ==
    ASSUME Contest!Room, Contest!OnSchedule, NEW s \in Nodes, Contest!Win(s)
    PROVE  Contest!OnSchedule'
<1>1. Contest!TypeOK /\ Contest!InStep
  BY DEF Contest!OnSchedule
<1>2. PICK phase \in {0, ConfirmPoll}, turn \in 0 .. NodeCount - 1 :
          Contest!Scheduled(phase, turn)
  BY DEF Contest!OnSchedule
<1>3. phase \in Nat /\ turn \in Nat
  BY ContestConstants
<1>4. /\ Stage[s] = "hot"
      /\ Count' = Count /\ RankIn' = RankIn /\ clock' = clock /\ Dark' = Dark
  BY DEF Contest!Win
<1>5. PICK new \in {"pending", "out"}, t \in 0 .. NoticeLag :
          Stage' = [Stage EXCEPT ![s] = new] /\ Left' = [Left EXCEPT ![s] = t]
  <2>1. 0 \in 0 .. NoticeLag
    BY ContestConstants
  <2> QED
    BY <2>1 DEF Contest!Win
<1>6. /\ Stage \in [Nodes -> Contest!Stages] /\ Left \in [Nodes -> Nat]
      /\ RankIn \in [Nodes -> Nat] /\ clock \in Nat /\ t \in Nat
  BY <1>1, ContestConstants DEF Contest!TypeOK
<1>7. \A n \in Nodes : n # s => Stage'[n] = Stage[n] /\ Left'[n] = Left[n]
  BY <1>5, <1>6
<1>8. Stage'[s] = new /\ Left'[s] = t
  BY <1>5, <1>6
<1>9. Contest!TypeOK'
  BY <1>1, <1>4, <1>5, <1>6 DEF Contest!TypeOK, Contest!Stages
<1>10. phase <= clock /\ clock <= phase + 2 * EvalLag
  <2>1. phase <= clock /\ clock + Left[s] <= phase + 2 * EvalLag
    BY <1>1, <1>2, <1>3, <1>4, ScheduleReads
  <2> QED
    BY <1>3, <1>6, <2>1, ContestConstants
<1>11. ASSUME NEW n \in Nodes
       PROVE  /\ \A k \in {"calm", "candidate", "asleep", "leader"} :
                     Stage'[n] = k => Stage[n] = k /\ Left'[n] = Left[n]
              /\ Stage'[n] # "hot"
              /\ Stage'[n] = "pending" => n = s
              /\ Stage[n] # "leader"
              /\ Stage[n] \in {"candidate", "asleep"} => RankIn[n] # turn
  <2>1. /\ Stage[n] # "leader"
        /\ Stage[n] \in {"candidate", "asleep"} => RankIn[n] # turn
        /\ Stage[n] \in {"hot", "pending"} => n = s
    <3>1. Stage[s] \in {"hot", "pending"} =>
              /\ Stage[n] \in {"hot", "pending"} => s = n
              /\ Stage[n] # "leader"
              /\ Stage[n] \in {"candidate", "asleep"} => RankIn[n] # turn
      BY <1>1, <1>2, <1>3, <1>11, ScheduleReads
    <3> QED
      BY <1>4, <3>1
  <2>2. CASE n = s
    <3>1. Stage'[n] \in {"pending", "out"}
      BY <1>8, <2>2
    <3> QED
      BY <2>1, <2>2, <3>1
  <2>3. CASE n # s
    <3>1. Stage'[n] = Stage[n] /\ Left'[n] = Left[n] /\ Stage[n] \notin {"hot", "pending"}
      BY <1>7, <1>11, <2>1, <2>3
    <3> QED
      BY <2>1, <3>1
  <2> QED
    BY <2>2, <2>3
<1>12. Stage'[s] = "pending" => clock' + Left'[s] <= phase + 2 * EvalLag + NoticeLag
  <2>1. clock + t <= phase + 2 * EvalLag + NoticeLag
    BY <1>3, <1>5, <1>6, <1>10, ContestConstants
  <2> QED
    BY <1>4, <1>8, <2>1
<1>13. ASSUME NEW n \in Nodes, NEW m \in Nodes
       PROVE  /\ Stage'[n] = "calm" =>
                     /\ Left'[n] > 0
                     /\ \/ clock' + Left'[n] \in {PollInterval, 2 * PollInterval}
                        \/ clock' + Left'[n] = ConfirmPoll /\ Count'[n] = Threshold - 1
              /\ Stage'[n] = "calm" /\ Stage'[m] = "calm" =>
                     Count'[n] = Count'[m] /\ Left'[n] = Left'[m]
              /\ Stage'[n] \in {"candidate", "asleep"} => RankIn'[n] < NodeCount
              /\ Stage'[n] \in {"candidate", "asleep"} /\ Stage'[m] \in {"candidate", "asleep"} =>
                     (RankIn'[n] = RankIn'[m] => n = m)
              /\ Stage'[n] # "leader"
              /\ ~ (/\ Stage'[n] = "calm" /\ Stage'[m] = "asleep" /\ Count'[n] > 0
                    /\ Left'[m] < Left'[n])
  <2>1. Stage'[n] = "calm" =>
            /\ Left'[n] > 0
            /\ \/ clock' + Left'[n] \in {PollInterval, 2 * PollInterval}
               \/ clock' + Left'[n] = ConfirmPoll /\ Count'[n] = Threshold - 1
    <3>1. Stage'[n] = "calm" =>
              /\ Stage[n] = "calm" /\ Left'[n] = Left[n] /\ Count'[n] = Count[n]
              /\ clock' = clock
      BY <1>4, <1>11, <1>13
    <3>2. Stage[n] = "calm" =>
              /\ Left[n] > 0
              /\ \/ clock + Left[n] \in {PollInterval, 2 * PollInterval}
                 \/ clock + Left[n] = ConfirmPoll /\ Count[n] = Threshold - 1
      BY <1>1, <1>2, <1>3, <1>13, ScheduleReads
    <3> QED
      BY <3>1, <3>2
  <2>2. Stage'[n] = "calm" /\ Stage'[m] = "calm" =>
            Count'[n] = Count'[m] /\ Left'[n] = Left'[m]
    BY <1>1, <1>2, <1>3, <1>4, <1>11, <1>13, ScheduleReads
  <2>3. Stage'[n] \in {"candidate", "asleep"} =>
            Stage[n] \in {"candidate", "asleep"} /\ RankIn'[n] = RankIn[n]
    BY <1>4, <1>11, <1>13
  <2>4. Stage'[m] \in {"candidate", "asleep"} =>
            Stage[m] \in {"candidate", "asleep"} /\ RankIn'[m] = RankIn[m]
    BY <1>4, <1>11, <1>13
  <2>5. /\ Stage'[n] \in {"candidate", "asleep"} => RankIn'[n] < NodeCount
        /\ Stage'[n] \in {"candidate", "asleep"} /\ Stage'[m] \in {"candidate", "asleep"} =>
               (RankIn'[n] = RankIn'[m] => n = m)
    BY <1>1, <1>2, <1>3, <1>13, <2>3, <2>4, ScheduleReads
  <2>6. Stage'[n] # "leader"
    BY <1>11, <1>13
  <2>7. ~ (/\ Stage'[n] = "calm" /\ Stage'[m] = "asleep" /\ Count'[n] > 0
           /\ Left'[m] < Left'[n])
    <3>1. ~ (/\ Stage[n] = "calm" /\ Stage[m] = "asleep" /\ Count[n] > 0
             /\ Left[m] < Left[n])
      BY <1>1, <1>2, <1>3, <1>4, <1>13, ScheduleReads
    <3> QED
      BY <1>4, <1>11, <1>13, <3>1
  <2> QED
    BY <2>1, <2>2, <2>5, <2>6, <2>7
<1>14. ASSUME NEW n \in Nodes, NEW m \in Nodes
       PROVE  /\ Stage'[n] = "candidate" =>
                     turn = 0 /\ phase <= clock' /\ clock' + Left'[n] = phase + EvalLag
              /\ Stage'[n] = "asleep" =>
                     /\ Left'[n] > 0 /\ 0 < RankIn'[n] /\ turn <= RankIn'[n]
                     /\ Contest!Turn(n, phase, turn)' <= clock' + Left'[n]
                     /\ clock' + Left'[n] <= Contest!Turn(n, phase, turn)' + EvalLag
              /\ Stage'[n] = "hot" => clock' + Left'[n] <= phase + 2 * EvalLag
              /\ Stage'[n] = "pending" => clock' + Left'[n] <= phase + 2 * EvalLag + NoticeLag
              /\ Stage'[n] \in {"hot", "pending"} =>
                     /\ phase <= clock'
                     /\ Stage'[m] \in {"hot", "pending"} => n = m
                     /\ Stage'[m] # "leader"
                     /\ Stage'[m] \in {"candidate", "asleep"} => RankIn'[m] # turn
  <2>1. Stage'[n] = "candidate" =>
            turn = 0 /\ phase <= clock' /\ clock' + Left'[n] = phase + EvalLag
    BY <1>1, <1>2, <1>3, <1>4, <1>11, <1>14, ScheduleReads
  <2>2. Stage'[n] = "asleep" =>
            /\ Left'[n] > 0 /\ 0 < RankIn'[n] /\ turn <= RankIn'[n]
            /\ Contest!Turn(n, phase, turn)' <= clock' + Left'[n]
            /\ clock' + Left'[n] <= Contest!Turn(n, phase, turn)' + EvalLag
    <3>1. Contest!Turn(n, phase, turn)' = Contest!Turn(n, phase, turn)
      BY <1>4, <1>14, TurnFramed
    <3> QED
      BY <1>1, <1>2, <1>3, <1>4, <1>11, <1>14, <3>1, ScheduleReads
  <2>3. Stage'[n] # "hot" /\ (Stage'[n] = "pending" => n = s)
        /\ Stage'[m] # "hot" /\ (Stage'[m] = "pending" => m = s)
        /\ Stage'[m] # "leader"
    BY <1>11, <1>14
  <2>4. Stage'[m] \in {"candidate", "asleep"} => RankIn'[m] # turn
    BY <1>4, <1>11, <1>14
  <2> QED
    BY <1>4, <1>10, <1>12, <2>1, <2>2, <2>3, <2>4
<1>15. ASSUME NEW n \in Nodes, Stage'[n] = "calm", NEW m \in Nodes
       PROVE  /\ Stage'[m] # "candidate"
              /\ clock' + Left'[n] > PollInterval =>
                     Stage'[m] \notin {"candidate", "asleep", "hot", "pending"}
              /\ Stage'[m] = "asleep" =>
                     Contest!Turn(m, phase, turn)' + 2 * EvalLag + NoticeLag
                         < Contest!Nomination(n)'
              /\ Stage'[m] \in {"hot", "pending"} =>
                     phase + 2 * EvalLag + NoticeLag < Contest!Nomination(n)'
  <2>1. Stage[n] = "calm" /\ Left'[n] = Left[n]
    BY <1>11, <1>15
  <2>2. Contest!Nomination(n)' = Contest!Nomination(n)
    BY <1>4, <1>15, <2>1, NominationFramed
  <2>3. Contest!Turn(m, phase, turn)' = Contest!Turn(m, phase, turn)
    BY <1>4, <1>15, TurnFramed
  <2>4. /\ ~(clock + Left[n] > PollInterval)
        /\ phase + 2 * EvalLag + NoticeLag < Contest!Nomination(n)
    BY <1>1, <1>2, <1>3, <1>4, <1>15, <2>1, ScheduleReads
  <2>5. /\ Stage[m] # "candidate"
        /\ Stage[m] = "asleep" =>
               Contest!Turn(m, phase, turn) + 2 * EvalLag + NoticeLag < Contest!Nomination(n)
    BY <1>1, <1>2, <1>3, <1>15, <2>1, ScheduleReads
  <2>6. /\ Stage'[m] = "candidate" => Stage[m] = "candidate"
        /\ Stage'[m] = "asleep" => Stage[m] = "asleep"
    BY <1>11, <1>15
  <2> QED
    BY <1>4, <2>1, <2>2, <2>3, <2>4, <2>5, <2>6
<1>16. Contest!TurnsFit(phase)
  BY <1>2 DEF Contest!Scheduled
<1>17. Contest!InStep' /\ Contest!Scheduled(phase, turn)'
  BY <1>3, <1>13, <1>14, <1>15, <1>16, ScheduleFromParts
<1>18. \E p \in {0, ConfirmPoll}, k \in 0 .. NodeCount - 1 : Contest!Scheduled(p, k)'
  BY <1>2, <1>17
<1> QED
  BY <1>9, <1>17, <1>18 DEF Contest!OnSchedule

\* Gossip and votes catch up, and nodes drop out; doing nothing is a way of it.
LEMMA SettleOnSchedule ==
    ASSUME Contest!Room, Contest!OnSchedule, Contest!Settle
    PROVE  Contest!OnSchedule'
<1>1. Contest!TypeOK /\ Contest!InStep
  BY DEF Contest!OnSchedule
<1>2. PICK phase \in {0, ConfirmPoll}, turn \in 0 .. NodeCount - 1 :
          Contest!Scheduled(phase, turn)
  BY DEF Contest!OnSchedule
<1>3. phase \in Nat /\ turn \in Nat
  BY ContestConstants
<1>4. /\ Stage \in [Nodes -> Contest!Stages] /\ Left \in [Nodes -> Nat]
      /\ Count \in [Nodes -> 0 .. Threshold - 1]
      /\ RankIn \in [Nodes -> Nat] /\ clock \in Nat
      /\ clock \in 0 .. PollInterval - 1
  BY <1>1, ContestConstants DEF Contest!TypeOK
<1>5. /\ Stage' \in [Nodes -> Contest!Stages] /\ Left' \in [Nodes -> Nat]
      /\ Dark' \in BOOLEAN /\ RankIn' = RankIn /\ clock' = clock
      /\ Count' = [n \in Nodes |-> IF Stage'[n] = "calm" THEN Count[n] ELSE 0]
      /\ Dark /\ ~Dark' => \E n \in Nodes : Stage[n] \in {"pending", "leader"}
  BY DEF Contest!Settle, Contest!At
<1>6. ASSUME NEW n \in Nodes
      PROVE  /\ \A k \in {"calm", "candidate", "asleep", "hot"} :
                    Stage'[n] = k => Stage[n] = k /\ Left'[n] = Left[n]
             /\ Stage'[n] = "pending" => Stage[n] = "pending" /\ Left'[n] <= Left[n]
             /\ Stage'[n] = "leader" => Stage[n] \in {"pending", "leader"} /\ ~Dark'
             /\ Stage'[n] = "calm" => Count'[n] = Count[n]
             /\ RankIn'[n] = RankIn[n]
  <2>1. /\ Stage'[n] \in Contest!Fates(Stage[n])
        /\ Stage'[n] = "leader" => ~Dark'
        /\ CASE Stage'[n] = "pending"          -> Left'[n] <= Left[n]
             [] Stage'[n] \in {"out", "leader"} -> Left'[n] = 0
             [] OTHER                           -> Left'[n] = Left[n]
    BY <1>6 DEF Contest!Settle
  <2>2. /\ Stage[n] = "pending" => Stage'[n] \in {"pending", "leader", "out"}
        /\ Stage[n] \in {"calm", "leader"} => Stage'[n] \in {Stage[n], "out"}
        /\ Stage[n] \notin {"pending", "calm", "leader"} => Stage'[n] = Stage[n]
    BY <2>1 DEF Contest!Fates
  <2>3. /\ Stage'[n] \in {"calm", "candidate", "asleep", "hot"} => Left'[n] = Left[n]
        /\ Stage'[n] = "pending" => Left'[n] <= Left[n]
    BY <2>1
  <2> QED
    BY <1>4, <1>5, <1>6, <2>1, <2>2, <2>3 DEF Contest!Stages
<1>7. Contest!TypeOK'
  <2>1. Count' \in [Nodes -> 0 .. Threshold - 1]
    BY <1>4, <1>5, ContestConstants
  <2> QED
    BY <1>4, <1>5, <2>1 DEF Contest!TypeOK
<1>8. ASSUME NEW n \in Nodes, NEW m \in Nodes
      PROVE  /\ Stage'[n] = "calm" =>
                    /\ Left'[n] > 0
                    /\ \/ clock' + Left'[n] \in {PollInterval, 2 * PollInterval}
                       \/ clock' + Left'[n] = ConfirmPoll /\ Count'[n] = Threshold - 1
             /\ Stage'[n] = "calm" /\ Stage'[m] = "calm" =>
                    Count'[n] = Count'[m] /\ Left'[n] = Left'[m]
             /\ Stage'[n] \in {"candidate", "asleep"} => RankIn'[n] < NodeCount
             /\ Stage'[n] \in {"candidate", "asleep"} /\ Stage'[m] \in {"candidate", "asleep"} =>
                    (RankIn'[n] = RankIn'[m] => n = m)
             /\ Stage'[n] = "leader" =>
                    /\ ~Dark' /\ (Stage'[m] = "leader" => n = m)
                    /\ Stage'[m] = "candidate" => RankIn'[m] > 0
             /\ (Stage'[n] = "calm" /\ Stage'[m] = "asleep" /\ Count'[n] > 0
                    /\ Left'[m] < Left'[n]) =>
                    Dark' /\ \A k \in Nodes : Stage'[k] \notin {"hot", "pending"}
  <2>1. Stage'[n] = "calm" =>
            /\ Left'[n] > 0
            /\ \/ clock' + Left'[n] \in {PollInterval, 2 * PollInterval}
               \/ clock' + Left'[n] = ConfirmPoll /\ Count'[n] = Threshold - 1
    BY <1>1, <1>2, <1>3, <1>5, <1>6, <1>8, ScheduleReads
  <2>2. Stage'[n] = "calm" /\ Stage'[m] = "calm" =>
            Count'[n] = Count'[m] /\ Left'[n] = Left'[m]
    BY <1>1, <1>2, <1>3, <1>6, <1>8, ScheduleReads
  <2>3. Stage'[n] \in {"candidate", "asleep"} =>
            Stage[n] \in {"candidate", "asleep"} /\ RankIn'[n] = RankIn[n]
    BY <1>6, <1>8
  <2>4. Stage'[m] \in {"candidate", "asleep"} =>
            Stage[m] \in {"candidate", "asleep"} /\ RankIn'[m] = RankIn[m]
    BY <1>6, <1>8
  <2>5. /\ Stage'[n] \in {"candidate", "asleep"} => RankIn'[n] < NodeCount
        /\ Stage'[n] \in {"candidate", "asleep"} /\ Stage'[m] \in {"candidate", "asleep"} =>
               (RankIn'[n] = RankIn'[m] => n = m)
    BY <1>1, <1>2, <1>3, <1>8, <2>3, <2>4, ScheduleReads
  <2>6. Stage'[n] = "leader" =>
            /\ ~Dark' /\ (Stage'[m] = "leader" => n = m)
            /\ Stage'[m] = "candidate" => RankIn'[m] > 0
    <3> SUFFICES ASSUME Stage'[n] = "leader"
                 PROVE  /\ ~Dark' /\ (Stage'[m] = "leader" => n = m)
                        /\ Stage'[m] = "candidate" => RankIn'[m] > 0
      OBVIOUS
    <3>1. Stage[n] \in {"pending", "leader"} /\ ~Dark'
      BY <1>6, <1>8
    <3>2. Stage'[m] = "leader" => Stage[m] \in {"pending", "leader"}
      BY <1>6, <1>8
    <3>3. Stage[m] \in {"pending", "leader"} => n = m
      BY <1>1, <1>2, <1>3, <1>8, <3>1, ScheduleReads
    <3>4. Stage[m] = "candidate" => RankIn[m] > 0
      <4>1. Stage[n] = "leader" /\ Stage[m] = "candidate" => RankIn[m] > 0
        BY <1>1, <1>2, <1>3, <1>8, ScheduleReads
      <4>2. Stage[n] = "pending" /\ Stage[m] = "candidate" => RankIn[m] # turn /\ turn = 0
        BY <1>1, <1>2, <1>3, <1>8, ScheduleReads
      <4> QED
        BY <1>4, <1>8, <3>1, <4>1, <4>2
    <3> QED
      BY <1>6, <1>8, <3>1, <3>2, <3>3, <3>4
  <2>7. ASSUME Stage'[n] = "calm", Stage'[m] = "asleep", Count'[n] > 0, Left'[m] < Left'[n]
        PROVE  Dark' /\ \A k \in Nodes : Stage'[k] \notin {"hot", "pending"}
    <3>1. /\ Stage[n] = "calm" /\ Stage[m] = "asleep"
          /\ Count'[n] = Count[n] /\ Left'[n] = Left[n] /\ Left'[m] = Left[m]
      BY <1>6, <1>8, <2>7
    <3>2. Count[n] > 0 /\ Left[m] < Left[n]
      BY <2>7, <3>1
    <3>3. Dark /\ \A k \in Nodes : Stage[k] \notin {"hot", "pending"}
      BY <1>1, <1>2, <1>3, <1>8, <3>1, <3>2, ScheduleReads
    <3>4. ASSUME NEW k \in Nodes PROVE Stage[k] # "leader"
      BY <1>1, <1>2, <1>3, <3>3, <3>4, ScheduleReads
    <3>5. Dark'
      BY <1>5, <3>3, <3>4
    <3> QED
      BY <1>6, <3>3, <3>5
  <2> QED
    BY <2>1, <2>2, <2>5, <2>6, <2>7
<1>9. ASSUME NEW n \in Nodes, NEW m \in Nodes
      PROVE  /\ Stage'[n] = "candidate" =>
                    turn = 0 /\ phase <= clock' /\ clock' + Left'[n] = phase + EvalLag
             /\ Stage'[n] = "asleep" =>
                    /\ Left'[n] > 0 /\ 0 < RankIn'[n] /\ turn <= RankIn'[n]
                    /\ Contest!Turn(n, phase, turn)' <= clock' + Left'[n]
                    /\ clock' + Left'[n] <= Contest!Turn(n, phase, turn)' + EvalLag
             /\ Stage'[n] = "hot" => clock' + Left'[n] <= phase + 2 * EvalLag
             /\ Stage'[n] = "pending" => clock' + Left'[n] <= phase + 2 * EvalLag + NoticeLag
             /\ Stage'[n] \in {"hot", "pending"} =>
                    /\ phase <= clock'
                    /\ Stage'[m] \in {"hot", "pending"} => n = m
                    /\ Stage'[m] # "leader"
                    /\ Stage'[m] \in {"candidate", "asleep"} => RankIn'[m] # turn
  <2>1. Stage'[n] = "candidate" =>
            turn = 0 /\ phase <= clock' /\ clock' + Left'[n] = phase + EvalLag
    BY <1>1, <1>2, <1>3, <1>5, <1>6, <1>9, ScheduleReads
  <2>2. Stage'[n] = "asleep" =>
            /\ Left'[n] > 0 /\ 0 < RankIn'[n] /\ turn <= RankIn'[n]
            /\ Contest!Turn(n, phase, turn)' <= clock' + Left'[n]
            /\ clock' + Left'[n] <= Contest!Turn(n, phase, turn)' + EvalLag
    <3>1. Contest!Turn(n, phase, turn)' = Contest!Turn(n, phase, turn)
      BY <1>6, <1>9, TurnFramed
    <3> QED
      BY <1>1, <1>2, <1>3, <1>5, <1>6, <1>9, <3>1, ScheduleReads
  <2>3. Stage'[n] = "hot" => clock' + Left'[n] <= phase + 2 * EvalLag
    BY <1>1, <1>2, <1>3, <1>5, <1>6, <1>9, ScheduleReads
  <2>4. Stage'[n] = "pending" => clock' + Left'[n] <= phase + 2 * EvalLag + NoticeLag
    <3> SUFFICES ASSUME Stage'[n] = "pending"
                 PROVE  clock' + Left'[n] <= phase + 2 * EvalLag + NoticeLag
      OBVIOUS
    <3>1. Stage[n] = "pending" /\ Left'[n] <= Left[n]
      BY <1>6, <1>9
    <3>2. clock + Left[n] <= phase + 2 * EvalLag + NoticeLag
      BY <1>1, <1>2, <1>3, <1>9, <3>1, ScheduleReads
    <3> DEFINE new == Left'[n]
    <3>3. new \in Nat /\ new <= Left[n] /\ Left[n] \in Nat
      BY <1>4, <1>5, <1>9, <3>1
    <3> HIDE DEF new
    <3>4. clock + new <= phase + 2 * EvalLag + NoticeLag
      BY <1>3, <1>4, <3>2, <3>3, ContestConstants
    <3> QED
      BY <1>5, <3>4 DEF new
  <2>5. Stage'[n] \in {"hot", "pending"} =>
            /\ phase <= clock'
            /\ Stage'[m] \in {"hot", "pending"} => n = m
            /\ Stage'[m] # "leader"
            /\ Stage'[m] \in {"candidate", "asleep"} => RankIn'[m] # turn
    <3> SUFFICES ASSUME Stage'[n] \in {"hot", "pending"}
                 PROVE  /\ phase <= clock'
                        /\ Stage'[m] \in {"hot", "pending"} => n = m
                        /\ Stage'[m] # "leader"
                        /\ Stage'[m] \in {"candidate", "asleep"} => RankIn'[m] # turn
      OBVIOUS
    <3>1. Stage[n] \in {"hot", "pending"}
      BY <1>6, <1>9
    <3>2. /\ phase <= clock
          /\ Stage[m] \in {"hot", "pending"} => n = m
          /\ Stage[m] # "leader"
          /\ Stage[m] \in {"candidate", "asleep"} => RankIn[m] # turn
      BY <1>1, <1>2, <1>3, <1>9, <3>1, ScheduleReads
    <3>3. /\ Stage'[m] \in {"hot", "pending"} => Stage[m] \in {"hot", "pending"}
          /\ Stage'[m] = "leader" => Stage[m] \in {"pending", "leader"}
          /\ Stage'[m] \in {"candidate", "asleep"} =>
                 Stage[m] \in {"candidate", "asleep"} /\ RankIn'[m] = RankIn[m]
      BY <1>6, <1>9
    <3>4. Stage'[m] # "leader"
      BY <3>2, <3>3
    <3> QED
      BY <1>5, <3>2, <3>3, <3>4
  <2> QED
    BY <2>1, <2>2, <2>3, <2>4, <2>5
<1>10. ASSUME NEW n \in Nodes, Stage'[n] = "calm", NEW m \in Nodes
       PROVE  /\ Stage'[m] # "candidate"
              /\ clock' + Left'[n] > PollInterval =>
                     Stage'[m] \notin {"candidate", "asleep", "hot", "pending"}
              /\ Stage'[m] = "asleep" =>
                     Contest!Turn(m, phase, turn)' + 2 * EvalLag + NoticeLag
                         < Contest!Nomination(n)'
              /\ Stage'[m] \in {"hot", "pending"} =>
                     phase + 2 * EvalLag + NoticeLag < Contest!Nomination(n)'
  <2>1. Stage[n] = "calm" /\ Left'[n] = Left[n] /\ Count'[n] = Count[n]
    BY <1>6, <1>10
  <2>2. Contest!Nomination(n)' = Contest!Nomination(n)
    BY <1>5, <1>10, <2>1, NominationFramed
  <2>3. Contest!Turn(m, phase, turn)' = Contest!Turn(m, phase, turn)
    BY <1>6, <1>10, TurnFramed
  <2>4. /\ Stage[m] # "candidate"
        /\ clock + Left[n] > PollInterval =>
               Stage[m] \notin {"candidate", "asleep", "hot", "pending"}
        /\ Stage[m] = "asleep" =>
               Contest!Turn(m, phase, turn) + 2 * EvalLag + NoticeLag < Contest!Nomination(n)
        /\ Stage[m] \in {"hot", "pending"} =>
               phase + 2 * EvalLag + NoticeLag < Contest!Nomination(n)
    BY <1>1, <1>2, <1>3, <1>10, <2>1, ScheduleReads
  <2>5. \A k \in {"candidate", "asleep", "hot", "pending"} : Stage'[m] = k => Stage[m] = k
    BY <1>6, <1>10
  <2> QED
    BY <1>5, <2>1, <2>2, <2>3, <2>4, <2>5
<1>11. Contest!TurnsFit(phase)
  BY <1>2 DEF Contest!Scheduled
<1>12. Contest!InStep' /\ Contest!Scheduled(phase, turn)'
  BY <1>3, <1>8, <1>9, <1>10, <1>11, ScheduleFromParts
<1>13. \E p \in {0, ConfirmPoll}, k \in 0 .. NodeCount - 1 : Contest!Scheduled(p, k)'
  BY <1>2, <1>12
<1> QED
  BY <1>7, <1>12, <1>13 DEF Contest!OnSchedule

\* The contest begins on schedule.
LEMMA InitOnSchedule ==
    ASSUME Contest!Room, Contest!Init
    PROVE  Contest!OnSchedule
<1>1. /\ Stage \in [Nodes -> {"out", "calm", "leader"}]
      /\ \A n, m \in Nodes : Stage[n] = "leader" /\ Stage[m] = "leader" => n = m
      /\ Dark \in BOOLEAN /\ \A n \in Nodes : Stage[n] = "leader" => ~Dark
      /\ Count = [n \in Nodes |-> IF Stage[n] = "calm" /\ Dark THEN 1 ELSE 0]
      /\ Left = [n \in Nodes |-> IF Stage[n] = "calm" THEN 2 * PollInterval ELSE 0]
      /\ RankIn = [n \in Nodes |-> 0]
      /\ clock = 0
  BY DEF Contest!Init, Contest!At
<1>2. Contest!TypeOK
  <2>1. 2 * PollInterval \in Nat /\ 1 \in 0 .. Threshold - 1 /\ 0 \in 0 .. Threshold - 1
        /\ 0 \in 0 .. PollInterval - 1
    BY ContestConstants DEF Contest!Room
  <2>2. /\ Stage \in [Nodes -> Contest!Stages] /\ Left \in [Nodes -> Nat]
        /\ Count \in [Nodes -> 0 .. Threshold - 1] /\ RankIn \in [Nodes -> Nat]
    BY <1>1, <2>1 DEF Contest!Stages
  <2> QED
    BY <1>1, <2>1, <2>2 DEF Contest!TypeOK
<1>3. \A n \in Nodes : /\ Stage[n] \in {"out", "calm", "leader"}
                       /\ Stage[n] = "calm" => Left[n] = 2 * PollInterval
                       /\ Count[n] = IF Stage[n] = "calm" /\ Dark THEN 1 ELSE 0
  BY <1>1
<1>4. Contest!Ranked = {} /\ Contest!Busy = {} /\ Contest!At("candidate") = {}
      /\ Contest!At("asleep") = {} /\ Contest!At("hot") = {} /\ Contest!At("pending") = {}
  BY <1>3 DEF Contest!Ranked, Contest!Busy, Contest!At
<1>5. Contest!CalmOnTime
  <2>1. \A n \in Contest!At("calm") : Left[n] = 2 * PollInterval
    BY <1>3 DEF Contest!At
  <2> QED
    BY <1>1, <2>1, ContestConstants DEF Contest!CalmOnTime, Contest!Until
<1>6. Contest!CalmAgree
  BY <1>3 DEF Contest!CalmAgree, Contest!At
<1>7. Contest!InStep
  BY <1>1, <1>4, <1>5, <1>6 DEF Contest!InStep, Contest!RanksApart, Contest!LeaderAlone,
     Contest!CalmNotSurprised, Contest!At
<1>8. Contest!TurnsFit(0)
  BY ContestConstants DEF Contest!TurnsFit, Contest!Room
<1>9. Contest!Scheduled(0, 0)
  BY <1>4, <1>8 DEF Contest!Scheduled, Contest!CandidateOnTime, Contest!AsleepOnTime,
     Contest!BusyOnTime, Contest!BusyAlone, Contest!CalmLater
<1>10. 0 \in 0 .. NodeCount - 1
  BY ContestConstants
<1>11. \E p \in {0, ConfirmPoll}, k \in 0 .. NodeCount - 1 : Contest!Scheduled(p, k)
  BY <1>9, <1>10
<1> QED
  BY <1>2, <1>7, <1>11 DEF Contest!OnSchedule

\* Steps of the contest keep its schedule.
LEMMA ContestSteps ==
    ASSUME Contest!Room, Contest!OnSchedule, [Contest!Next]_(Contest!contest)
    PROVE  Contest!OnSchedule'
<1>1. CASE Contest!Tick
  BY <1>1, TickOnSchedule
<1>2. ASSUME NEW n \in Nodes, Contest!Sleep(n) PROVE Contest!OnSchedule'
  BY <1>2, SleepOnSchedule
<1>3. ASSUME NEW n \in Nodes, Contest!Advance(n) PROVE Contest!OnSchedule'
  BY <1>3, AdvanceOnSchedule
<1>4. ASSUME NEW n \in Nodes, Contest!Win(n) PROVE Contest!OnSchedule'
  BY <1>4, WinOnSchedule
<1>5. CASE Contest!Settle
  BY <1>5, SettleOnSchedule
<1>6. CASE UNCHANGED Contest!contest
  BY <1>6 DEF Contest!contest, Contest!OnSchedule, Contest!TypeOK, Contest!InStep,
     Contest!CalmOnTime, Contest!CalmAgree, Contest!RanksApart, Contest!LeaderAlone,
     Contest!CalmNotSurprised, Contest!Scheduled, Contest!TurnsFit, Contest!CandidateOnTime,
     Contest!AsleepOnTime, Contest!BusyOnTime, Contest!BusyAlone, Contest!CalmLater,
     Contest!At, Contest!Ranked, Contest!Busy, Contest!Until, Contest!Turn, Contest!Nomination
<1> QED
  BY <1>1, <1>2, <1>3, <1>4, <1>5, <1>6 DEF Contest!Next

\* A schedule leaves room for one.
LEMMA OnScheduleExclusive ==
    ASSUME Contest!OnSchedule
    PROVE  Contest!Exclusive
<1>1. PICK phase \in {0, ConfirmPoll}, turn \in 0 .. NodeCount - 1 :
          Contest!Scheduled(phase, turn)
  BY DEF Contest!OnSchedule
<1>2. Contest!LeaderAlone /\ Contest!BusyAlone(turn)
  BY <1>1 DEF Contest!OnSchedule, Contest!InStep, Contest!Scheduled
<1> QED
  BY <1>2 DEF Contest!LeaderAlone, Contest!BusyAlone, Contest!Exclusive

\* The contest has at most one winner at a time: the spacing of the delays, the
\* look before a takeover and the reset of the count keep everyone else away
\* (delayTakeoverAsActive, revalidateLeaderlessBeforeTakeover, Refresh).
THEOREM ContestExclusive == Contest!Room /\ Contest!Spec => []Contest!Exclusive
<1> SUFFICES ASSUME Contest!Room PROVE Contest!Spec => []Contest!Exclusive
  OBVIOUS
<1>1. Contest!Init => Contest!OnSchedule
  BY InitOnSchedule
<1>2. Contest!OnSchedule /\ [Contest!Next]_(Contest!contest) => Contest!OnSchedule'
  BY ContestSteps
<1>3. Contest!OnSchedule => Contest!Exclusive
  BY OnScheduleExclusive
<1> QED
  BY <1>1, <1>2, <1>3, PTL DEF Contest!Spec

---------------------------------------------------------------------------
(* What the managers and the cluster are like as long as nodes only drop    *)
(* out.                                                                     *)

\* No RPC fails, nobody restarts, no record is borrowed, and every notice keeps
\* its bound.
Undisturbed ==
    /\ \A n \in Nodes : localRpc[n] /\ clusterRpc[n] /\ pc[n] # "down"
    /\ \A h \in Hosts : ghost[h] = "no"
    /\ adverts[Stranger] = {} /\ votes \in {"current", "delinquent"}
    /\ (\A n \in Nodes : lag[n] <= GossipLag) /\ voteLag <= VoteLag

\* What gossip shows of a node that is linked, and what a manager on its way to
\* become active, or passive, relies on.
ContenderAt(n) ==
    /\ linked[n] /\ identity[n] = "passive" => adverts[n] = {"passive"}
    /\ linked[n] /\ identity[n] = "active" =>
           /\ pc[n] = "idle"
           /\ ~Shown(n) => clock + wait[n] = PollInterval
    /\ pc[n] \in StandDown => ~linked[n] /\ "passive" \notin adverts[n]
    /\ pc[n] \in {"sleeping"} \cup Takeover => identity[n] = "passive" /\ Capable(n)
    /\ pc[n] = "streak" => healthy[n]
    /\ pc[n] = "identity" => Capable(n)
    /\ pc[n] \in Candidacy => n \in gs[n].seen

ContenderInv == IInv /\ Undisturbed /\ \A n \in Nodes : ContenderAt(n)

\* What the contest sees of n.
Looks(n, s, l, c, r) == Stage[n] = s /\ Left[n] = l /\ Count[n] = c /\ RankIn[n] = r

\* The delay armPollTimer sets.
PollDelay(view) ==
    IF FastPolling /\ view.count = Threshold - 1 THEN ConfirmPoll ELSE NextBoundary

\* What the contest sees of n, by where its manager is.
LooksRight(n) ==
    /\ identity[n] = "active" /\ ~linked[n] => Looks(n, "out", 0, 0, 0)
    /\ identity[n] = "active" /\ linked[n] /\ Shown(n) => Looks(n, "leader", 0, 0, 0)
    /\ identity[n] = "active" /\ linked[n] /\ ~Shown(n) =>
           Looks(n, "pending", Unnoticed(n), 0, 0)
    /\ identity[n] # "active" /\ ~Capable(n) => Looks(n, "out", 0, 0, 0)
    /\ identity[n] # "active" /\ Capable(n) =>
           /\ pc[n] = "idle" /\ "passive" \notin adverts[n] => Looks(n, "out", 0, 0, 0)
           /\ pc[n] \in StandDown => Looks(n, "out", 0, 0, 0)
           /\ pc[n] = "idle" /\ "passive" \in adverts[n] /\ wait[n] # 0 =>
                  Looks(n, "calm", wait[n], gs[n].count, 0)
           /\ (pc[n] = "idle" /\ "passive" \in adverts[n] /\ wait[n] = 0
                  /\ Known(n).count >= Threshold) =>
                  Looks(n, "candidate", EvalLag, 0, RankAmong(n, Known(n)))
           /\ (pc[n] = "idle" /\ "passive" \in adverts[n] /\ wait[n] = 0
                  /\ ~(Known(n).count >= Threshold)) =>
                  Looks(n, "calm", PollDelay(Known(n)), Known(n).count, 0)
           /\ pc[n] \in Candidacy =>
                  Looks(n, "candidate", wait[n], 0, RankAmong(n, gs[n]))
           /\ pc[n] = "sleeping" /\ wait[n] # 0 =>
                  Looks(n, "asleep", wait[n], 0, RankAmong(n, gs[n]))
           /\ pc[n] = "sleeping" /\ wait[n] = 0 /\ Known(n).count > 0 =>
                  Looks(n, "hot", EvalLag, 0, 0)
           /\ pc[n] = "sleeping" /\ wait[n] = 0 /\ ~(Known(n).count > 0) =>
                  Looks(n, "calm", PollDelay(Known(n)), Known(n).count, 0)
           /\ pc[n] \in Takeover => Looks(n, "hot", wait[n], 0, 0)

---------------------------------------------------------------------------
(* The mapping. *)

\* The mapping, case by case.
LEMMA LooksNow ==
    TypeOK /\ (\A n \in Nodes : pc[n] # "down") => \A n \in Nodes : LooksRight(n)
<1> SUFFICES ASSUME TypeOK, NEW n \in Nodes, pc[n] # "down" PROVE LooksRight(n)
  OBVIOUS
<1> USE DEF LooksRight, Candidacy, Takeover, StandDown
<1>0. /\ Stage[n] = StageOf(n) /\ Left[n] = LeftOf(n)
      /\ Count[n] = CountOf(n) /\ RankIn[n] = RankOf(n)
  BY DEF Stage, Left, Count, RankIn
<1>1. CASE identity[n] = "active"
  BY <1>0, <1>1 DEF StageOf, LeftOf, CountOf, RankOf, Looks
<1>2. CASE identity[n] # "active" /\ ~Capable(n)
  BY <1>0, <1>2 DEF StageOf, LeftOf, CountOf, RankOf, Looks
<1>3. CASE identity[n] # "active" /\ Capable(n)
  <2>1. StageOf(n) = ContenderStage(n)
    BY <1>3 DEF StageOf
  <2>2. /\ wait[n] # 0 \/ pc[n] \notin {"idle", "sleeping"} => ~Due(n) /\ Known(n) = gs[n]
        /\ wait[n] = 0 /\ pc[n] \in {"idle", "sleeping"} => Due(n)
    BY DEF Due, Known
  <2>3. CASE pc[n] = "idle"
    <3>1. StageOf(n) = IF "passive" \in adverts[n]
                       THEN IF Due(n) /\ Known(n).count >= Threshold THEN "candidate" ELSE "calm"
                       ELSE "out"
      BY <2>1, <2>3 DEF ContenderStage
    <3> QED
      BY <1>0, <1>3, <2>2, <2>3, <3>1 DEF LeftOf, CountOf, RankOf, Looks, PollDelay
  <2>4. CASE pc[n] = "sleeping"
    <3>1. StageOf(n) = IF ~Due(n) THEN "asleep" ELSE IF Known(n).count > 0 THEN "hot" ELSE "calm"
      BY <2>1, <2>4 DEF ContenderStage
    <3> QED
      BY <1>0, <1>3, <2>2, <2>4, <3>1 DEF LeftOf, CountOf, RankOf, Looks, PollDelay
  <2>5. CASE pc[n] \in Candidacy
    <3>1. StageOf(n) = "candidate"
      BY <2>1, <2>5 DEF ContenderStage
    <3> QED
      BY <1>0, <1>3, <2>2, <2>5, <3>1 DEF LeftOf, CountOf, RankOf, Looks
  <2>6. CASE pc[n] \in Takeover
    <3>1. StageOf(n) = "hot"
      BY <2>1, <2>6 DEF ContenderStage
    <3> QED
      BY <1>0, <1>3, <2>2, <2>6, <3>1 DEF LeftOf, CountOf, RankOf, Looks
  <2>7. CASE pc[n] \in StandDown
    <3>1. StageOf(n) = "out"
      BY <2>1, <2>7 DEF ContenderStage
    <3> QED
      BY <1>0, <1>3, <2>2, <2>7, <3>1 DEF LeftOf, CountOf, RankOf, Looks
  <2>8. pc[n] \in {"idle", "sleeping"} \cup Candidacy \cup Takeover \cup StandDown
    BY DEF TypeOK, Locations, Evaluating
  <2> QED
    BY <2>3, <2>4, <2>5, <2>6, <2>7, <2>8
<1> QED
  BY <1>1, <1>2, <1>3

\* The same after a step.
LEMMA LooksNext ==
    (TypeOK /\ (\A n \in Nodes : pc[n] # "down") => \A n \in Nodes : LooksRight(n))'
BY LooksNow, PTL

---------------------------------------------------------------------------
(* The steps of the managers. *)

\* Refreshes answer, and hooks and commands succeed.
LEMMA NothingFails ==
    ASSUME OnlyDropouts
    PROVE  /\ VoteErrors = {FALSE}
           /\ \A bad : Outcomes("hook", bad) = {"done"} /\ Outcomes("command", bad) = {"done"}
  BY DEF OnlyDropouts, VoteErrors, Outcomes, May

\* A manager's step leaves everything alone that is not its own.
LEMMA ManagerLeaves ==
    ASSUME TypeOK, NEW n \in Nodes, Manager(n)
    PROVE  /\ UNCHANGED <<healthy, longEnough, localRpc, cluster, time>>
           /\ \A m \in Nodes \ {n} : identity'[m] = identity[m] /\ wait'[m] = wait[m]
<1>1. UNCHANGED <<healthy, longEnough, localRpc, cluster, time>>
  BY DEF Manager, validators, Poll, CheckHealthy, CheckHealthyLongEnough,
     CheckIdentityAndDelay, WakeAndRevalidate, RunPreActiveHooks, RunActiveCommand,
     RunPrePassiveHooks, RunPassiveCommand, ConfirmPassive, Start
<1>2. ASSUME NEW m \in Nodes \ {n} PROVE identity'[m] = identity[m]
  BY <1>2 DEF Manager, validators, Poll, CheckHealthy, CheckHealthyLongEnough,
     CheckIdentityAndDelay, WakeAndRevalidate, RunPreActiveHooks, RunActiveCommand,
     RunPrePassiveHooks, RunPassiveCommand, ConfirmPassive, Start, TypeOK
<1>3. ASSUME NEW m \in Nodes \ {n} PROVE wait'[m] = wait[m]
  <2>1. \A view : Return(n, view) => wait'[m] = wait[m]
    BY DEF Return, TypeOK
  <2>2. \A next : Proceed(n, next) => wait'[m] = wait[m]
    BY DEF Proceed
  <2>3. CASE Poll(n)
    BY <2>1, <2>3 DEF Poll, TypeOK
  <2>4. CASE CheckHealthy(n) \/ CheckHealthyLongEnough(n) \/ CheckIdentityAndDelay(n)
    BY <2>1, <2>2, <2>4 DEF CheckHealthy, CheckHealthyLongEnough, CheckIdentityAndDelay, TypeOK
  <2>5. CASE WakeAndRevalidate(n) \/ ConfirmPassive(n) \/ Start(n)
    BY <2>1, <2>5 DEF WakeAndRevalidate, ConfirmPassive, Start, TypeOK
  <2>6. CASE RunPreActiveHooks(n) \/ RunActiveCommand(n)
    BY <2>1, <2>2, <2>6 DEF RunPreActiveHooks, RunActiveCommand
  <2>7. CASE RunPrePassiveHooks(n) \/ RunPassiveCommand(n)
    BY <2>1, <2>2, <2>7 DEF RunPrePassiveHooks, RunPassiveCommand
  <2> QED
    BY <2>3, <2>4, <2>5, <2>6, <2>7 DEF Manager
<1> QED
  BY <1>1, <1>2, <1>3

\* A poll that ends waits for the next.
LEMMA ReturnsTo ==
    ASSUME TypeOK, NEW n \in Nodes, NEW view, Return(n, view)
    PROVE  pc'[n] = "idle" /\ wait'[n] = PollDelay(view)
  BY DEF Return, TypeOK, PollDelay

\* What a step of n makes of n while nothing fails.
Step(n) ==
    \/ /\ pc[n] = "idle" /\ wait[n] = 0
       /\ identity'[n] = identity[n] /\ gs'[n] = Known(n)
       /\ \/ AfterPoll(n, Known(n)) = "idle" /\ pc'[n] = "idle" /\ wait'[n] = PollDelay(Known(n))
          \/ /\ AfterPoll(n, Known(n)) # "idle" /\ pc'[n] = AfterPoll(n, Known(n))
             /\ wait'[n] = EvalLag
    \/ /\ pc[n] = "health" /\ identity'[n] = identity[n] /\ gs'[n] = gs[n]
       /\ \/ healthy[n] /\ pc'[n] = "streak" /\ wait'[n] = wait[n]
          \/ ~healthy[n] /\ pc'[n] = "idle" /\ wait'[n] = PollDelay(gs[n])
    \/ /\ pc[n] = "streak" /\ identity'[n] = identity[n] /\ gs'[n] = gs[n]
       /\ \/ longEnough[n] /\ pc'[n] = "identity" /\ wait'[n] = wait[n]
          \/ ~longEnough[n] /\ pc'[n] = "idle" /\ wait'[n] = PollDelay(gs[n])
    \/ /\ pc[n] = "identity" /\ identity'[n] = identity[n] /\ gs'[n] = gs[n]
       /\ \/ /\ identity[n] = "active" \/ n \notin Ranked(n) \/ gs[n].undeclared
             /\ pc'[n] = "idle" /\ wait'[n] = PollDelay(gs[n])
          \/ /\ identity[n] # "active" /\ SelfRank(n) > 0
             /\ pc'[n] = "sleeping" /\ wait'[n] = SelfRank(n) * PollInterval
          \/ /\ identity[n] # "active" /\ ~(SelfRank(n) > 0)
             /\ pc'[n] = "preActive" /\ wait'[n] = wait[n]
    \/ /\ pc[n] = "sleeping" /\ wait[n] = 0 /\ identity'[n] = identity[n] /\ gs'[n] = Known(n)
       /\ \/ TakeoverAborted(Known(n), TRUE) /\ pc'[n] = "idle" /\ wait'[n] = PollDelay(Known(n))
          \/ ~TakeoverAborted(Known(n), TRUE) /\ pc'[n] = "preActive" /\ wait'[n] = EvalLag
    \/ /\ pc[n] = "preActive" /\ identity'[n] = identity[n] /\ gs'[n] = gs[n]
       /\ pc'[n] = "runActive" /\ wait'[n] = wait[n]
    \/ /\ pc[n] = "runActive" /\ identity'[n] = "active" /\ gs'[n] = gs[n]
       /\ pc'[n] = "idle" /\ wait'[n] = PollDelay(gs[n])
    \/ /\ pc[n] \in StandDown /\ identity'[n] \in {identity[n], "passive"}
       /\ pc'[n] \in StandDown \cup {"idle"}

\* Every step of a manager is one of these.
LEMMA ManagerSteps ==
    ASSUME OnlyDropouts, TypeOK, Undisturbed, NEW n \in Nodes, Manager(n)
    PROVE  Step(n)
<1>1. VoteErrors = {FALSE} /\ localRpc[n] /\ pc[n] # "down"
      /\ \A bad : Outcomes("hook", bad) = {"done"} /\ Outcomes("command", bad) = {"done"}
  BY NothingFails DEF Undisturbed
<1>2. \A view : Return(n, view) => pc'[n] = "idle" /\ wait'[n] = PollDelay(view)
  BY ReturnsTo
<1>3. \A next : Proceed(n, next) => pc'[n] = next /\ wait'[n] = wait[n]
  BY DEF Proceed, TypeOK
<1>4. CASE Poll(n)
  <2> DEFINE view == Refreshed(n, gs[n], FALSE)
  <2>1. /\ pc[n] = "idle" /\ wait[n] = 0 /\ identity' = identity
        /\ gs' = [gs EXCEPT ![n] = view]
        /\ IF AfterPoll(n, view) = "idle" THEN Return(n, view)
           ELSE /\ pc' = [pc EXCEPT ![n] = AfterPoll(n, view)]
                /\ wait' = [wait EXCEPT ![n] = EvalLag]
    BY <1>1, <1>4 DEF Poll, validators
  <2>2. Known(n) = view
    BY <2>1 DEF Known, Due
  <2> HIDE DEF view
  <2>3. gs'[n] = view
    BY <2>1 DEF TypeOK
  <2>4. CASE AfterPoll(n, view) = "idle"
    BY <1>2, <2>1, <2>2, <2>3, <2>4 DEF Step
  <2>5. CASE AfterPoll(n, view) # "idle"
    <3>1. pc'[n] = AfterPoll(n, view) /\ wait'[n] = EvalLag
      BY <2>1, <2>5 DEF TypeOK
    <3> QED
      BY <2>1, <2>2, <2>3, <2>5, <3>1 DEF Step
  <2> QED
    BY <2>4, <2>5
<1>5. CASE CheckHealthy(n)
  BY <1>1, <1>2, <1>3, <1>5 DEF CheckHealthy, Step, IsSelfHealthy, validators
<1>6. CASE CheckHealthyLongEnough(n)
  BY <1>1, <1>2, <1>3, <1>6 DEF CheckHealthyLongEnough, Step, validators
<1>7. CASE CheckIdentityAndDelay(n)
  <2>1. pc[n] = "identity" /\ identity' = identity /\ gs' = gs
    BY <1>7 DEF CheckIdentityAndDelay, validators
  <2>2. CASE identity[n] = "active" \/ n \notin Ranked(n)
    <3>1. Return(n, gs[n])
      BY <1>1, <1>7, <2>2 DEF CheckIdentityAndDelay, IsSelfActive
    <3> QED
      BY <1>2, <2>1, <2>2, <3>1 DEF Step
  <2>3. CASE identity[n] # "active" /\ n \in Ranked(n) /\ SelfRank(n) > 0
    <3>1. /\ pc' = [pc EXCEPT ![n] = "sleeping"]
          /\ wait' = [wait EXCEPT ![n] = SelfRank(n) * PollInterval]
      BY <1>1, <1>7, <2>3 DEF CheckIdentityAndDelay, IsSelfActive
    <3>2. pc'[n] = "sleeping" /\ wait'[n] = SelfRank(n) * PollInterval
      BY <3>1 DEF TypeOK
    <3> QED
      BY <2>1, <2>3, <3>2 DEF Step
  <2>4. CASE identity[n] # "active" /\ n \in Ranked(n) /\ ~(SelfRank(n) > 0)
    <3>1. IF gs[n].undeclared THEN Return(n, gs[n]) ELSE Proceed(n, "preActive")
      BY <1>1, <1>7, <2>4 DEF CheckIdentityAndDelay, IsSelfActive, TakeoverAborted
    <3> QED
      BY <1>2, <1>3, <2>1, <2>4, <3>1 DEF Step
  <2> QED
    BY <2>2, <2>3, <2>4
<1>8. CASE WakeAndRevalidate(n)
  <2> DEFINE view == Refreshed(n, gs[n], FALSE)
  <2>1. /\ pc[n] = "sleeping" /\ wait[n] = 0 /\ identity' = identity
        /\ gs' = [gs EXCEPT ![n] = view]
        /\ IF TakeoverAborted(view, TRUE) THEN Return(n, view)
           ELSE /\ pc' = [pc EXCEPT ![n] = "preActive"]
                /\ wait' = [wait EXCEPT ![n] = EvalLag]
    BY <1>1, <1>8 DEF WakeAndRevalidate, validators
  <2>2. Known(n) = view
    BY <2>1 DEF Known, Due
  <2> HIDE DEF view
  <2>3. gs'[n] = view
    BY <2>1 DEF TypeOK
  <2>4. CASE TakeoverAborted(view, TRUE)
    BY <1>2, <2>1, <2>2, <2>3, <2>4 DEF Step
  <2>5. CASE ~TakeoverAborted(view, TRUE)
    <3>1. pc'[n] = "preActive" /\ wait'[n] = EvalLag
      BY <2>1, <2>5 DEF TypeOK
    <3> QED
      BY <2>1, <2>2, <2>3, <2>5, <3>1 DEF Step
  <2> QED
    BY <2>4, <2>5
<1>9. CASE RunPreActiveHooks(n)
  BY <1>1, <1>3, <1>9 DEF RunPreActiveHooks, Step, validators
<1>10. CASE RunActiveCommand(n)
  <2>1. /\ pc[n] = "runActive" /\ gs' = gs /\ Return(n, gs[n])
        /\ identity' = [identity EXCEPT ![n] = "active"]
    BY <1>1, <1>10 DEF RunActiveCommand
  <2>2. identity'[n] = "active"
    BY <2>1 DEF TypeOK
  <2> QED
    BY <1>2, <2>1, <2>2 DEF Step
<1>11. CASE RunPrePassiveHooks(n)
  <2>1. pc[n] = "prePassive" /\ identity' = identity /\ Proceed(n, "runPassive")
    BY <1>1, <1>11 DEF RunPrePassiveHooks, validators
  <2> QED
    BY <1>3, <2>1 DEF Step, StandDown
<1>12. CASE RunPassiveCommand(n)
  <2>1. /\ pc[n] = "runPassive" /\ Proceed(n, "confirmPassive")
        /\ identity' = [identity EXCEPT ![n] = "passive"]
    BY <1>1, <1>12 DEF RunPassiveCommand
  <2>2. identity'[n] = "passive"
    BY <2>1 DEF TypeOK
  <2> QED
    BY <1>3, <2>1, <2>2 DEF Step, StandDown
<1>13. CASE ConfirmPassive(n)
  <2>1. pc[n] = "confirmPassive" /\ identity' = identity /\ \E view : Return(n, view)
    BY <1>13 DEF ConfirmPassive, validators
  <2> QED
    BY <1>2, <2>1 DEF Step, StandDown
<1>14. CASE Start(n)
  BY <1>1, <1>14 DEF Start
<1> QED
  BY <1>4, <1>5, <1>6, <1>7, <1>8, <1>9, <1>10, <1>11, <1>12, <1>13, <1>14 DEF Manager

\* The other steps: of gossip, of time, and a node that drops out.
LEMMA OtherSteps ==
    ASSUME OnlyDropouts, Undisturbed, Next, ~\E n \in Nodes : Manager(n)
    PROVE  \/ \E n \in Nodes : Publish(n) \/ Expire(n) \/ Drop(n)
           \/ VotesLand \/ DeclareDelinquent \/ Tick
<1>1. \A kind : May(kind) => kind = "drop"
  BY DEF OnlyDropouts, May
<1>2. "reconnect" \notin Faults
  BY DEF OnlyDropouts
<1>3. \A n \in Nodes : ~Crash(n)
  BY <1>1 DEF Crash
<1>4. \A n \in Nodes : ~Reconnect(n) /\ ~LoseClusterRpc(n) /\ ~RegainClusterRpc(n)
  BY <1>1, <1>2 DEF Reconnect, LoseClusterRpc, RegainClusterRpc, Inject, Undisturbed
<1>5. \A n \in Nodes : ~ToggleLocalRpc(n) /\ ~ChangeHealth(n)
  BY <1>1 DEF ToggleLocalRpc, ChangeHealth, Inject
<1>6. (\A h \in Hosts : ~ChangeVoting(h)) /\ ~ChangeStranger
  BY <1>1 DEF ChangeVoting, ChangeStranger, Inject
<1> QED
  BY <1>3, <1>4, <1>5, <1>6 DEF Next, Environment

\* Gossip, votes and membership change between the reads of an instant.
LEMMA ChangesAreQuiet ==
    ASSUME OnlyDropouts, TypeOK, MayChange, NEW n \in Nodes
    PROVE  /\ ~Due(n) /\ Known(n) = gs[n]
           /\ pc[n] \in {"idle", "sleeping"} => wait[n] # 0
<1>1. Quiet
  BY DEF OnlyDropouts, MayChange
<1>2. pc[n] \in {"idle", "sleeping"} => wait[n] # 0
  BY <1>1 DEF Quiet, TypeOK
<1> QED
  BY <1>2 DEF Due, Known

---------------------------------------------------------------------------
(* What the contest sees. *)

\* A leader that shows ends the dark.
LEMMA LeaderShows ==
    ASSUME NEW n \in Nodes
    PROVE  /\ Shown(n) => ~Dark
           /\ StageOf(n) = "leader" => Shown(n) /\ linked[n] /\ identity[n] = "active"
           /\ Stage[n] = "leader" => ~Dark
<1>1. Shown(n) => n \in Leaders(adverts, Verdict(FALSE))
  BY DEF Shown, Leaders, Claimants, Verdict, Hosts
<1>2. StageOf(n) = "leader" => Shown(n) /\ linked[n] /\ identity[n] = "active"
  BY DEF StageOf, ContenderStage
<1> QED
  BY <1>1, <1>2 DEF Dark, Stage

\* The same after a step.
LEMMA LeaderShowsNext ==
    (\A n \in Nodes : Stage[n] = "leader" => ~Dark)'
<1>1. \A n \in Nodes : Stage[n] = "leader" => ~Dark
  BY LeaderShows
<1> QED
  BY <1>1, PTL

\* What a read finds.
LEMMA KnownFacts ==
    ASSUME TypeOK, Undisturbed, NEW n \in Nodes
    PROVE  /\ Known(n) \in Views
           /\ Due(n) =>
                /\ Known(n).count = IF Dark THEN Bump(gs[n].count) ELSE 0
                /\ Known(n).seen = Visible(adverts, Verdict(FALSE))
                /\ ~Known(n).undeclared
                /\ "passive" \in adverts[n] => n \in Known(n).seen
                /\ n \in Known(n).seen => "passive" \in adverts[n] \/ ~Dark
<1> DEFINE verdict == Verdict(FALSE)
<1>1. gs[n] \in Views /\ Refreshed(n, gs[n], FALSE) \in Views
  BY RefreshedType DEF TypeOK
<1>2. Known(n) \in Views
  BY <1>1 DEF Known
<1>3. Stranger \notin Leaders(adverts, verdict)
  BY DEF Undisturbed, Leaders, Claimants
<1>4. Due(n) => Known(n) = Answered(gs[n], adverts, verdict)
  BY DEF Known, Refreshed, Undisturbed
<1>5. Answered(gs[n], adverts, verdict).count =
          IF Leaders(adverts, verdict) = {} THEN Bump(gs[n].count) ELSE 0
  BY DEF Answered, NextCount
<1>6. /\ Answered(gs[n], adverts, verdict).seen = Visible(adverts, verdict)
      /\ Answered(gs[n], adverts, verdict).undeclared <=> Stranger \in Leaders(adverts, verdict)
  BY DEF Answered
<1>7. /\ "passive" \in adverts[n] => n \in Visible(adverts, verdict)
      /\ n \in Visible(adverts, verdict) =>
             "passive" \in adverts[n] \/ Leaders(adverts, verdict) # {}
  BY DEF Visible, Hosts
<1>8. Dark <=> Leaders(adverts, verdict) = {}
  BY DEF Dark
<1> HIDE DEF verdict
<1> DEFINE answered == Answered(gs[n], adverts, verdict)
<1>9. /\ answered.count = IF Dark THEN Bump(gs[n].count) ELSE 0
      /\ ~answered.undeclared
      /\ "passive" \in adverts[n] => n \in answered.seen
      /\ n \in answered.seen => "passive" \in adverts[n] \/ ~Dark
      /\ answered.seen = Visible(adverts, Verdict(FALSE))
  <2>1. answered.count = IF Dark THEN Bump(gs[n].count) ELSE 0
    BY <1>5, <1>8
  <2>2. ~answered.undeclared
    BY <1>3, <1>6
  <2>3. answered.seen = Visible(adverts, Verdict(FALSE))
    BY <1>6 DEF verdict
  <2> QED
    BY <1>6, <1>7, <1>8, <2>1, <2>2, <2>3
<1>10. Due(n) => Known(n) = answered
  BY <1>4
<1> HIDE DEF answered
<1> QED
  BY <1>2, <1>9, <1>10

\* The same after a step.
LEMMA KnownFactsNext ==
    (TypeOK /\ Undisturbed =>
        \A n \in Nodes :
           /\ Known(n) \in Views
           /\ Due(n) =>
                /\ Known(n).count = IF Dark THEN Bump(gs[n].count) ELSE 0
                /\ Known(n).seen = Visible(adverts, Verdict(FALSE))
                /\ ~Known(n).undeclared
                /\ "passive" \in adverts[n] => n \in Known(n).seen
                /\ n \in Known(n).seen => "passive" \in adverts[n] \/ ~Dark)'
<1>1. TypeOK /\ Undisturbed =>
        \A n \in Nodes :
           /\ Known(n) \in Views
           /\ Due(n) =>
                /\ Known(n).count = IF Dark THEN Bump(gs[n].count) ELSE 0
                /\ Known(n).seen = Visible(adverts, Verdict(FALSE))
                /\ ~Known(n).undeclared
                /\ "passive" \in adverts[n] => n \in Known(n).seen
                /\ n \in Known(n).seen => "passive" \in adverts[n] \/ ~Dark
  BY KnownFacts
<1> QED
  BY <1>1, PTL

\* The time to the next poll is not over.
LEMMA DelayAhead ==
    ASSUME TypeOK, NEW view
    PROVE  /\ PollDelay(view) \in Nat /\ PollDelay(view) # 0
           /\ view.count # Threshold - 1 => clock + PollDelay(view) = PollInterval
<1>1. NextBoundary \in Nat /\ NextBoundary # 0 /\ clock + NextBoundary = PollInterval
  BY TimingAssumption DEF TypeOK, NextBoundary
<1>2. ConfirmPoll \in Nat /\ ConfirmPoll # 0
  BY TimingAssumption
<1> QED
  BY <1>1, <1>2 DEF PollDelay

\* A node nothing happens to looks the same.
LEMMA NodeSame ==
    ASSUME NEW n \in Nodes,
           identity'[n] = identity[n], linked'[n] = linked[n], healthy'[n] = healthy[n],
           longEnough'[n] = longEnough[n], clusterRpc'[n] = clusterRpc[n], pc'[n] = pc[n],
           gs'[n] = gs[n], wait'[n] = wait[n], lag'[n] = lag[n],
           UNCHANGED <<adverts, votes, voteLag, clock>>
    PROVE  /\ Stage'[n] = Stage[n] /\ Left'[n] = Left[n]
           /\ Count'[n] = Count[n] /\ RankIn'[n] = RankIn[n]
<1>1. Due(n)' = Due(n) /\ Capable(n)' = Capable(n) /\ Shown(n)' = Shown(n)
  BY DEF Due, Capable, Shown
<1>2. Refreshed(n, gs[n], FALSE)' = Refreshed(n, gs[n], FALSE)
  BY DEF Refreshed, Answered, Failed, Verdict, Leaders, Claimants, Visible, NextCount
<1>3. Known(n)' = Known(n)
  BY <1>1, <1>2 DEF Known
<1>4. ContenderStage(n)' = ContenderStage(n)
  BY <1>1, <1>3 DEF ContenderStage
<1>5. StageOf(n)' = StageOf(n)
  BY <1>1, <1>4 DEF StageOf
<1>6. Unnoticed(n)' = Unnoticed(n) /\ NextBoundary' = NextBoundary
  BY DEF Unnoticed, NextBoundary
<1>7. LeftOf(n)' = LeftOf(n)
  BY <1>1, <1>3, <1>5, <1>6 DEF LeftOf
<1>8. CountOf(n)' = CountOf(n)
  BY <1>3, <1>5 DEF CountOf
<1>9. RankAmong(n, Known(n))' = RankAmong(n, Known(n))
  BY <1>3 DEF RankAmong
<1>10. RankOf(n)' = RankOf(n)
  BY <1>5, <1>9 DEF RankOf
<1> QED
  BY <1>5, <1>7, <1>8, <1>10 DEF Stage, Left, Count, RankIn

---------------------------------------------------------------------------
(* What a step of a manager is in the contest. *)

\* A node the step does not show in.
Stays(n) ==
    Stage'[n] = Stage[n] /\ Left'[n] = Left[n] /\ Count'[n] = Count[n] /\ RankIn'[n] = RankIn[n]

\* What may become of a node by a step of its manager.
Moves(n) ==
    \/ Stays(n)
    \/ /\ Stage[n] = "candidate" /\ RankIn[n] > 0
       /\ Stage'[n] = "asleep" /\ Left'[n] = RankIn[n] * PollInterval
       /\ Count'[n] = Count[n] /\ RankIn'[n] = RankIn[n]
    \/ /\ Stage[n] = "candidate" /\ RankIn[n] = 0
       /\ Stage'[n] = "hot" /\ Left'[n] = Left[n]
       /\ Count'[n] = Count[n] /\ RankIn'[n] = RankIn[n]
    \/ /\ Stage[n] = "hot"
       /\ \/ Stage'[n] = "pending" /\ Left'[n] \in 0 .. NoticeLag
          \/ Stage'[n] = "out" /\ Left'[n] = 0
       /\ Count'[n] = Count[n] /\ RankIn'[n] = RankIn[n]
    \/ /\ Stage[n] = "calm"
       /\ Stage'[n] = "out" /\ Left'[n] = 0 /\ Count'[n] = 0 /\ RankIn'[n] = RankIn[n]

\* A notice is never later than the bound of both that make it.
LEMMA UnnoticedBound ==
    ASSUME TypeOK, Undisturbed, NEW n \in Nodes
    PROVE  Unnoticed(n) \in 0 .. NoticeLag
<1>1. lag[n] \in Nat /\ lag[n] <= GossipLag /\ voteLag \in Nat /\ voteLag <= VoteLag
      /\ GossipLag \in Nat /\ VoteLag \in Nat
  BY TimingAssumption DEF TypeOK, Undisturbed
<1> QED
  BY <1>1 DEF Unnoticed, NoticeLag

\* The rank a candidate has in the contest is the one that delays it.
LEMMA RankOfCandidate ==
    ASSUME TypeOK, NEW n \in Nodes
    PROVE  /\ RankAmong(n, gs[n]) = SelfRank(n)
           /\ SelfRank(n) \in Nat
           /\ SelfRank(n) > 0 =>
                  SelfRank(n) * PollInterval \in Nat /\ SelfRank(n) * PollInterval # 0
<1>1. RankAmong(n, gs[n]) = SelfRank(n)
  BY DEF RankAmong, SelfRank, Ranked
<1>2. SelfRank(n) \in Nat
  BY SelfRankType
<1> DEFINE r == SelfRank(n)
<1> HIDE DEF r
<1>3. r \in Nat => /\ r * PollInterval \in Nat
                   /\ 0 < r => 0 * PollInterval + PollInterval <= r * PollInterval
  BY Multiples, ContestConstants
<1>4. r > 0 => r * PollInterval # 0
  BY <1>2, <1>3, ContestConstants DEF r
<1> QED
  BY <1>1, <1>2, <1>3, <1>4 DEF r

\* What a step of a manager leaves of the context its node is seen in.
LEMMA OwnContext ==
    ASSUME TypeOK, NEW n \in Nodes, Manager(n)
    PROVE  /\ adverts' = adverts /\ votes' = votes /\ clock' = clock /\ linked' = linked
           /\ lag' = lag /\ voteLag' = voteLag
           /\ Shown(n)' = Shown(n) /\ Capable(n)' = Capable(n) /\ Unnoticed(n)' = Unnoticed(n)
           /\ Dark' = Dark
<1>1. UNCHANGED <<healthy, longEnough, cluster, time>>
  BY ManagerLeaves
<1>2. UNCHANGED <<adverts, votes, linked, clock, lag, voteLag>>
  BY <1>1 DEF cluster, time
<1> QED
  BY <1>1, <1>2 DEF Shown, Capable, Unnoticed, Dark, Leaders, Claimants, Verdict

\* A node whose identity stays, and decides alone, looks the same.
LEMMA OwnUncontended ==
    ASSUME TypeOK, TypeOK', Undisturbed, Undisturbed', NEW n \in Nodes, Manager(n),
           identity'[n] = identity[n], identity[n] = "active" \/ ~Capable(n)
    PROVE  Stays(n)
<1>1. LooksRight(n)
  BY LooksNow DEF Undisturbed
<1>2. LooksRight(n)'
  BY LooksNext DEF Undisturbed
<1>3. /\ linked' = linked /\ Shown(n)' = Shown(n) /\ Capable(n)' = Capable(n)
      /\ Unnoticed(n)' = Unnoticed(n)
  BY OwnContext
<1>4. CASE identity[n] = "active"
  BY <1>1, <1>2, <1>3, <1>4 DEF LooksRight, Looks, Stays
<1>5. CASE identity[n] # "active" /\ ~Capable(n)
  BY <1>1, <1>2, <1>3, <1>5 DEF LooksRight, Looks, Stays
<1> QED
  BY <1>4, <1>5

\* Where a poll leads without the bypass.
LEMMA PollOutcome ==
    ASSUME OnlyDropouts, NEW n \in Nodes, NEW view \in Views
    PROVE  /\ view.undeclared \/ ~(view.count >= Threshold) => AfterPoll(n, view) = "idle"
           /\ ~view.undeclared /\ view.count >= Threshold =>
                  AfterPoll(n, view) = IF n \in view.seen THEN "health"
                                       ELSE IF ShouldStandDown(n, view) THEN "prePassive"
                                       ELSE "idle"
<1>1. ~BypassTriggered(view)
  BY DEF OnlyDropouts, BypassTriggered
<1>2. view.count \in Nat /\ Threshold \in Nat
  BY ContestConstants, MaxCountAssumption DEF Views
<1>3. view.undeclared \/ ~(view.count >= Threshold) <=> NoFailover(view)
  BY <1>1, <1>2 DEF NoFailover
<1> QED
  BY <1>3 DEF AfterPoll

\* A poll nominates nobody: what it finds is known before.
LEMMA PollMoves ==
    ASSUME OnlyDropouts, ContenderInv, TypeOK', Undisturbed', NEW n \in Nodes, Manager(n),
           pc[n] = "idle"
    PROVE  Moves(n) /\ ContenderAt(n)'
<1> DEFINE view == Known(n)
<1>1. TypeOK /\ Undisturbed /\ ContenderAt(n)
  BY DEF ContenderInv, IInv
<1>2. /\ wait[n] = 0 /\ identity'[n] = identity[n] /\ gs'[n] = view
      /\ \/ AfterPoll(n, view) = "idle" /\ pc'[n] = "idle" /\ wait'[n] = PollDelay(view)
         \/ /\ AfterPoll(n, view) # "idle" /\ pc'[n] = AfterPoll(n, view)
            /\ wait'[n] = EvalLag
  <2>1. Step(n)
    BY <1>1, ManagerSteps
  <2> QED
    BY <2>1 DEF Step, StandDown
<1>3. /\ view \in Views
      /\ view.count = IF Dark THEN Bump(gs[n].count) ELSE 0
      /\ ~view.undeclared
      /\ "passive" \in adverts[n] => n \in view.seen
      /\ n \in view.seen => "passive" \in adverts[n] \/ ~Dark
  BY <1>1, <1>2, KnownFacts DEF Due
<1>4. /\ view.count \in Nat /\ Threshold \in Nat /\ Threshold > 0
  BY <1>3, ContestConstants, MaxCountAssumption DEF Views
<1>5. /\ ~(view.count >= Threshold) => AfterPoll(n, view) = "idle"
      /\ view.count >= Threshold =>
             AfterPoll(n, view) = IF n \in view.seen THEN "health"
                                  ELSE IF ShouldStandDown(n, view) THEN "prePassive"
                                  ELSE "idle"
  BY <1>3, PollOutcome
<1>6. PollDelay(view) # 0
  BY <1>1, DelayAhead
<1>7. view.count >= Threshold => Dark
  BY <1>3, <1>4
<1>8. /\ adverts' = adverts /\ clock' = clock /\ linked' = linked
      /\ Shown(n)' = Shown(n) /\ Capable(n)' = Capable(n)
  BY <1>1, OwnContext
<1>9. LooksRight(n) /\ LooksRight(n)'
  BY <1>1, LooksNow, LooksNext DEF Undisturbed
<1> HIDE DEF view
<1>10. Moves(n)
  <2>1. CASE identity[n] = "active" \/ ~Capable(n)
    BY <1>1, <1>2, <2>1, OwnUncontended DEF Moves
  <2>2. CASE identity[n] # "active" /\ Capable(n) /\ "passive" \notin adverts[n]
    <3>1. pc'[n] = "idle" \/ pc'[n] \in StandDown
      BY <1>2, <1>3, <1>5, <1>7, <2>2 DEF StandDown
    <3>2. Looks(n, "out", 0, 0, 0)
      BY <1>9, <2>2 DEF LooksRight
    <3>3. Looks(n, "out", 0, 0, 0)'
      BY <1>2, <1>8, <1>9, <2>2, <3>1 DEF LooksRight
    <3> QED
      BY <3>2, <3>3 DEF Looks, Stays, Moves
  <2>3. CASE /\ identity[n] # "active" /\ Capable(n) /\ "passive" \in adverts[n]
             /\ view.count >= Threshold
    <3>1. pc'[n] = "health" /\ wait'[n] = EvalLag
      BY <1>2, <1>3, <1>5, <2>3
    <3>2. Looks(n, "candidate", EvalLag, 0, RankAmong(n, view))
      BY <1>2, <1>9, <2>3 DEF LooksRight, view
    <3>3. RankAmong(n, view) = RankAmong(n, gs'[n]) /\ RankAmong(n, gs[n])' = RankAmong(n, gs'[n])
      BY <1>2 DEF RankAmong
    <3>4. Looks(n, "candidate", wait[n], 0, RankAmong(n, gs[n]))'
      BY <1>2, <1>8, <1>9, <2>3, <3>1 DEF LooksRight, Candidacy
    <3> QED
      BY <3>1, <3>2, <3>3, <3>4 DEF Looks, Stays, Moves
  <2>4. CASE /\ identity[n] # "active" /\ Capable(n) /\ "passive" \in adverts[n]
             /\ ~(view.count >= Threshold)
    <3>1. pc'[n] = "idle" /\ wait'[n] = PollDelay(view)
      BY <1>2, <1>5, <2>4
    <3>2. Looks(n, "calm", PollDelay(view), view.count, 0)
      BY <1>2, <1>9, <2>4 DEF LooksRight, view
    <3>3. Looks(n, "calm", wait[n], gs[n].count, 0)'
      BY <1>2, <1>6, <1>8, <1>9, <2>4, <3>1 DEF LooksRight
    <3> QED
      BY <1>2, <3>1, <3>2, <3>3 DEF Looks, Stays, Moves
  <2> QED
    BY <2>1, <2>2, <2>3, <2>4
<1>11. ContenderAt(n)'
  <2>1. identity'[n] \in {"active", "passive"}
    BY DEF TypeOK, Roles
  <2>2. linked[n] /\ identity[n] = "passive" => adverts[n] = {"passive"}
    BY <1>1 DEF ContenderAt
  <2>3. linked[n] /\ identity[n] = "active" => Shown(n) /\ pc'[n] = "idle"
    <3> SUFFICES ASSUME linked[n], identity[n] = "active" PROVE Shown(n) /\ pc'[n] = "idle"
      OBVIOUS
    <3>1. Shown(n)
      BY <1>1, <1>2, ContestConstants DEF ContenderAt, TypeOK
    <3>2. ~Dark
      BY <3>1, LeaderShows
    <3> QED
      BY <1>2, <1>5, <1>7, <3>1, <3>2
  <2>4. pc'[n] = "prePassive" => ~linked[n] /\ "passive" \notin adverts[n]
    BY <1>2, <1>3, <1>5, <2>1, <2>2, <2>3
  <2>5. pc'[n] = "health" => n \in gs'[n].seen
    BY <1>2, <1>5
  <2>6. pc'[n] \in {"idle", "health", "prePassive"}
    BY <1>2, <1>5
  <2>7. Shown(n)' <=> Shown(n)
    BY <1>8
  <2> QED
    BY <1>2, <1>8, <2>2, <2>3, <2>4, <2>5, <2>6, <2>7
       DEF ContenderAt, StandDown, Takeover, Candidacy
<1> QED
  BY <1>10, <1>11

\* A candidate that finds itself fit begins its delay, or takes over at once.
LEMMA CandidacyMoves ==
    ASSUME OnlyDropouts, ContenderInv, TypeOK', Undisturbed', NEW n \in Nodes, Manager(n),
           pc[n] \in Candidacy
    PROVE  Moves(n) /\ ContenderAt(n)'
<1>1. TypeOK /\ Undisturbed /\ ContenderAt(n) /\ Step(n)
  BY ManagerSteps DEF ContenderInv, IInv
<1>2. n \in gs[n].seen /\ ~gs[n].undeclared
  <2>1. LeaderlessAt(pc[n], gs[n])
    BY DEF ContenderInv, IInv, NodeInv
  <2> QED
    BY <1>1, <2>1 DEF LeaderlessAt, ContenderAt
<1>3. n \in Ranked(n)
  BY <1>2 DEF Ranked
<1>4. /\ identity'[n] = identity[n] /\ gs'[n] = gs[n]
      /\ \/ pc[n] = "health" /\ healthy[n] /\ pc'[n] = "streak" /\ wait'[n] = wait[n]
         \/ pc[n] = "health" /\ ~healthy[n] /\ pc'[n] = "idle" /\ wait'[n] = PollDelay(gs[n])
         \/ pc[n] = "streak" /\ longEnough[n] /\ pc'[n] = "identity" /\ wait'[n] = wait[n]
         \/ pc[n] = "streak" /\ ~longEnough[n] /\ pc'[n] = "idle" /\ wait'[n] = PollDelay(gs[n])
         \/ pc[n] = "identity" /\ identity[n] = "active" /\ pc'[n] = "idle"
         \/ /\ pc[n] = "identity" /\ identity[n] # "active" /\ SelfRank(n) > 0
            /\ pc'[n] = "sleeping" /\ wait'[n] = SelfRank(n) * PollInterval
         \/ /\ pc[n] = "identity" /\ identity[n] # "active" /\ ~(SelfRank(n) > 0)
            /\ pc'[n] = "preActive" /\ wait'[n] = wait[n]
  <2>1. CASE pc[n] = "health"
    BY <1>1, <2>1 DEF Step, StandDown
  <2>2. CASE pc[n] = "streak"
    BY <1>1, <2>2 DEF Step, StandDown
  <2>3. CASE pc[n] = "identity"
    BY <1>1, <1>2, <1>3, <2>3 DEF Step, StandDown
  <2> QED
    BY <2>1, <2>2, <2>3 DEF Candidacy
<1>5. /\ adverts' = adverts /\ clock' = clock /\ linked' = linked
      /\ Shown(n)' = Shown(n) /\ Capable(n)' = Capable(n)
      /\ healthy' = healthy /\ longEnough' = longEnough
  BY <1>1, OwnContext, ManagerLeaves
<1>6. LooksRight(n) /\ LooksRight(n)'
  BY <1>1, LooksNow, LooksNext DEF Undisturbed
<1>7. ~(linked[n] /\ identity[n] = "active")
  BY <1>1 DEF ContenderAt, Candidacy
<1>8. /\ RankAmong(n, gs[n]) = SelfRank(n) /\ SelfRank(n) \in Nat
      /\ SelfRank(n) > 0 => SelfRank(n) * PollInterval # 0
  BY <1>1, RankOfCandidate
<1>9. RankAmong(n, gs[n])' = RankAmong(n, gs[n])
  BY <1>4 DEF RankAmong
<1>10. Moves(n)
  <2>1. CASE identity[n] = "active" \/ ~Capable(n)
    BY <1>1, <1>4, <2>1, OwnUncontended DEF Moves
  <2>2. CASE identity[n] # "active" /\ Capable(n)
    <3>1. Looks(n, "candidate", wait[n], 0, SelfRank(n))
      BY <1>6, <1>8, <2>2 DEF LooksRight
    <3>2. CASE pc'[n] \in Candidacy
      <4>1. wait'[n] = wait[n]
        BY <1>4, <3>2 DEF Candidacy
      <4>2. Looks(n, "candidate", wait[n], 0, RankAmong(n, gs[n]))'
        BY <1>4, <1>5, <1>6, <2>2, <3>2 DEF LooksRight
      <4> QED
        BY <1>8, <1>9, <3>1, <4>1, <4>2 DEF Looks, Stays, Moves
    <3>3. CASE pc'[n] = "sleeping"
      <4>1. SelfRank(n) > 0 /\ wait'[n] = SelfRank(n) * PollInterval
        BY <1>4, <3>3
      <4>2. wait'[n] # 0
        BY <1>8, <4>1
      <4>3. Looks(n, "asleep", wait[n], 0, RankAmong(n, gs[n]))'
        BY <1>4, <1>5, <1>6, <2>2, <3>3, <4>2 DEF LooksRight
      <4>4. /\ Stage[n] = "candidate" /\ Count[n] = 0 /\ RankIn[n] = SelfRank(n)
            /\ Stage'[n] = "asleep" /\ Left'[n] = wait'[n] /\ Count'[n] = 0
            /\ RankIn'[n] = SelfRank(n)
        BY <1>8, <1>9, <3>1, <4>3 DEF Looks
      <4> QED
        BY <4>1, <4>4 DEF Moves
    <3>4. CASE pc'[n] = "preActive"
      <4>1. SelfRank(n) = 0 /\ wait'[n] = wait[n]
        BY <1>4, <1>8, <3>4
      <4>2. Looks(n, "hot", wait[n], 0, 0)'
        BY <1>4, <1>5, <1>6, <2>2, <3>4 DEF LooksRight, Takeover
      <4>3. /\ Stage[n] = "candidate" /\ Left[n] = wait[n] /\ Count[n] = 0 /\ RankIn[n] = 0
            /\ Stage'[n] = "hot" /\ Left'[n] = wait'[n] /\ Count'[n] = 0 /\ RankIn'[n] = 0
        BY <3>1, <4>1, <4>2 DEF Looks
      <4> QED
        BY <4>1, <4>3 DEF Moves
    <3>5. pc'[n] \in Candidacy \cup {"sleeping", "preActive"}
      BY <1>4, <2>2 DEF Capable, Candidacy
    <3> QED
      BY <3>2, <3>3, <3>4, <3>5
  <2> QED
    BY <2>1, <2>2
<1>11. ContenderAt(n)'
  <2>1. identity[n] # "active" => identity[n] = "passive"
    BY <1>1 DEF TypeOK, Roles
  <2>2. pc[n] = "identity" => Capable(n)
    BY <1>1 DEF ContenderAt
  <2>3. pc[n] = "streak" => healthy[n]
    BY <1>1 DEF ContenderAt
  <2>4. linked[n] /\ identity[n] = "passive" => adverts[n] = {"passive"}
    BY <1>1 DEF ContenderAt
  <2>5. pc'[n] \notin StandDown
    BY <1>4 DEF StandDown
  <2>6. pc'[n] \in {"sleeping"} \cup Takeover => identity'[n] = "passive" /\ Capable(n)'
    BY <1>4, <1>5, <2>1, <2>2 DEF Takeover
  <2>7. pc'[n] = "identity" => Capable(n)'
    BY <1>4, <1>5, <2>3 DEF Capable
  <2>8. pc'[n] = "streak" => healthy'[n]
    BY <1>4, <1>5
  <2>9. pc'[n] \in Candidacy => n \in gs'[n].seen
    BY <1>2, <1>4
  <2> QED
    BY <1>4, <1>5, <1>7, <2>4, <2>5, <2>6, <2>7, <2>8, <2>9 DEF ContenderAt
<1> QED
  BY <1>10, <1>11

\* A node that wakes takes over, or polls on.
LEMMA WakeMoves ==
    ASSUME OnlyDropouts, ContenderInv, TypeOK', Undisturbed', NEW n \in Nodes, Manager(n),
           pc[n] = "sleeping"
    PROVE  Moves(n) /\ ContenderAt(n)'
<1> DEFINE view == Known(n)
<1>1. TypeOK /\ Undisturbed /\ ContenderAt(n) /\ Step(n)
  BY ManagerSteps DEF ContenderInv, IInv
<1>2. /\ wait[n] = 0 /\ identity'[n] = identity[n] /\ gs'[n] = view
      /\ \/ TakeoverAborted(view, TRUE) /\ pc'[n] = "idle" /\ wait'[n] = PollDelay(view)
         \/ ~TakeoverAborted(view, TRUE) /\ pc'[n] = "preActive" /\ wait'[n] = EvalLag
  BY <1>1 DEF Step, StandDown
<1>3. view \in Views /\ ~view.undeclared
  BY <1>1, <1>2, KnownFacts DEF Due
<1>4. view.count \in Nat
  BY <1>3, MaxCountAssumption DEF Views
<1>5. TakeoverAborted(view, TRUE) <=> ~(view.count > 0)
  BY <1>3, <1>4 DEF TakeoverAborted
<1>6. PollDelay(view) # 0
  BY <1>1, DelayAhead
<1>7. /\ adverts' = adverts /\ clock' = clock /\ linked' = linked
      /\ Shown(n)' = Shown(n) /\ Capable(n)' = Capable(n)
  BY <1>1, OwnContext
<1>8. LooksRight(n) /\ LooksRight(n)'
  BY <1>1, LooksNow, LooksNext DEF Undisturbed
<1>9. identity[n] = "passive" /\ Capable(n)
  BY <1>1 DEF ContenderAt
<1>10. Moves(n)
  <2>1. CASE view.count > 0
    <3>1. pc'[n] = "preActive" /\ wait'[n] = EvalLag
      BY <1>2, <1>5, <2>1
    <3>2. Looks(n, "hot", EvalLag, 0, 0)
      BY <1>2, <1>8, <1>9, <2>1 DEF LooksRight
    <3>3. Looks(n, "hot", wait[n], 0, 0)'
      BY <1>2, <1>7, <1>8, <1>9, <3>1 DEF LooksRight, Takeover
    <3> QED
      BY <3>1, <3>2, <3>3 DEF Looks, Stays, Moves
  <2>2. CASE ~(view.count > 0)
    <3>1. pc'[n] = "idle" /\ wait'[n] = PollDelay(view)
      BY <1>2, <1>5, <2>2
    <3>2. Looks(n, "calm", PollDelay(view), view.count, 0)
      BY <1>2, <1>8, <1>9, <2>2 DEF LooksRight
    <3>3. CASE "passive" \in adverts[n]
      <4>1. Looks(n, "calm", wait[n], gs[n].count, 0)'
        BY <1>2, <1>6, <1>7, <1>8, <1>9, <3>1, <3>3 DEF LooksRight
      <4> QED
        BY <1>2, <3>1, <3>2, <4>1 DEF Looks, Stays, Moves
    <3>4. CASE "passive" \notin adverts[n]
      <4>1. Looks(n, "out", 0, 0, 0)'
        BY <1>2, <1>7, <1>8, <1>9, <3>1, <3>4 DEF LooksRight
      <4> QED
        BY <3>2, <4>1 DEF Looks, Moves
    <3> QED
      BY <3>3, <3>4
  <2> QED
    BY <2>1, <2>2
<1>11. ContenderAt(n)'
  <2>1. pc'[n] \in {"idle", "preActive"}
    BY <1>2
  <2>2. linked[n] /\ identity[n] = "passive" => adverts[n] = {"passive"}
    BY <1>1 DEF ContenderAt
  <2> QED
    BY <1>2, <1>7, <1>9, <2>1, <2>2 DEF ContenderAt, StandDown, Takeover, Candidacy
<1> QED
  BY <1>10, <1>11

\* Hooks and the command make a hot node active.
LEMMA TakeoverMoves ==
    ASSUME OnlyDropouts, ContenderInv, TypeOK', Undisturbed', NEW n \in Nodes, Manager(n),
           pc[n] \in Takeover
    PROVE  Moves(n) /\ ContenderAt(n)'
<1>1. TypeOK /\ Undisturbed /\ ContenderAt(n) /\ Step(n)
  BY ManagerSteps DEF ContenderInv, IInv
<1>2. /\ gs'[n] = gs[n]
      /\ \/ /\ pc[n] = "preActive" /\ identity'[n] = identity[n]
            /\ pc'[n] = "runActive" /\ wait'[n] = wait[n]
         \/ /\ pc[n] = "runActive" /\ identity'[n] = "active"
            /\ pc'[n] = "idle" /\ wait'[n] = PollDelay(gs[n])
  BY <1>1 DEF Step, StandDown, Takeover
<1>3. identity[n] = "passive" /\ Capable(n)
  BY <1>1 DEF ContenderAt
<1>4. linked[n] => adverts[n] = {"passive"}
  BY <1>1, <1>3 DEF ContenderAt
<1>5. ~Shown(n) \/ ~linked[n]
  BY <1>4 DEF Shown
<1>6. /\ adverts' = adverts /\ clock' = clock /\ linked' = linked
      /\ Shown(n)' = Shown(n) /\ Capable(n)' = Capable(n) /\ Unnoticed(n)' = Unnoticed(n)
  BY <1>1, OwnContext
<1>7. LooksRight(n) /\ LooksRight(n)'
  BY <1>1, LooksNow, LooksNext DEF Undisturbed
<1>8. Unnoticed(n) \in 0 .. NoticeLag
  BY <1>1, UnnoticedBound
<1>9. Looks(n, "hot", wait[n], 0, 0)
  BY <1>3, <1>7 DEF LooksRight
<1>10. Moves(n)
  <2>1. CASE pc[n] = "preActive"
    <3>1. pc'[n] \in Takeover /\ identity'[n] = "passive" /\ wait'[n] = wait[n]
      BY <1>2, <1>3, <2>1 DEF Takeover
    <3>2. Looks(n, "hot", wait[n], 0, 0)'
      BY <1>3, <1>6, <1>7, <3>1 DEF LooksRight
    <3> QED
      BY <1>9, <3>1, <3>2 DEF Looks, Stays, Moves
  <2>2. CASE pc[n] = "runActive" /\ linked[n]
    <3>1. Looks(n, "pending", Unnoticed(n), 0, 0)'
      BY <1>2, <1>5, <1>6, <1>7, <2>2 DEF LooksRight
    <3>2. Left'[n] \in 0 .. NoticeLag
      BY <1>6, <1>8, <3>1 DEF Looks
    <3> QED
      BY <1>9, <3>1, <3>2 DEF Looks, Moves
  <2>3. CASE pc[n] = "runActive" /\ ~linked[n]
    <3>1. Looks(n, "out", 0, 0, 0)'
      BY <1>2, <1>6, <1>7, <2>3 DEF LooksRight
    <3> QED
      BY <1>9, <3>1 DEF Looks, Moves
  <2> QED
    BY <2>1, <2>2, <2>3 DEF Takeover
<1>11. ContenderAt(n)'
  <2>1. CASE pc[n] = "preActive"
    BY <1>2, <1>3, <1>4, <1>6, <2>1 DEF ContenderAt, StandDown, Takeover, Candidacy
  <2>2. CASE pc[n] = "runActive"
    <3>1. gs[n].count # Threshold - 1
      <4>1. JustifiedAt(pc[n], gs[n], trigger[n])
        BY DEF ContenderInv, IInv, NodeInv
      <4>2. gs[n].count >= Threshold
        BY <2>2, <4>1 DEF JustifiedAt, OnlyDropouts, Evaluating, Takeover
      <4>3. gs[n].count \in Nat
        BY <1>1, MaxCountAssumption DEF TypeOK, Views
      <4> QED
        BY <4>2, <4>3, ContestConstants
    <3>2. clock + PollDelay(gs[n]) = PollInterval
      BY <1>1, <3>1, DelayAhead
    <3>3. clock' + wait'[n] = PollInterval
      BY <1>2, <1>6, <2>2, <3>2
    <3> QED
      BY <1>2, <1>6, <2>2, <3>3 DEF ContenderAt, StandDown, Takeover, Candidacy
  <2> QED
    BY <2>1, <2>2 DEF Takeover
<1> QED
  BY <1>10, <1>11

\* A node that stands down is out already.
LEMMA StandDownMoves ==
    ASSUME OnlyDropouts, ContenderInv, TypeOK', Undisturbed', NEW n \in Nodes, Manager(n),
           pc[n] \in StandDown
    PROVE  Moves(n) /\ ContenderAt(n)'
<1>1. TypeOK /\ Undisturbed /\ ContenderAt(n) /\ Step(n)
  BY ManagerSteps DEF ContenderInv, IInv
<1>2. identity'[n] \in {identity[n], "passive"} /\ pc'[n] \in StandDown \cup {"idle"}
  BY <1>1 DEF Step, StandDown
<1>3. ~linked[n] /\ "passive" \notin adverts[n]
  BY <1>1 DEF ContenderAt
<1>4. adverts' = adverts /\ linked' = linked /\ Capable(n)' = Capable(n)
  BY <1>1, OwnContext
<1>5. LooksRight(n) /\ LooksRight(n)'
  BY <1>1, LooksNow, LooksNext DEF Undisturbed
<1>6. Looks(n, "out", 0, 0, 0)
  BY <1>3, <1>5 DEF LooksRight
<1>7. Looks(n, "out", 0, 0, 0)'
  BY <1>2, <1>3, <1>4, <1>5 DEF LooksRight
<1>8. Moves(n)
  BY <1>6, <1>7 DEF Looks, Stays, Moves
<1>9. ContenderAt(n)'
  BY <1>2, <1>3, <1>4 DEF ContenderAt, StandDown, Takeover, Candidacy
<1> QED
  BY <1>8, <1>9

\* Another manager's step leaves a node as it looks.
LEMMA OthersStay ==
    ASSUME TypeOK, NEW n \in Nodes, Manager(n), NEW m \in Nodes \ {n}
    PROVE  /\ Stays(m)
           /\ ContenderAt(m) => ContenderAt(m)'
<1>1. pc'[m] = pc[m] /\ gs'[m] = gs[m] /\ identity'[m] = identity[m] /\ wait'[m] = wait[m]
  BY ManagerFrame, ManagerLeaves
<1>2. UNCHANGED <<healthy, longEnough, cluster, time>>
  BY ManagerLeaves
<1>3. UNCHANGED <<healthy, longEnough, linked, clusterRpc, adverts, votes, lag, voteLag, clock>>
  BY <1>2 DEF cluster, time
<1>4. Stays(m)
  BY <1>1, <1>3, NodeSame DEF Stays
<1>5. Shown(m)' = Shown(m) /\ Capable(m)' = Capable(m)
  BY <1>3 DEF Shown, Capable
<1>6. ContenderAt(m) => ContenderAt(m)'
  BY <1>1, <1>3, <1>5 DEF ContenderAt
<1> QED
  BY <1>4, <1>6

\* A manager's step disturbs nothing.
LEMMA ManagerUndisturbed ==
    ASSUME OnlyDropouts, TypeOK, Undisturbed, NEW n \in Nodes, Manager(n)
    PROVE  Undisturbed'
<1>1. UNCHANGED <<localRpc, cluster, time>>
  BY ManagerLeaves
<1>2. pc'[n] # "down"
  <2>1. Step(n)
    BY ManagerSteps
  <2>2. pc'[n] \in {"idle", "streak", "identity", "sleeping", "preActive", "runActive"}
                       \cup StandDown \cup {AfterPoll(n, Known(n))}
    BY <2>1 DEF Step
  <2>3. AfterPoll(n, Known(n)) # "down"
    BY DEF AfterPoll
  <2> QED
    BY <2>2, <2>3 DEF StandDown
<1>3. \A m \in Nodes : pc'[m] # "down"
  BY <1>2, ManagerFrame DEF Undisturbed
<1> QED
  BY <1>1, <1>3 DEF Undisturbed, cluster, time

\* The variables of the contest are functions, each of its values where it is.
LEMMA ContestFunctions ==
    /\ Stage = [n \in Nodes |-> Stage[n]] /\ Stage' = [n \in Nodes |-> Stage'[n]]
    /\ Left = [n \in Nodes |-> Left[n]] /\ Left' = [n \in Nodes |-> Left'[n]]
    /\ Count = [n \in Nodes |-> Count[n]] /\ Count' = [n \in Nodes |-> Count'[n]]
    /\ RankIn = [n \in Nodes |-> RankIn[n]] /\ RankIn' = [n \in Nodes |-> RankIn'[n]]
  BY DEF Stage, Left, Count, RankIn

\* Nobody but a calm node counts, and nobody but a contender has a rank.
LEMMA CountsAndRanks ==
    /\ \A n \in Nodes : Stage[n] # "calm" => Count[n] = 0
    /\ \A n \in Nodes : Stage[n] \notin {"candidate", "asleep"} => RankIn[n] = 0
  BY DEF Stage, Count, RankIn, CountOf, RankOf

\* Gossip settles, node by node.
LEMMA SettleFromParts ==
    ASSUME Contest!TypeOK, clock' = clock,
           \A n \in Nodes :
              \/ Stays(n)
              \/ /\ Stage[n] = "pending" /\ Stage'[n] = "pending"
                 /\ Left'[n] \in Nat /\ Left'[n] <= Left[n] /\ Count'[n] = 0 /\ RankIn'[n] = 0
              \/ /\ Stage[n] = "pending" /\ Stage'[n] = "leader"
                 /\ Left'[n] = 0 /\ Count'[n] = 0 /\ RankIn'[n] = 0
              \/ /\ Stage[n] \in {"pending", "calm", "leader"} /\ Stage'[n] = "out"
                 /\ Left'[n] = 0 /\ Count'[n] = 0 /\ RankIn'[n] = 0,
           Dark /\ ~Dark' => \E n \in Nodes : Stage[n] \in {"pending", "leader"},
           \A n \in Nodes : Stage[n] \in {"out", "leader"} => Left[n] = 0
    PROVE  Contest!Settle
<1>1. \A n \in Nodes : /\ Stage[n] \in Contest!Stages /\ Left[n] \in Nat
                       /\ Count[n] \in Nat /\ RankIn[n] \in Nat
  BY ContestConstants DEF Contest!TypeOK
<1>2. \A n \in Nodes : Stage'[n] \in Contest!Stages /\ Left'[n] \in Nat
  BY <1>1 DEF Stays, Contest!Stages
<1>3. Stage' \in [Nodes -> Contest!Stages] /\ Left' \in [Nodes -> Nat] /\ Dark' \in BOOLEAN
  BY <1>2, ContestFunctions DEF Dark
<1>4. ASSUME NEW n \in Nodes
      PROVE  /\ Stage'[n] \in Contest!Fates(Stage[n])
             /\ Stage'[n] = "leader" => ~Dark'
             /\ CASE Stage'[n] = "pending"           -> Left'[n] <= Left[n]
                  [] Stage'[n] \in {"out", "leader"} -> Left'[n] = 0
                  [] OTHER                           -> Left'[n] = Left[n]
  <2>1. Stage'[n] \in Contest!Fates(Stage[n])
    BY DEF Stays, Contest!Fates
  <2>2. Stage'[n] = "leader" => ~Dark'
    BY LeaderShowsNext
  <2>3. CASE Stage'[n] = "pending"
    BY <1>1, <2>1, <2>2, <2>3 DEF Stays
  <2>4. CASE Stage'[n] \in {"out", "leader"}
    BY <2>1, <2>2, <2>4 DEF Stays
  <2>5. CASE Stage'[n] \notin {"pending", "out", "leader"}
    BY <2>1, <2>2, <2>5 DEF Stays
  <2> QED
    BY <2>3, <2>4, <2>5
<1>5. \A n \in Nodes : Count'[n] = IF Stage'[n] = "calm" THEN Count[n] ELSE 0
  BY CountsAndRanks DEF Stays
<1>6. \A n \in Nodes : RankIn'[n] = RankIn[n]
  BY CountsAndRanks DEF Stays
<1>7. Count' = [n \in Nodes |-> IF Stage'[n] = "calm" THEN Count[n] ELSE 0] /\ RankIn' = RankIn
  BY <1>5, <1>6, ContestFunctions
<1>8. Dark /\ ~Dark' => Contest!At("pending") \cup Contest!At("leader") # {}
  BY DEF Contest!At
<1> QED
  BY <1>3, <1>4, <1>7, <1>8 DEF Contest!Settle

\* Who is out or leads waits for nothing.
LEMMA OutHasNoTime ==
    \A n \in Nodes : Stage[n] \in {"out", "leader"} => Left[n] = 0
  BY DEF Stage, Left, LeftOf

\* A step of a manager is one of its node in the contest, or none.
LEMMA ManagerContests ==
    ASSUME Contest!TypeOK, TypeOK, NEW n \in Nodes, Manager(n), Moves(n)
    PROVE  [Contest!Next]_(Contest!contest)
<1>1. \A m \in Nodes \ {n} : Stays(m)
  BY OthersStay
<1>2. clock' = clock /\ Dark' = Dark
  BY OwnContext
<1>3. \A m \in Nodes : m # n => Stays(m)
  BY <1>1
<1>4. /\ Stage = [m \in Nodes |-> Stage[m]] /\ Left = [m \in Nodes |-> Left[m]]
  BY ContestFunctions
<1>5. CASE Stays(n)
  <2>1. \A m \in Nodes : Stays(m)
    BY <1>3, <1>5
  <2>2. Stage' = Stage /\ Left' = Left /\ Count' = Count /\ RankIn' = RankIn
    BY <2>1, ContestFunctions DEF Stays
  <2> QED
    BY <1>2, <2>2 DEF Contest!contest
<1>6. CASE Count'[n] = Count[n] /\ RankIn'[n] = RankIn[n]
  <2>1. Count' = Count /\ RankIn' = RankIn
    BY <1>3, <1>6, ContestFunctions DEF Stays
  <2>2. \A s : Stage'[n] = s => Stage' = [Stage EXCEPT ![n] = s]
    <3>1. \A m \in Nodes : m # n => Stage'[m] = Stage[m]
      BY <1>3 DEF Stays
    <3> QED
      BY <3>1, ContestFunctions
  <2>3. \A l : Left'[n] = l => Left' = [Left EXCEPT ![n] = l]
    <3>1. \A m \in Nodes : m # n => Left'[m] = Left[m]
      BY <1>3 DEF Stays
    <3> QED
      BY <3>1, ContestFunctions
  <2>4. CASE /\ Stage[n] = "candidate" /\ RankIn[n] > 0
             /\ Stage'[n] = "asleep" /\ Left'[n] = RankIn[n] * PollInterval
    BY <1>2, <2>1, <2>2, <2>3, <2>4 DEF Contest!Sleep, Contest!Next
  <2>5. CASE /\ Stage[n] = "candidate" /\ RankIn[n] = 0
             /\ Stage'[n] = "hot" /\ Left'[n] = Left[n]
    <3>1. Left' = Left
      BY <1>3, <2>5, ContestFunctions DEF Stays
    <3> QED
      BY <1>2, <2>1, <2>2, <2>5, <3>1 DEF Contest!Advance, Contest!Next
  <2>6. CASE Stage[n] = "hot" /\ Stage'[n] = "pending" /\ Left'[n] \in 0 .. NoticeLag
    BY <1>2, <2>1, <2>2, <2>3, <2>6 DEF Contest!Win, Contest!Next
  <2>7. CASE Stage[n] = "hot" /\ Stage'[n] = "out" /\ Left'[n] = 0
    BY <1>2, <2>1, <2>2, <2>3, <2>7 DEF Contest!Win, Contest!Next
  <2>8. CASE Stays(n)
    BY <1>5, <2>8
  <2>9. CASE Stage[n] = "calm" /\ Stage'[n] = "out" /\ Left'[n] = 0 /\ Count'[n] = 0
    <3>1. RankIn'[n] = 0
      BY <1>6, <2>9, CountsAndRanks
    <3>2. Contest!Settle
      BY <1>2, <1>3, <2>9, <3>1, OutHasNoTime, SettleFromParts
    <3> QED
      BY <3>2 DEF Contest!Next
  <2> QED
    BY <2>4, <2>5, <2>6, <2>7, <2>8, <2>9 DEF Moves
<1>7. CASE Stage[n] = "calm" /\ Stage'[n] = "out" /\ Left'[n] = 0 /\ Count'[n] = 0
           /\ RankIn'[n] = RankIn[n]
  <2>1. RankIn'[n] = 0
    BY <1>7, CountsAndRanks
  <2>2. Contest!Settle
    BY <1>2, <1>3, <1>7, <2>1, OutHasNoTime, SettleFromParts
  <2> QED
    BY <2>2 DEF Contest!Next
<1> QED
  BY <1>5, <1>6, <1>7 DEF Moves

\* Together: what ContenderInv says is kept, and the contest goes on.
LEMMA ManagerRefines ==
    ASSUME Contest!Room, Contest!TypeOK, OnlyDropouts, ContenderInv, IInv',
           NEW n \in Nodes, Manager(n)
    PROVE  ContenderInv' /\ [Contest!Next]_(Contest!contest)
<1>1. TypeOK /\ TypeOK' /\ Undisturbed
  BY DEF ContenderInv, IInv
<1>2. Undisturbed'
  BY <1>1, ManagerUndisturbed
<1>3. pc[n] \in {"idle", "sleeping"} \cup Candidacy \cup Takeover \cup StandDown
  BY <1>1 DEF TypeOK, Locations, Evaluating, Undisturbed
<1>4. Moves(n) /\ ContenderAt(n)'
  BY <1>1, <1>2, <1>3, PollMoves, CandidacyMoves, WakeMoves, TakeoverMoves, StandDownMoves
<1>5. \A m \in Nodes \ {n} : ContenderAt(m)'
  BY <1>1, OthersStay DEF ContenderInv
<1>6. ContenderInv'
  BY <1>2, <1>4, <1>5 DEF ContenderInv
<1> QED
  BY <1>1, <1>4, <1>6, ManagerContests

---------------------------------------------------------------------------
(* What gossip, the votes and a node that drops out are in the contest.     *)

\* What a node looks like after gossip, votes or membership have changed.
LEMMA QuietLooks ==
    ASSUME OnlyDropouts, ContenderInv, TypeOK', Undisturbed', MayChange,
           UNCHANGED <<validators, managers, time>>, NEW n \in Nodes
    PROVE  /\ identity'[n] = identity[n] /\ Capable(n)' = Capable(n)
           /\ pc'[n] = pc[n] /\ clock' = clock
           /\ identity[n] = "active" /\ ~linked[n] => Looks(n, "out", 0, 0, 0)
           /\ identity[n] = "active" /\ linked[n] /\ Shown(n) => Looks(n, "leader", 0, 0, 0)
           /\ identity[n] = "active" /\ linked[n] /\ ~Shown(n) =>
                  Looks(n, "pending", Unnoticed(n), 0, 0)
           /\ identity[n] = "active" /\ ~linked'[n] => Looks(n, "out", 0, 0, 0)'
           /\ identity[n] = "active" /\ linked'[n] /\ Shown(n)' => Looks(n, "leader", 0, 0, 0)'
           /\ identity[n] = "active" /\ linked'[n] /\ ~Shown(n)' =>
                  Looks(n, "pending", Unnoticed(n), 0, 0)'
           /\ identity[n] # "active" /\ ("passive" \in adverts'[n] <=> "passive" \in adverts[n]) =>
                  Stays(n)
           /\ identity[n] # "active" /\ "passive" \in adverts[n] =>
                  \/ Stays(n)
                  \/ /\ Stage[n] = "calm" /\ Stage'[n] = "out"
                     /\ Left'[n] = 0 /\ Count'[n] = 0 /\ RankIn'[n] = 0
<1>1. TypeOK /\ Undisturbed
  BY DEF ContenderInv, IInv
<1>2. /\ identity' = identity /\ healthy' = healthy /\ longEnough' = longEnough
      /\ pc' = pc /\ gs' = gs /\ wait' = wait /\ clock' = clock
  BY DEF validators, managers, time
<1>3. Capable(n)' = Capable(n)
  BY <1>2 DEF Capable
<1>4. pc[n] \in {"idle", "sleeping"} => wait[n] # 0
  BY <1>1, ChangesAreQuiet
<1>5. LooksRight(n) /\ LooksRight(n)'
  BY <1>1, LooksNow, LooksNext DEF Undisturbed
<1>6. pc[n] \in {"idle", "sleeping"} \cup Candidacy \cup Takeover \cup StandDown
  BY <1>1 DEF TypeOK, Locations, Evaluating, Undisturbed
<1>7. RankAmong(n, gs[n])' = RankAmong(n, gs[n])
  BY <1>2 DEF RankAmong
<1>8. ASSUME identity[n] # "active", ~Capable(n) PROVE Stays(n)
  <2>1. Looks(n, "out", 0, 0, 0)
    BY <1>5, <1>8 DEF LooksRight
  <2>2. Looks(n, "out", 0, 0, 0)'
    BY <1>2, <1>3, <1>5, <1>8 DEF LooksRight
  <2> QED
    BY <2>1, <2>2 DEF Looks, Stays
<1>9. ASSUME identity[n] # "active", Capable(n), pc[n] # "idle" PROVE Stays(n)
  <2>1. CASE pc[n] \in StandDown
    <3>1. Looks(n, "out", 0, 0, 0)
      BY <1>5, <1>9, <2>1 DEF LooksRight
    <3>2. Looks(n, "out", 0, 0, 0)'
      BY <1>2, <1>3, <1>5, <1>9, <2>1 DEF LooksRight
    <3> QED
      BY <3>1, <3>2 DEF Looks, Stays
  <2>2. CASE pc[n] \in Candidacy
    <3>1. Looks(n, "candidate", wait[n], 0, RankAmong(n, gs[n]))
      BY <1>5, <1>9, <2>2 DEF LooksRight
    <3>2. Looks(n, "candidate", wait[n], 0, RankAmong(n, gs[n]))'
      BY <1>2, <1>3, <1>5, <1>9, <2>2 DEF LooksRight
    <3> QED
      BY <1>2, <1>7, <3>1, <3>2 DEF Looks, Stays
  <2>3. CASE pc[n] = "sleeping"
    <3>1. Looks(n, "asleep", wait[n], 0, RankAmong(n, gs[n]))
      BY <1>4, <1>5, <1>9, <2>3 DEF LooksRight
    <3>2. Looks(n, "asleep", wait[n], 0, RankAmong(n, gs[n]))'
      BY <1>2, <1>3, <1>4, <1>5, <1>9, <2>3 DEF LooksRight
    <3> QED
      BY <1>2, <1>7, <3>1, <3>2 DEF Looks, Stays
  <2>4. CASE pc[n] \in Takeover
    <3>1. Looks(n, "hot", wait[n], 0, 0)
      BY <1>5, <1>9, <2>4 DEF LooksRight
    <3>2. Looks(n, "hot", wait[n], 0, 0)'
      BY <1>2, <1>3, <1>5, <1>9, <2>4 DEF LooksRight
    <3> QED
      BY <1>2, <3>1, <3>2 DEF Looks, Stays
  <2> QED
    BY <1>6, <1>9, <2>1, <2>2, <2>3, <2>4
<1>10. ASSUME identity[n] # "active", Capable(n), pc[n] = "idle"
       PROVE  /\ "passive" \in adverts[n] => Looks(n, "calm", wait[n], gs[n].count, 0)
              /\ "passive" \notin adverts[n] => Looks(n, "out", 0, 0, 0)
              /\ "passive" \in adverts'[n] => Looks(n, "calm", wait[n], gs[n].count, 0)'
              /\ "passive" \notin adverts'[n] => Looks(n, "out", 0, 0, 0)'
  <2>1. /\ "passive" \in adverts[n] => Looks(n, "calm", wait[n], gs[n].count, 0)
        /\ "passive" \notin adverts[n] => Looks(n, "out", 0, 0, 0)
    BY <1>4, <1>5, <1>10 DEF LooksRight
  <2>2. "passive" \in adverts'[n] => Looks(n, "calm", wait[n], gs[n].count, 0)'
    BY <1>2, <1>3, <1>4, <1>5, <1>10 DEF LooksRight
  <2>3. "passive" \notin adverts'[n] => Looks(n, "out", 0, 0, 0)'
    BY <1>2, <1>3, <1>5, <1>10 DEF LooksRight
  <2> QED
    BY <2>1, <2>2, <2>3
<1>11. /\ identity[n] # "active" /\ ("passive" \in adverts'[n] <=> "passive" \in adverts[n]) =>
              Stays(n)
       /\ identity[n] # "active" /\ "passive" \in adverts[n] =>
              \/ Stays(n)
              \/ /\ Stage[n] = "calm" /\ Stage'[n] = "out"
                 /\ Left'[n] = 0 /\ Count'[n] = 0 /\ RankIn'[n] = 0
  BY <1>2, <1>8, <1>9, <1>10 DEF Looks, Stays
<1>12. /\ identity[n] = "active" /\ ~linked[n] => Looks(n, "out", 0, 0, 0)
       /\ identity[n] = "active" /\ linked[n] /\ Shown(n) => Looks(n, "leader", 0, 0, 0)
       /\ identity[n] = "active" /\ linked[n] /\ ~Shown(n) =>
              Looks(n, "pending", Unnoticed(n), 0, 0)
  BY <1>5 DEF LooksRight
<1>13. /\ identity[n] = "active" /\ ~linked'[n] => Looks(n, "out", 0, 0, 0)'
       /\ identity[n] = "active" /\ linked'[n] /\ Shown(n)' => Looks(n, "leader", 0, 0, 0)'
       /\ identity[n] = "active" /\ linked'[n] /\ ~Shown(n)' =>
              Looks(n, "pending", Unnoticed(n), 0, 0)'
  BY <1>2, <1>5 DEF LooksRight
<1> QED
  BY <1>2, <1>3, <1>11, <1>12, <1>13

\* A node that the change is not about stays as it is.
LEMMA QuietSame ==
    ASSUME OnlyDropouts, ContenderInv, TypeOK', Undisturbed', MayChange,
           UNCHANGED <<validators, managers, time>>, NEW n \in Nodes,
           adverts'[n] = adverts[n], votes' = votes, linked'[n] = linked[n]
    PROVE  Stays(n) /\ ContenderAt(n)'
<1>1. /\ Shown(n)' = Shown(n) /\ Capable(n)' = Capable(n) /\ Unnoticed(n)' = Unnoticed(n)
      /\ identity'[n] = identity[n] /\ pc'[n] = pc[n] /\ wait'[n] = wait[n] /\ clock' = clock
      /\ healthy'[n] = healthy[n] /\ gs'[n] = gs[n]
  BY DEF Shown, Capable, Unnoticed, validators, managers, time
<1>2. identity[n] = "active" => Stays(n)
  BY <1>1, QuietLooks DEF Looks, Stays
<1>3. identity[n] # "active" => Stays(n)
  BY QuietLooks
<1>4. ContenderAt(n)
  BY DEF ContenderInv
<1>5. ContenderAt(n)'
  BY <1>1, <1>4 DEF ContenderAt
<1> QED
  BY <1>2, <1>3, <1>5

\* Gossip shows a new leader, and shows nothing else that is new.
LEMMA PublishRefines ==
    ASSUME Contest!TypeOK, OnlyDropouts, ContenderInv, IInv', NEW k \in Nodes, Publish(k)
    PROVE  ContenderInv' /\ Contest!Settle
<1>1. /\ TypeOK /\ TypeOK' /\ Undisturbed /\ ContenderAt(k) /\ MayChange
      /\ UNCHANGED <<validators, managers, time, linked, ghost, votes, clusterRpc>>
      /\ linked[k] /\ identity[k] \notin adverts[k]
      /\ adverts' = [adverts EXCEPT ![k] = @ \cup {identity[k]}]
  BY DEF Publish, ContenderInv, IInv
<1>2. adverts'[k] = adverts[k] \cup {identity[k]} /\ \A h \in Hosts \ {k} : adverts'[h] = adverts[h]
  BY <1>1 DEF TypeOK, Answers, Hosts
<1>3. identity[k] = "active"
  BY <1>1 DEF ContenderAt, TypeOK, Roles
<1>4. Undisturbed'
  BY <1>1, <1>2, NodesAssumption DEF Undisturbed, validators, managers, time, Hosts
<1>5. clock' = clock
  BY <1>1 DEF time
<1>6. \A n \in Nodes \ {k} : Stays(n) /\ ContenderAt(n)'
  BY <1>1, <1>2, <1>4, QuietSame DEF Hosts
<1>7. ~Shown(k)
  BY <1>1, <1>3 DEF Shown
<1>8. Stage[k] = "pending" /\ Left[k] = Unnoticed(k) /\ Count[k] = 0 /\ RankIn[k] = 0
  BY <1>1, <1>3, <1>4, <1>7, QuietLooks DEF Looks
<1>9. \/ Stage'[k] = "leader" /\ Left'[k] = 0 /\ Count'[k] = 0 /\ RankIn'[k] = 0
      \/ /\ Stage'[k] = "pending" /\ Left'[k] = Unnoticed(k)'
         /\ Count'[k] = 0 /\ RankIn'[k] = 0
  BY <1>1, <1>3, <1>4, QuietLooks DEF Looks
<1>10. Unnoticed(k)' \in Nat /\ Unnoticed(k) \in Nat /\ Unnoticed(k)' <= Unnoticed(k)
  <2>1. "active" \notin adverts[k] /\ "active" \in adverts'[k] /\ votes' = votes
        /\ lag' = lag /\ voteLag' = voteLag
    BY <1>1, <1>2, <1>3 DEF time
  <2> QED
    BY <1>1, <2>1 DEF Unnoticed, TypeOK
<1>11. Contest!Settle
  BY <1>5, <1>6, <1>8, <1>9, <1>10, OutHasNoTime, SettleFromParts
<1>12. ContenderAt(k)'
  <2>1. /\ identity'[k] = identity[k] /\ linked'[k] = linked[k] /\ pc'[k] = pc[k]
        /\ wait'[k] = wait[k] /\ clock' = clock
    BY <1>1 DEF validators, managers, time
  <2>2. pc[k] = "idle" /\ clock + wait[k] = PollInterval
    BY <1>1, <1>3, <1>7 DEF ContenderAt
  <2> QED
    BY <1>3, <2>1, <2>2 DEF ContenderAt, StandDown, Takeover, Candidacy
<1>13. \A n \in Nodes : ContenderAt(n)'
  BY <1>6, <1>12
<1> QED
  BY <1>4, <1>11, <1>13 DEF ContenderInv

\* Gossip forgets a node that has dropped out, or the past of a leader.
LEMMA ExpireRefines ==
    ASSUME Contest!TypeOK, OnlyDropouts, ContenderInv, IInv', NEW k \in Nodes, Expire(k)
    PROVE  ContenderInv' /\ Contest!Settle
<1>1. /\ TypeOK /\ TypeOK' /\ Undisturbed /\ ContenderAt(k) /\ MayChange
      /\ UNCHANGED <<validators, managers, time, linked, ghost, votes, clusterRpc>>
      /\ ~(adverts[k] \subseteq TrueAdvert(k))
      /\ adverts' = [adverts EXCEPT ![k] = @ \cap TrueAdvert(k)]
  BY DEF Expire, ContenderInv, IInv
<1>2. adverts'[k] = adverts[k] \cap TrueAdvert(k) /\ \A h \in Hosts \ {k} : adverts'[h] = adverts[h]
  BY <1>1 DEF TypeOK, Answers, Hosts
<1>3. Undisturbed'
  BY <1>1, <1>2, NodesAssumption DEF Undisturbed, validators, managers, time, Hosts
<1>4. clock' = clock
  BY <1>1 DEF time
<1>5. \A n \in Nodes \ {k} : Stays(n) /\ ContenderAt(n)'
  BY <1>1, <1>2, <1>3, QuietSame DEF Hosts
<1>6. /\ identity'[k] = identity[k] /\ linked'[k] = linked[k] /\ pc'[k] = pc[k]
      /\ wait'[k] = wait[k] /\ clock' = clock /\ votes' = votes /\ lag' = lag
      /\ voteLag' = voteLag /\ healthy'[k] = healthy[k] /\ gs'[k] = gs[k]
      /\ longEnough'[k] = longEnough[k]
  BY <1>1 DEF validators, managers, time
<1>7. identity[k] \in {"active", "passive"}
  BY <1>1 DEF TypeOK, Roles
<1>8. \/ Stays(k)
      \/ /\ Stage[k] = "calm" /\ Stage'[k] = "out"
         /\ Left'[k] = 0 /\ Count'[k] = 0 /\ RankIn'[k] = 0
  <2>1. CASE identity[k] = "active"
    <3>1. linked[k] => ("active" \in adverts'[k] <=> "active" \in adverts[k])
      BY <1>2, <2>1 DEF TrueAdvert
    <3>2. linked[k] => Shown(k)' = Shown(k) /\ Unnoticed(k)' = Unnoticed(k)
      BY <1>6, <3>1 DEF Shown, Unnoticed
    <3> QED
      BY <1>1, <1>3, <1>6, <2>1, <3>2, QuietLooks DEF Looks, Stays
  <2>2. CASE identity[k] # "active" /\ "passive" \in adverts[k]
    BY <1>1, <1>3, <2>2, QuietLooks
  <2>3. CASE identity[k] # "active" /\ "passive" \notin adverts[k]
    BY <1>1, <1>2, <1>3, <2>3, QuietLooks
  <2> QED
    BY <2>1, <2>2, <2>3
<1>9. ~(Dark /\ ~Dark')
  <2>1. \A h \in Hosts : adverts'[h] \subseteq adverts[h]
    BY <1>2
  <2> QED
    BY <1>6, <2>1 DEF Dark, Leaders, Claimants, Verdict
<1>10. Contest!Settle
  <2>1. \A n \in Nodes : \/ Stays(n)
                         \/ /\ Stage[n] = "calm" /\ Stage'[n] = "out"
                            /\ Left'[n] = 0 /\ Count'[n] = 0 /\ RankIn'[n] = 0
    BY <1>5, <1>8
  <2> QED
    BY <1>4, <1>9, <2>1, OutHasNoTime, SettleFromParts
<1>11. ContenderAt(k)'
  <2>1. linked[k] /\ identity[k] = "active" => Shown(k)' = Shown(k)
    BY <1>2, <1>6 DEF TrueAdvert, Shown
  <2>2. linked[k] /\ identity[k] = "passive" => adverts'[k] = {"passive"}
    BY <1>1, <1>2 DEF ContenderAt, TrueAdvert
  <2>3. Capable(k)' = Capable(k)
    BY <1>6 DEF Capable
  <2> QED
    BY <1>1, <1>2, <1>6, <2>1, <2>2, <2>3 DEF ContenderAt
<1>12. \A n \in Nodes : ContenderAt(n)'
  BY <1>5, <1>11
<1> QED
  BY <1>3, <1>10, <1>12 DEF ContenderInv

\* The votes of a leader that gossip shows, or will show, are seen.
LEMMA VotesLandRefines ==
    ASSUME Contest!TypeOK, OnlyDropouts, ContenderInv, IInv', VotesLand
    PROVE  ContenderInv' /\ Contest!Settle
<1>1. /\ TypeOK /\ TypeOK' /\ Undisturbed /\ MayChange
      /\ UNCHANGED <<validators, managers, time, linked, ghost, adverts, clusterRpc>>
      /\ votes # "current" /\ votes' = "current" /\ Voters # {}
  BY DEF VotesLand, ContenderInv, IInv
<1>2. Undisturbed'
  BY <1>1 DEF Undisturbed, validators, managers, time
<1>3. /\ clock' = clock /\ linked' = linked /\ adverts' = adverts /\ identity' = identity
      /\ pc' = pc /\ wait' = wait /\ healthy' = healthy /\ longEnough' = longEnough
      /\ gs' = gs /\ lag' = lag /\ voteLag' = voteLag
  BY <1>1 DEF validators, managers, time
<1>4. ASSUME NEW n \in Nodes
      PROVE  \/ Stays(n)
             \/ /\ Stage[n] = "pending" /\ Stage'[n] = "pending"
                /\ Left'[n] \in Nat /\ Left'[n] <= Left[n] /\ Count'[n] = 0 /\ RankIn'[n] = 0
             \/ /\ Stage[n] = "pending" /\ Stage'[n] = "leader"
                /\ Left'[n] = 0 /\ Count'[n] = 0 /\ RankIn'[n] = 0
  <2>1. CASE identity[n] # "active"
    BY <1>1, <1>2, <1>3, <2>1, QuietLooks
  <2>2. CASE identity[n] = "active" /\ ~linked[n]
    BY <1>1, <1>2, <1>3, <2>2, QuietLooks DEF Looks, Stays
  <2>3. CASE identity[n] = "active" /\ linked[n]
    <3>1. ~Shown(n)
      BY <1>1 DEF Shown
    <3>2. Stage[n] = "pending" /\ Left[n] = Unnoticed(n)
      BY <1>1, <1>2, <2>3, <3>1, QuietLooks DEF Looks
    <3>3. \/ Stage'[n] = "leader" /\ Left'[n] = 0 /\ Count'[n] = 0 /\ RankIn'[n] = 0
          \/ /\ Stage'[n] = "pending" /\ Left'[n] = Unnoticed(n)'
             /\ Count'[n] = 0 /\ RankIn'[n] = 0
      BY <1>1, <1>2, <1>3, <2>3, QuietLooks DEF Looks
    <3>4. Unnoticed(n)' \in Nat /\ Unnoticed(n) \in Nat /\ Unnoticed(n)' <= Unnoticed(n)
      BY <1>1, <1>3 DEF Unnoticed, TypeOK
    <3> QED
      BY <3>2, <3>3, <3>4
  <2> QED
    BY <2>1, <2>2, <2>3
<1>5. \E n \in Nodes : Stage[n] \in {"pending", "leader"}
  <2>1. PICK h \in Holders : h \in Voters
    BY <1>1 DEF Voters
  <2>2. h \in Nodes /\ linked[h] /\ identity[h] = "active"
    BY <1>1, <2>1 DEF Holders, Undisturbed
  <2>3. Stage[h] \in {"pending", "leader"}
    BY <1>1, <1>2, <2>2, QuietLooks DEF Looks
  <2> QED
    BY <2>2, <2>3
<1>6. Contest!Settle
  BY <1>3, <1>4, <1>5, OutHasNoTime, SettleFromParts
<1>7. ASSUME NEW n \in Nodes PROVE ContenderAt(n)'
  <2>1. ContenderAt(n)
    BY DEF ContenderInv
  <2>2. ~Shown(n)' => ~Shown(n)
    BY <1>1, <1>3 DEF Shown
  <2>3. Capable(n)' = Capable(n)
    BY <1>3 DEF Capable
  <2> QED
    BY <1>3, <2>1, <2>2, <2>3 DEF ContenderAt
<1> QED
  BY <1>2, <1>6, <1>7 DEF ContenderInv

\* The network notices that nobody votes: there is no leader to lose.
LEMMA DeclareDelinquentRefines ==
    ASSUME Contest!TypeOK, OnlyDropouts, ContenderInv, IInv', DeclareDelinquent
    PROVE  ContenderInv' /\ Contest!Settle
<1>1. /\ TypeOK /\ TypeOK' /\ Undisturbed /\ MayChange
      /\ UNCHANGED <<validators, managers, time, linked, ghost, adverts, clusterRpc>>
      /\ votes = "current" /\ Voters = {}
      /\ votes' \in IF Holders = {} THEN {"delinquent"} ELSE {ghost[h] : h \in Holders}
  BY DEF DeclareDelinquent, ContenderInv, IInv
<1>2. Holders = {}
  <2>1. \A h \in Hosts : ghost[h] = "no"
    BY <1>1 DEF Undisturbed
  <2>2. Holders \subseteq Hosts
    BY DEF Holders, Hosts
  <2> QED
    BY <1>1, <2>1, <2>2 DEF Voters
<1>3. votes' = "delinquent"
  BY <1>1, <1>2
<1>4. Undisturbed'
  BY <1>1, <1>3 DEF Undisturbed, validators, managers, time
<1>5. /\ clock' = clock /\ linked' = linked /\ adverts' = adverts /\ identity' = identity
      /\ pc' = pc /\ wait' = wait /\ healthy' = healthy /\ longEnough' = longEnough
      /\ gs' = gs /\ lag' = lag /\ voteLag' = voteLag
  BY <1>1 DEF validators, managers, time
<1>6. \A n \in Nodes : ~(linked[n] /\ identity[n] = "active")
  BY <1>2 DEF Holders
<1>7. ASSUME NEW n \in Nodes PROVE Stays(n)
  <2>1. CASE identity[n] # "active"
    BY <1>1, <1>4, <1>5, <2>1, QuietLooks
  <2>2. CASE identity[n] = "active"
    BY <1>1, <1>4, <1>5, <1>6, <2>2, QuietLooks DEF Looks, Stays
  <2> QED
    BY <2>1, <2>2
<1>8. Dark'
  <2>1. \A h \in Hosts : Verdict(FALSE)'[h] = "delinquent"
    BY <1>3 DEF Verdict
  <2> QED
    BY <2>1 DEF Dark, Leaders, Claimants
<1>9. Contest!Settle
  BY <1>5, <1>7, <1>8, OutHasNoTime, SettleFromParts
<1>10. ASSUME NEW n \in Nodes PROVE ContenderAt(n)'
  <2>1. ContenderAt(n)
    BY DEF ContenderInv
  <2>2. Capable(n)' = Capable(n)
    BY <1>5 DEF Capable
  <2> QED
    BY <1>5, <1>6, <2>1, <2>2 DEF ContenderAt
<1> QED
  BY <1>4, <1>9, <1>10 DEF ContenderInv

\* A node that drops out, leader or not, is out of the contest or still to give up.
LEMMA DropRefines ==
    ASSUME Contest!TypeOK, OnlyDropouts, ContenderInv, IInv', NEW k \in Nodes, Drop(k)
    PROVE  ContenderInv' /\ Contest!Settle
<1>1. /\ TypeOK /\ TypeOK' /\ Undisturbed /\ ContenderAt(k) /\ MayChange
      /\ UNCHANGED <<validators, managers, time, ghost, adverts, votes, clusterRpc>>
      /\ linked' = [linked EXCEPT ![k] = FALSE]
  BY DEF Drop, Inject, ContenderInv, IInv
<1>2. ~linked'[k] /\ \A n \in Nodes \ {k} : linked'[n] = linked[n]
  BY <1>1 DEF TypeOK
<1>3. Undisturbed'
  BY <1>1 DEF Undisturbed, validators, managers, time
<1>4. /\ clock' = clock /\ adverts' = adverts /\ votes' = votes /\ identity' = identity
      /\ pc' = pc /\ wait' = wait /\ healthy' = healthy /\ longEnough' = longEnough /\ gs' = gs
  BY <1>1 DEF validators, managers, time
<1>5. \A n \in Nodes \ {k} : Stays(n) /\ ContenderAt(n)'
  BY <1>1, <1>2, <1>3, <1>4, QuietSame
<1>6. \/ Stays(k)
      \/ /\ Stage[k] \in {"pending", "leader"} /\ Stage'[k] = "out"
         /\ Left'[k] = 0 /\ Count'[k] = 0 /\ RankIn'[k] = 0
  <2>1. CASE identity[k] # "active"
    BY <1>1, <1>3, <1>4, <2>1, QuietLooks
  <2>2. CASE identity[k] = "active"
    BY <1>1, <1>2, <1>3, <2>2, QuietLooks DEF Looks, Stays
  <2> QED
    BY <2>1, <2>2
<1>7. Dark' = Dark
  BY <1>4 DEF Dark, Leaders, Claimants, Verdict
<1>8. Contest!Settle
  <2>1. \A n \in Nodes : \/ Stays(n)
                         \/ /\ Stage[n] \in {"pending", "leader"} /\ Stage'[n] = "out"
                            /\ Left'[n] = 0 /\ Count'[n] = 0 /\ RankIn'[n] = 0
    BY <1>5, <1>6
  <2> QED
    BY <1>4, <1>7, <2>1, OutHasNoTime, SettleFromParts
<1>9. ContenderAt(k)'
  <2>1. Capable(k)' = Capable(k)
    BY <1>4 DEF Capable
  <2> QED
    BY <1>1, <1>2, <1>4, <2>1 DEF ContenderAt
<1>10. \A n \in Nodes : ContenderAt(n)'
  BY <1>5, <1>9
<1> QED
  BY <1>3, <1>8, <1>10 DEF ContenderInv

---------------------------------------------------------------------------
(* What time is in the contest. *)

\* What a tick changes and what it leaves.
LEMMA TickLeaves ==
    ASSUME TypeOK, Undisturbed, Tick, NEW n \in Nodes
    PROVE  /\ UNCHANGED <<identity, healthy, longEnough, linked, adverts, votes, pc, gs>>
           /\ Capable(n)' = Capable(n) /\ Shown(n)' = Shown(n) /\ Dark' = Dark
           /\ wait[n] \in Nat /\ wait[n] # 0 /\ wait'[n] = wait[n] - 1 /\ ~Due(n)
           /\ Known(n) = gs[n]
           /\ \/ clock + 1 < PollInterval /\ clock' = clock + 1
              \/ clock + 1 = PollInterval /\ clock' = 0
<1>1. /\ UNCHANGED <<identity, healthy, longEnough, linked, adverts, votes, pc, gs>>
      /\ wait' = [m \in Nodes |-> IF pc[m] = "down" THEN 0 ELSE wait[m] - 1]
      /\ clock' = (clock + 1) % PollInterval
  BY DEF Tick, validators, cluster
<1>2. wait[n] \in Nat /\ wait[n] > 0 /\ pc[n] # "down"
  BY DEF Tick, TypeOK, Undisturbed
<1>3. wait'[n] = wait[n] - 1
  BY <1>1, <1>2
<1>4. clock \in 0 .. PollInterval - 1
  BY DEF TypeOK
<1>5. \/ clock + 1 < PollInterval /\ clock' = clock + 1
      \/ clock + 1 = PollInterval /\ clock' = 0
  <2>1. CASE clock + 1 < PollInterval
    BY <1>1, <1>4, <2>1, ContestConstants
  <2>2. CASE clock + 1 = PollInterval
    BY <1>1, <1>4, <2>2, ContestConstants
  <2> QED
    BY <1>4, <2>1, <2>2, ContestConstants
<1>6. Capable(n)' = Capable(n) /\ Shown(n)' = Shown(n)
  BY <1>1 DEF Capable, Shown
<1>7. Dark' = Dark
  BY <1>1 DEF Dark, Leaders, Claimants, Verdict
<1>8. ~Due(n) /\ Known(n) = gs[n]
  <2>1. wait[n] # 0
    BY <1>2
  <2> QED
    BY <2>1 DEF Due, Known
<1> QED
  BY <1>1, <1>2, <1>3, <1>5, <1>6, <1>7, <1>8

\* No time passes while a leader is late to be noticed.
LEMMA TickNotices ==
    ASSUME TypeOK, Undisturbed, Tick, NEW n \in Nodes,
           linked[n], identity[n] = "active", ~Shown(n)
    PROVE  Unnoticed(n) \in Nat /\ Unnoticed(n) > 0 /\ Unnoticed(n)' = Unnoticed(n) - 1
<1>1. UNCHANGED <<adverts, votes, linked, identity, ghost>>
  BY DEF Tick, validators, cluster
<1>2. lag[n] \in Nat /\ voteLag \in Nat
  BY DEF TypeOK
<1>3. "active" \notin adverts[n] => lag[n] > 0 /\ lag'[n] = lag[n] - 1
  <2> SUFFICES ASSUME "active" \notin adverts[n] PROVE lag[n] > 0 /\ lag'[n] = lag[n] - 1
    OBVIOUS
  <2>1. ~GossipSettled(n)
    BY DEF GossipSettled, TrueAdvert
  <2> QED
    BY <2>1 DEF Tick
<1>4. votes # "current" => voteLag > 0 /\ voteLag' = voteLag - 1
  <2> SUFFICES ASSUME votes # "current" PROVE voteLag > 0 /\ voteLag' = voteLag - 1
    OBVIOUS
  <2>1. n \in Voters
    BY DEF Voters, Holders, Undisturbed, Hosts
  <2>2. ~VotesSettled
    BY <2>1 DEF VotesSettled
  <2> QED
    BY <2>2 DEF Tick
<1>5. "active" \notin adverts[n] \/ votes # "current"
  BY DEF Shown
<1>6. CASE "active" \notin adverts[n] /\ votes # "current"
  BY <1>1, <1>2, <1>3, <1>4, <1>6 DEF Unnoticed
<1>7. CASE "active" \notin adverts[n] /\ votes = "current"
  BY <1>1, <1>2, <1>3, <1>7 DEF Unnoticed
<1>8. CASE "active" \in adverts[n] /\ votes # "current"
  BY <1>1, <1>2, <1>4, <1>8 DEF Unnoticed
<1> QED
  BY <1>5, <1>6, <1>7, <1>8

\* The samples of nodes that poll as time passes.
LEMMA TickSample ==
    ASSUME TypeOK, TypeOK', Undisturbed, Undisturbed', Tick, NEW n \in Nodes, Due(n)'
    PROVE  /\ Known(n)' \in Views
           /\ (Known(n)').count = IF Dark THEN Bump(gs[n].count) ELSE 0
           /\ (Known(n)').seen = Visible(adverts, Verdict(FALSE))
<1>1. UNCHANGED <<adverts, votes, gs>> /\ Dark' = Dark
  BY TickLeaves
<1>2. Visible(adverts, Verdict(FALSE))' = Visible(adverts, Verdict(FALSE))
  BY <1>1 DEF Visible, Leaders, Claimants, Verdict
<1>3. Bump(gs[n].count)' = Bump(gs[n].count)
  BY <1>1 DEF Bump
<1> QED
  BY <1>1, <1>2, <1>3, KnownFactsNext

\* The nodes the delays rank, whoever asks.
Field == IF UsePriority THEN Nodes ELSE Visible(adverts, Verdict(FALSE))
Key == IF UsePriority THEN Priority ELSE IPOrder

\* Their ranks are distinct, and below their number.
LEMMA FieldRanks ==
    /\ IsFiniteSet(Field) /\ DistinctKeys(Field, Key)
    /\ \A n \in Field : Rank(Field, Key, n) \in 0 .. NodeCount - 1
    /\ \A n, m \in Field : Rank(Field, Key, n) = Rank(Field, Key, m) => n = m
<1>1. Field \subseteq Nodes /\ IsFiniteSet(Nodes)
  BY NodesAssumption DEF Field, Visible
<1>2. IsFiniteSet(Field) /\ Cardinality(Field) <= NodeCount /\ Cardinality(Field) \in Nat
  BY <1>1, FS_Subset, FS_CardinalityType DEF NodeCount
<1>3. DistinctKeys(Field, Key)
  BY <1>1, RankingAssumption DEF DistinctKeys, Key
<1>4. ASSUME NEW n \in Field
      PROVE  /\ IsFiniteSet(Ahead(Field, Key, n))
             /\ Rank(Field, Key, n) \in 0 .. NodeCount - 1
  <2>1. Ahead(Field, Key, n) \subseteq Field /\ n \notin Ahead(Field, Key, n)
    BY <1>3 DEF Ahead, DistinctKeys
  <2>2. /\ IsFiniteSet(Ahead(Field, Key, n)) /\ Cardinality(Ahead(Field, Key, n)) \in Nat
        /\ Cardinality(Ahead(Field, Key, n)) <= Cardinality(Field)
        /\ Cardinality(Ahead(Field, Key, n)) # Cardinality(Field)
    BY <1>2, <1>4, <2>1, FS_Subset, FS_CardinalityType
  <2> QED
    BY <1>2, <2>2, ContestConstants DEF Rank
<1>5. ASSUME NEW n \in Field, NEW m \in Field, Key[n] < Key[m]
      PROVE  Rank(Field, Key, n) # Rank(Field, Key, m)
  <2>1. Ahead(Field, Key, n) \subseteq Ahead(Field, Key, m)
    BY <1>3, <1>5 DEF Ahead, DistinctKeys
  <2>2. n \in Ahead(Field, Key, m) /\ n \notin Ahead(Field, Key, n)
    BY <1>3, <1>5 DEF Ahead, DistinctKeys
  <2> QED
    BY <1>4, <2>1, <2>2, FS_Subset DEF Rank
<1>6. \A n, m \in Field : n # m => Key[n] < Key[m] \/ Key[m] < Key[n]
  BY <1>3 DEF DistinctKeys
<1>7. \A n, m \in Field : Rank(Field, Key, n) = Rank(Field, Key, m) => n = m
  BY <1>5, <1>6
<1> QED
  BY <1>2, <1>3, <1>4, <1>7

\* What becomes of a node with a tick.
LEMMA TickLooks ==
    ASSUME Contest!Room, Contest!TypeOK, ContenderInv, TypeOK', Undisturbed', Tick, NEW n \in Nodes
    PROVE  \/ /\ Stage[n] \in {"out", "leader"}
              /\ Stage'[n] = Stage[n] /\ Left'[n] = 0
              /\ Count'[n] = Count[n] /\ RankIn'[n] = RankIn[n]
           \/ /\ Stage[n] \in {"candidate", "hot", "pending"} /\ Left[n] > 0
              /\ Stage'[n] = Stage[n] /\ Left'[n] = Left[n] - 1
              /\ Count'[n] = Count[n] /\ RankIn'[n] = RankIn[n]
           \/ /\ Stage[n] \in {"calm", "asleep"} /\ Left[n] # 1
              /\ Stage'[n] = Stage[n] /\ Left'[n] = Left[n] - 1
              /\ Count'[n] = Count[n] /\ RankIn'[n] = RankIn[n]
           \/ /\ Stage[n] = "calm" /\ Left[n] = 1 /\ Contest!Total(n) >= Threshold
              /\ Stage'[n] = "candidate" /\ Left'[n] = EvalLag /\ Count'[n] = 0
              /\ n \in Field /\ RankIn'[n] = Rank(Field, Key, n)
           \/ /\ Stage[n] = "calm" /\ Left[n] = 1 /\ ~(Contest!Total(n) >= Threshold)
              /\ Stage'[n] = "calm" /\ Left'[n] = Contest!Rearmed(Contest!Total(n), clock')
              /\ Count'[n] = Contest!Total(n) /\ RankIn'[n] = RankIn[n]
           \/ /\ Stage[n] = "asleep" /\ Left[n] = 1
              /\ Stage'[n] = (IF Dark THEN "hot" ELSE "calm")
              /\ Left'[n] = IF Dark THEN EvalLag ELSE PollInterval - clock'
              /\ Count'[n] = 0 /\ RankIn'[n] = 0
<1>1. TypeOK /\ Undisturbed
  BY DEF ContenderInv, IInv
<1>2. /\ identity'[n] = identity[n] /\ linked'[n] = linked[n] /\ adverts'[n] = adverts[n]
      /\ pc'[n] = pc[n] /\ gs'[n] = gs[n]
      /\ Capable(n)' = Capable(n) /\ Shown(n)' = Shown(n) /\ Dark' = Dark
      /\ wait[n] \in Nat /\ wait[n] # 0 /\ wait'[n] = wait[n] - 1
  BY <1>1, TickLeaves
<1>3. LooksRight(n) /\ LooksRight(n)'
  BY <1>1, LooksNow, LooksNext DEF Undisturbed
<1>4. RankAmong(n, gs[n])' = RankAmong(n, gs[n])
  BY <1>2 DEF RankAmong
<1>5. gs[n].count \in Nat /\ MaxCount \in Nat /\ MaxCount > 0 /\ Threshold \in Nat /\ Threshold > 1
      /\ Threshold <= MaxCount
  BY <1>1, ContestConstants, MaxCountAssumption, ThresholdAssumption
     DEF TypeOK, Views, Contest!Room
<1>6. CASE identity[n] = "active" /\ ~(linked[n] /\ ~Shown(n))
  BY <1>2, <1>3, <1>6 DEF LooksRight, Looks
<1>7. CASE identity[n] = "active" /\ linked[n] /\ ~Shown(n)
  <2>1. Unnoticed(n) \in Nat /\ Unnoticed(n) > 0 /\ Unnoticed(n)' = Unnoticed(n) - 1
    BY <1>1, <1>7, TickNotices
  <2>2. Looks(n, "pending", Unnoticed(n), 0, 0) /\ Looks(n, "pending", Unnoticed(n), 0, 0)'
    BY <1>2, <1>3, <1>7 DEF LooksRight
  <2> QED
    BY <2>1, <2>2 DEF Looks
<1>8. CASE identity[n] # "active" /\ ~Capable(n)
  BY <1>2, <1>3, <1>8 DEF LooksRight, Looks
<1>9. CASE identity[n] # "active" /\ Capable(n) /\ pc[n] \in StandDown
  BY <1>2, <1>3, <1>9 DEF LooksRight, Looks
<1>10. CASE identity[n] # "active" /\ Capable(n) /\ pc[n] \in Takeover
  <2>1. Looks(n, "hot", wait[n], 0, 0) /\ Looks(n, "hot", wait[n], 0, 0)'
    BY <1>2, <1>3, <1>10 DEF LooksRight
  <2> QED
    BY <1>2, <2>1 DEF Looks
<1>11. CASE identity[n] # "active" /\ Capable(n) /\ pc[n] \in Candidacy
  <2>1. /\ Looks(n, "candidate", wait[n], 0, RankAmong(n, gs[n]))
        /\ Looks(n, "candidate", wait[n], 0, RankAmong(n, gs[n]))'
    BY <1>2, <1>3, <1>11 DEF LooksRight
  <2> QED
    BY <1>2, <1>4, <2>1 DEF Looks
<1>12. CASE /\ identity[n] # "active" /\ Capable(n) /\ pc[n] = "idle"
            /\ "passive" \notin adverts[n]
  BY <1>2, <1>3, <1>12 DEF LooksRight, Looks
<1>13. CASE /\ identity[n] # "active" /\ Capable(n) /\ pc[n] = "idle"
            /\ "passive" \in adverts[n]
  <2>1. Looks(n, "calm", wait[n], gs[n].count, 0)
    BY <1>2, <1>3, <1>13 DEF LooksRight
  <2>2. Stage[n] = "calm" /\ Left[n] = wait[n] /\ Count[n] = gs[n].count /\ RankIn[n] = 0
    BY <2>1 DEF Looks
  <2>3. CASE wait[n] # 1
    <3>1. wait'[n] # 0
      BY <1>2, <2>3
    <3>2. Looks(n, "calm", wait[n], gs[n].count, 0)'
      BY <1>2, <1>3, <1>13, <3>1 DEF LooksRight
    <3> QED
      BY <1>2, <2>2, <2>3, <3>2 DEF Looks
  <2>4. CASE wait[n] = 1
    <3> DEFINE view == Known(n)'
               total == Contest!Total(n)
    <3>1. wait'[n] = 0 /\ Due(n)'
      BY <1>2, <1>13, <2>4 DEF Due
    <3>2. /\ view.count = IF Dark THEN Bump(gs[n].count) ELSE 0
          /\ view.seen = Visible(adverts, Verdict(FALSE))
      BY <1>1, <3>1, TickSample
    <3>3. total = IF Dark THEN Count[n] + 1 ELSE 0
      BY DEF Contest!Total
    <3>4. Count[n] < MaxCount
      BY <1>5, ContestConstants DEF Contest!TypeOK
    <3>5. view.count = total
      BY <1>5, <2>2, <3>2, <3>3, <3>4 DEF Bump
    <3>6. n \in Field /\ RankAmong(n, view) = Rank(Field, Key, n)
      <4>1. n \in Visible(adverts, Verdict(FALSE))
        BY <1>13 DEF Visible, Hosts
      <4> QED
        BY <3>2, <4>1 DEF RankAmong, Field, Key, Sorted
    <3> HIDE DEF view, total
    <3>7. CASE total >= Threshold
      <4>1. (Known(n).count >= Threshold)'
        BY <3>5, <3>7 DEF view
      <4>2. Looks(n, "candidate", EvalLag, 0, RankAmong(n, Known(n)))'
        BY <1>2, <1>3, <1>13, <3>1, <4>1 DEF LooksRight
      <4>3. RankAmong(n, Known(n))' = RankAmong(n, view)
        BY DEF RankAmong, view, Sorted
      <4> QED
        BY <2>2, <2>4, <3>6, <3>7, <4>2, <4>3 DEF Looks, total
    <3>8. CASE ~(total >= Threshold)
      <4>1. (~(Known(n).count >= Threshold))'
        BY <3>5, <3>8 DEF view
      <4>2. Looks(n, "calm", PollDelay(Known(n)), Known(n).count, 0)'
        BY <1>2, <1>3, <1>13, <3>1, <4>1 DEF LooksRight
      <4>3. PollDelay(Known(n))' = Contest!Rearmed(total, clock')
        BY <3>5 DEF PollDelay, Contest!Rearmed, FastPolling, NextBoundary, view
      <4> QED
        BY <2>2, <2>4, <3>5, <3>8, <4>2, <4>3 DEF Looks, total, view
    <3> QED
      BY <3>7, <3>8
  <2> QED
    BY <2>3, <2>4
<1>14. CASE identity[n] # "active" /\ Capable(n) /\ pc[n] = "sleeping"
  <2>1. Looks(n, "asleep", wait[n], 0, RankAmong(n, gs[n]))
    BY <1>2, <1>3, <1>14 DEF LooksRight
  <2>2. Stage[n] = "asleep" /\ Left[n] = wait[n] /\ Count[n] = 0 /\ RankIn[n] = RankAmong(n, gs[n])
    BY <2>1 DEF Looks
  <2>3. CASE wait[n] # 1
    <3>1. wait'[n] # 0
      BY <1>2, <2>3
    <3>2. Looks(n, "asleep", wait[n], 0, RankAmong(n, gs[n]))'
      BY <1>2, <1>3, <1>14, <3>1 DEF LooksRight
    <3> QED
      BY <1>2, <1>4, <2>2, <2>3, <3>2 DEF Looks
  <2>4. CASE wait[n] = 1
    <3> DEFINE view == Known(n)'
    <3>1. wait'[n] = 0 /\ Due(n)'
      BY <1>2, <1>14, <2>4 DEF Due
    <3>2. view.count = IF Dark THEN Bump(gs[n].count) ELSE 0
      BY <1>1, <3>1, TickSample
    <3> HIDE DEF view
    <3>3. CASE Dark
      <4>1. (Known(n).count > 0)'
        BY <1>5, <3>2, <3>3 DEF Bump, view
      <4>2. Looks(n, "hot", EvalLag, 0, 0)'
        BY <1>2, <1>3, <1>14, <3>1, <4>1 DEF LooksRight
      <4> QED
        BY <2>2, <2>4, <3>3, <4>2 DEF Looks
    <3>4. CASE ~Dark
      <4>1. (~(Known(n).count > 0))' /\ view.count = 0
        BY <3>2, <3>4 DEF view
      <4>2. Looks(n, "calm", PollDelay(Known(n)), Known(n).count, 0)'
        BY <1>2, <1>3, <1>14, <3>1, <4>1 DEF LooksRight
      <4>3. 0 # Threshold - 1
        BY <1>5
      <4>4. PollDelay(Known(n))' = PollInterval - clock'
        BY <4>1, <4>3 DEF PollDelay, NextBoundary, view
      <4> QED
        BY <2>2, <2>4, <3>4, <4>1, <4>2, <4>4 DEF Looks, view
    <3> QED
      BY <3>3, <3>4
  <2> QED
    BY <2>3, <2>4
<1>15. pc[n] \in {"idle", "sleeping"} \cup Candidacy \cup Takeover \cup StandDown
  BY <1>1 DEF TypeOK, Locations, Evaluating, Undisturbed
<1> QED
  BY <1>6, <1>7, <1>8, <1>9, <1>10, <1>11, <1>12, <1>13, <1>14, <1>15

\* Together they are a tick of the contest.
LEMMA TickContests ==
    ASSUME Contest!Room, Contest!TypeOK, ContenderInv, TypeOK', Undisturbed', Tick
    PROVE  Contest!Tick
<1>1. /\ \A n \in Nodes : Left[n] \in Nat /\ Count[n] \in Nat /\ RankIn[n] \in Nat
      /\ Threshold \in Nat
  BY ContestConstants DEF Contest!TypeOK
<1>2. ASSUME NEW n \in Nodes
      PROVE  /\ n \in Contest!Waking <=> Stage[n] = "asleep" /\ Left[n] = 1
             /\ n \in Contest!Polling <=> Stage[n] = "calm" /\ Left[n] = 1
             /\ n \in Contest!Nominated <=>
                    Stage[n] = "calm" /\ Left[n] = 1 /\ Contest!Total(n) >= Threshold
             /\ n \in Contest!Resampled <=>
                    Stage[n] = "calm" /\ Left[n] = 1 /\ ~(Contest!Total(n) >= Threshold)
  <2>1. /\ n \in Contest!Waking <=> Stage[n] = "asleep" /\ Left[n] = 1
        /\ n \in Contest!Polling <=> Stage[n] = "calm" /\ Left[n] = 1
    BY DEF Contest!Waking, Contest!Polling, Contest!At
  <2>2. /\ n \in Contest!Nominated <=> n \in Contest!Polling /\ Contest!Total(n) >= Threshold
        /\ n \in Contest!Resampled <=> n \in Contest!Polling /\ ~(Contest!Total(n) >= Threshold)
    BY DEF Contest!Nominated, Contest!Resampled
  <2> QED
    BY <2>1, <2>2
<1>3. Contest!Nominated \subseteq Nodes
  BY DEF Contest!Nominated, Contest!Polling, Contest!At
<1>4. \A n \in Contest!At("candidate") \cup Contest!Busy : Left[n] > 0
  <2>1. \A n \in Nodes : Stage[n] \in {"candidate", "hot", "pending"} => Left[n] > 0
    BY TickLooks
  <2> QED
    BY <2>1 DEF Contest!At, Contest!Busy
<1>5. clock' = (clock + 1) % PollInterval /\ Dark' = Dark
  <2>1. TypeOK /\ Undisturbed
    BY DEF ContenderInv, IInv
  <2>2. \E n \in Nodes : TRUE
    BY NodesAssumption
  <2> QED
    BY <2>1, <2>2, TickLeaves DEF Tick
<1>6. \A n \in Nodes : Stage'[n] =
          CASE n \in Contest!Nominated       -> "candidate"
            [] n \in Contest!Waking /\ Dark  -> "hot"
            [] n \in Contest!Waking /\ ~Dark -> "calm"
            [] OTHER                         -> Stage[n]
  <2> TAKE n \in Nodes
  <2>1. CASE n \in Contest!Nominated
    <3>1. Stage'[n] = "candidate"
      BY <1>2, <2>1, TickLooks
    <3> QED
      BY <1>2, <2>1, <3>1
  <2>2. CASE n \in Contest!Waking
    <3>1. Stage'[n] = (IF Dark THEN "hot" ELSE "calm") /\ n \notin Contest!Nominated
      BY <1>2, <2>2, TickLooks
    <3> QED
      BY <2>2, <3>1
  <2>3. CASE n \notin Contest!Nominated /\ n \notin Contest!Waking
    <3>1. Stage'[n] = Stage[n]
      BY <1>2, <2>3, TickLooks
    <3> QED
      BY <2>3, <3>1
  <2> QED
    BY <2>1, <2>2, <2>3
<1>7. \A n \in Nodes : Left'[n] =
          CASE n \in Contest!Nominated           -> EvalLag
            [] n \in Contest!Waking /\ Dark      -> EvalLag
            [] n \in Contest!Waking /\ ~Dark     -> PollInterval - clock'
            [] n \in Contest!Resampled           -> Contest!Rearmed(Contest!Total(n), clock')
            [] Stage[n] \in {"out", "leader"}    -> 0
            [] OTHER                             -> Left[n] - 1
  <2> TAKE n \in Nodes
  <2>1. CASE n \in Contest!Nominated
    <3>1. Left'[n] = EvalLag /\ n \notin Contest!Waking /\ n \notin Contest!Resampled
          /\ Stage[n] = "calm"
      BY <1>2, <2>1, TickLooks
    <3> QED
      BY <2>1, <3>1
  <2>2. CASE n \in Contest!Waking
    <3>1. /\ Left'[n] = IF Dark THEN EvalLag ELSE PollInterval - clock'
          /\ n \notin Contest!Nominated /\ n \notin Contest!Resampled /\ Stage[n] = "asleep"
      BY <1>2, <2>2, TickLooks
    <3> QED
      BY <2>2, <3>1
  <2>3. CASE n \in Contest!Resampled
    <3>1. /\ Left'[n] = Contest!Rearmed(Contest!Total(n), clock')
          /\ n \notin Contest!Nominated /\ n \notin Contest!Waking /\ Stage[n] = "calm"
      BY <1>2, <2>3, TickLooks
    <3> QED
      BY <2>3, <3>1
  <2>4. CASE n \notin Contest!Nominated /\ n \notin Contest!Waking /\ n \notin Contest!Resampled
    <3>1. Left'[n] = IF Stage[n] \in {"out", "leader"} THEN 0 ELSE Left[n] - 1
      BY <1>2, <2>4, TickLooks
    <3> QED
      BY <2>4, <3>1
  <2> QED
    BY <2>1, <2>2, <2>3, <2>4
<1>8. \A n \in Nodes : Count'[n] =
          CASE n \in Contest!Resampled                     -> Contest!Total(n)
            [] n \in Contest!Nominated \cup Contest!Waking -> 0
            [] OTHER                                       -> Count[n]
  <2> TAKE n \in Nodes
  <2>1. CASE n \in Contest!Resampled
    <3>1. Count'[n] = Contest!Total(n) /\ n \notin Contest!Nominated \cup Contest!Waking
      BY <1>2, <2>1, TickLooks
    <3> QED
      BY <2>1, <3>1
  <2>2. CASE n \in Contest!Nominated \cup Contest!Waking
    <3>1. Count'[n] = 0 /\ n \notin Contest!Resampled
      BY <1>2, <2>2, TickLooks
    <3> QED
      BY <2>2, <3>1
  <2>3. CASE n \notin Contest!Resampled \cup Contest!Nominated \cup Contest!Waking
    <3>1. Count'[n] = Count[n]
      BY <1>2, <2>3, TickLooks
    <3> QED
      BY <2>3, <3>1
  <2> QED
    BY <2>1, <2>2, <2>3
<1> DEFINE r == [n \in Contest!Nominated |-> Rank(Field, Key, n)]
<1>9. \A n \in Contest!Nominated : n \in Field /\ RankIn'[n] = Rank(Field, Key, n)
  BY <1>2, <1>3, TickLooks
<1>10. r \in [Contest!Nominated -> 0 .. NodeCount - 1]
  BY <1>9, FieldRanks
<1>11. \A n, m \in Contest!Nominated : r[n] = r[m] => n = m
  BY <1>9, FieldRanks
<1>12. \A n \in Nodes : RankIn'[n] =
          CASE n \in Contest!Nominated -> r[n]
            [] n \in Contest!Waking    -> 0
            [] OTHER                   -> RankIn[n]
  <2> TAKE n \in Nodes
  <2>1. CASE n \in Contest!Nominated
    <3>1. r[n] = RankIn'[n] /\ n \notin Contest!Waking
      BY <1>2, <1>9, <2>1
    <3> QED
      BY <2>1, <3>1
  <2>2. CASE n \in Contest!Waking
    <3>1. RankIn'[n] = 0 /\ n \notin Contest!Nominated
      BY <1>2, <2>2, TickLooks
    <3> QED
      BY <2>2, <3>1
  <2>3. CASE n \notin Contest!Nominated /\ n \notin Contest!Waking
    <3>1. RankIn'[n] = RankIn[n]
      BY <1>2, <2>3, TickLooks
    <3> QED
      BY <2>3, <3>1
  <2> QED
    BY <2>1, <2>2, <2>3
<1> HIDE DEF r
<1>13. RankIn' = [n \in Nodes |->
          CASE n \in Contest!Nominated -> r[n]
            [] n \in Contest!Waking    -> 0
            [] OTHER                   -> RankIn[n]]
  BY <1>12, ContestFunctions
<1>14. Stage' = [n \in Nodes |->
          CASE n \in Contest!Nominated       -> "candidate"
            [] n \in Contest!Waking /\ Dark  -> "hot"
            [] n \in Contest!Waking /\ ~Dark -> "calm"
            [] OTHER                         -> Stage[n]]
  BY <1>6, ContestFunctions
<1>15. Left' = [n \in Nodes |->
          CASE n \in Contest!Nominated           -> EvalLag
            [] n \in Contest!Waking /\ Dark      -> EvalLag
            [] n \in Contest!Waking /\ ~Dark     -> PollInterval - clock'
            [] n \in Contest!Resampled           -> Contest!Rearmed(Contest!Total(n), clock')
            [] Stage[n] \in {"out", "leader"}    -> 0
            [] OTHER                             -> Left[n] - 1]
  BY <1>7, ContestFunctions
<1>16. Count' = [n \in Nodes |->
          CASE n \in Contest!Resampled                     -> Contest!Total(n)
            [] n \in Contest!Nominated \cup Contest!Waking -> 0
            [] OTHER                                       -> Count[n]]
  BY <1>8, ContestFunctions
<1>17. \E q \in [Contest!Nominated -> 0 .. NodeCount - 1] :
          /\ \A n, m \in Contest!Nominated : q[n] = q[m] => n = m
          /\ RankIn' = [n \in Nodes |->
                CASE n \in Contest!Nominated -> q[n]
                  [] n \in Contest!Waking    -> 0
                  [] OTHER                   -> RankIn[n]]
  BY <1>10, <1>11, <1>13
<1> QED
  BY <1>4, <1>5, <1>14, <1>15, <1>16, <1>17 DEF Contest!Tick

\* A leader is noticed before the next boundary, so that its own next poll
\* finds it.
LEMMA TickKeepsContenders ==
    ASSUME Contest!Room, Contest!OnSchedule, ContenderInv, TypeOK', Tick
    PROVE  Undisturbed' /\ \A n \in Nodes : ContenderAt(n)'
<1>1. TypeOK /\ Undisturbed /\ Contest!TypeOK
  BY DEF ContenderInv, IInv, Contest!OnSchedule
<1>2. Undisturbed'
  <2>1. \A n \in Nodes : lag'[n] <= GossipLag
    BY <1>1, TimingAssumption DEF Tick, TypeOK, Undisturbed
  <2>2. voteLag' <= VoteLag
    BY <1>1, TimingAssumption DEF Tick, TypeOK, Undisturbed
  <2> QED
    BY <1>1, <2>1, <2>2 DEF Undisturbed, Tick, validators, cluster
<1>3. ASSUME NEW n \in Nodes PROVE ContenderAt(n)'
  <2>1. ContenderAt(n)
    BY DEF ContenderInv
  <2>2. /\ identity'[n] = identity[n] /\ linked'[n] = linked[n] /\ adverts'[n] = adverts[n]
        /\ pc'[n] = pc[n] /\ gs'[n] = gs[n] /\ healthy'[n] = healthy[n]
        /\ Capable(n)' = Capable(n) /\ Shown(n)' = Shown(n)
        /\ wait[n] \in Nat /\ wait'[n] = wait[n] - 1
        /\ \/ clock + 1 < PollInterval /\ clock' = clock + 1
           \/ clock + 1 = PollInterval /\ clock' = 0
    BY <1>1, TickLeaves
  <2>3. ASSUME linked[n], identity[n] = "active", ~Shown(n)
        PROVE  clock' + wait'[n] = PollInterval
    <3>1. PICK phase \in {0, ConfirmPoll}, turn \in 0 .. NodeCount - 1 :
              Contest!Scheduled(phase, turn)
      BY DEF Contest!OnSchedule
    <3>2. Looks(n, "pending", Unnoticed(n), 0, 0)
      BY <1>1, <2>3, LooksNow DEF LooksRight, Undisturbed
    <3>3. Stage[n] = "pending" /\ Left[n] = Unnoticed(n)
      BY <3>2 DEF Looks
    <3>4. Left[n] \in Nat /\ Left[n] > 0
      BY <1>1, <2>3, <3>3, TickNotices
    <3>5. clock + Left[n] <= phase + 2 * EvalLag + NoticeLag
      BY <3>1, <3>3 DEF Contest!Scheduled, Contest!BusyOnTime, Contest!At, Contest!Until
    <3>6. phase + 2 * EvalLag + NoticeLag < PollInterval
      BY <3>1 DEF Contest!Scheduled, Contest!TurnsFit
    <3>7. clock \in Nat /\ phase \in Nat
      BY <1>1, ContestConstants DEF TypeOK
    <3>8. clock + 1 < PollInterval
      BY <3>4, <3>5, <3>6, <3>7, ContestConstants
    <3>9. clock + wait[n] = PollInterval
      BY <2>1, <2>3 DEF ContenderAt
    <3> DEFINE t == clock'
               w == wait'[n]
    <3>10. t = clock + 1 /\ w = wait[n] - 1
      BY <2>2, <3>7, <3>8, ContestConstants
    <3> HIDE DEF t, w
    <3>11. t + w = PollInterval
      BY <2>2, <3>7, <3>9, <3>10, ContestConstants
    <3> QED
      BY <3>11 DEF t, w
  <2> QED
    BY <2>1, <2>2, <2>3 DEF ContenderAt
<1> QED
  BY <1>2, <1>3

\* Together: time is a tick of the contest.
LEMMA TickRefines ==
    ASSUME Contest!Room, Contest!OnSchedule, OnlyDropouts, ContenderInv, IInv', Tick
    PROVE  ContenderInv' /\ Contest!Tick
<1>1. TypeOK' /\ Contest!TypeOK
  BY DEF IInv, Contest!OnSchedule
<1>2. Undisturbed' /\ \A n \in Nodes : ContenderAt(n)'
  BY <1>1, TickKeepsContenders
<1> QED
  BY <1>1, <1>2, TickContests DEF ContenderInv

---------------------------------------------------------------------------
(* The contest is what the managers do. *)

\* The cluster begins as a contest.
LEMMA InitRefines ==
    ASSUME Init, IInv
    PROVE  ContenderInv /\ Contest!Init
<1>1. TypeOK /\ clock = 0 /\ votes = "current" /\ PollInterval \in Nat /\ PollInterval > 0
  BY ContestConstants DEF IInv, Init
<1>2. \A n \in Nodes : /\ pc[n] = "idle" /\ linked[n] /\ wait[n] = 2 * PollInterval /\ wait[n] # 0
                       /\ localRpc[n] /\ clusterRpc[n] /\ lag[n] = GossipLag
                       /\ gs[n] = Refreshed(n, NewView, FALSE)
  BY ContestConstants DEF Init, NextBoundary
<1>3. /\ \A n \in Nodes : adverts[n] = {identity[n]} /\ identity[n] \in {"active", "passive"}
      /\ adverts[Stranger] = {} /\ \A h \in Hosts : ghost[h] = "no"
  BY <1>1, NodesAssumption DEF Init, Hosts, TypeOK, Roles
<1>4. Undisturbed
  <2>1. /\ voteLag = VoteLag /\ VoteLag \in Nat /\ GossipLag \in Nat
        /\ votes = "current"
    BY TimingAssumption DEF Init
  <2>2. \A n \in Nodes : localRpc[n] /\ clusterRpc[n] /\ pc[n] # "down"
    BY <1>2
  <2>3. \A n \in Nodes : lag[n] <= GossipLag
    <3>1. \A n \in Nodes : lag[n] = GossipLag
      BY <1>2
    <3>2. GossipLag <= GossipLag
      BY <2>1
    <3> QED
      BY <3>1, <3>2
  <2>4. voteLag <= VoteLag
    BY <2>1
  <2> QED
    BY <1>3, <2>1, <2>2, <2>3, <2>4 DEF Undisturbed
<1>5. \A n \in Nodes : Shown(n) <=> identity[n] = "active"
  BY <1>1, <1>3 DEF Shown
<1>6. \A n \in Nodes : ContenderAt(n)
  BY <1>2, <1>3, <1>5 DEF ContenderAt, StandDown, Takeover, Candidacy
<1>7. Dark <=> \A n \in Nodes : identity[n] # "active"
  <2>1. \A h \in Hosts : h \in Leaders(adverts, Verdict(FALSE)) <=> "active" \in adverts[h]
    BY <1>1 DEF Leaders, Claimants, Verdict
  <2>2. \A h \in Hosts : "active" \in adverts[h] <=> h \in Nodes /\ identity[h] = "active"
    BY <1>3 DEF Hosts
  <2>3. Leaders(adverts, Verdict(FALSE)) \subseteq Hosts /\ Nodes \subseteq Hosts
    BY DEF Leaders, Claimants, Hosts
  <2> QED
    BY <2>1, <2>2, <2>3 DEF Dark
<1>8. \A n, m \in Nodes : identity[n] = "active" /\ identity[m] = "active" => n = m
  BY DEF Init
<1>9. \A n \in Nodes : gs[n].count = IF Dark THEN 1 ELSE 0
  <2> TAKE n \in Nodes
  <2>1. gs[n] = Answered(NewView, adverts, Verdict(FALSE))
    BY <1>2 DEF Refreshed
  <2>2. gs[n].count = IF Dark THEN Bump(0) ELSE 0
    BY <2>1 DEF Answered, NextCount, NewView, Dark
  <2> QED
    BY <2>2, MaxCountAssumption DEF Bump
<1>10. ASSUME NEW n \in Nodes
       PROVE  \/ identity[n] = "active" /\ Looks(n, "leader", 0, 0, 0)
              \/ /\ identity[n] # "active"
                 /\ \/ Looks(n, "out", 0, 0, 0)
                    \/ Looks(n, "calm", 2 * PollInterval, IF Dark THEN 1 ELSE 0, 0)
  <2>1. LooksRight(n)
    BY <1>1, <1>2, LooksNow
  <2>2. CASE identity[n] = "active"
    BY <1>2, <1>5, <2>1, <2>2 DEF LooksRight
  <2>3. CASE identity[n] # "active" /\ ~Capable(n)
    BY <2>1, <2>3 DEF LooksRight
  <2>4. CASE identity[n] # "active" /\ Capable(n)
    <3>1. "passive" \in adverts[n]
      BY <1>3, <2>4
    <3>2. Looks(n, "calm", wait[n], gs[n].count, 0)
      BY <1>2, <2>1, <2>4, <3>1 DEF LooksRight
    <3> QED
      BY <1>2, <1>9, <2>4, <3>2
  <2> QED
    BY <2>2, <2>3, <2>4
<1>11. /\ \A n \in Nodes : Stage[n] \in {"out", "calm", "leader"}
       /\ \A n \in Nodes : Stage[n] = "leader" <=> identity[n] = "active"
       /\ \A n \in Nodes : Count[n] = IF Stage[n] = "calm" /\ Dark THEN 1 ELSE 0
       /\ \A n \in Nodes : Left[n] = IF Stage[n] = "calm" THEN 2 * PollInterval ELSE 0
       /\ \A n \in Nodes : RankIn[n] = 0
  BY <1>10 DEF Looks
<1>12. /\ Stage \in [Nodes -> {"out", "calm", "leader"}]
       /\ Count = [n \in Nodes |-> IF Stage[n] = "calm" /\ Dark THEN 1 ELSE 0]
       /\ Left = [n \in Nodes |-> IF Stage[n] = "calm" THEN 2 * PollInterval ELSE 0]
       /\ RankIn = [n \in Nodes |-> 0]
  BY <1>11, ContestFunctions
<1>13. \A n, m \in Contest!At("leader") : n = m
  BY <1>8, <1>11 DEF Contest!At
<1>14. Dark = (Contest!At("leader") = {})
  <2>1. Dark <=> Contest!At("leader") = {}
    BY <1>7, <1>11 DEF Contest!At
  <2> QED
    BY <2>1 DEF Dark
<1>15. Contest!Init
  BY <1>1, <1>12, <1>13, <1>14 DEF Contest!Init
<1> QED
  BY <1>4, <1>6, <1>15 DEF ContenderInv

\* Every step is one of the contest, as long as that is on schedule.
LEMMA StepRefines ==
    ASSUME Contest!Room, Contest!OnSchedule, OnlyDropouts, ContenderInv, IInv', [Next]_vars
    PROVE  ContenderInv' /\ [Contest!Next]_(Contest!contest)
<1>1. Contest!TypeOK /\ Undisturbed
  BY DEF Contest!OnSchedule, ContenderInv
<1>2. CASE \E n \in Nodes : Manager(n)
  BY <1>1, <1>2, ManagerRefines
<1>3. CASE Next /\ ~\E n \in Nodes : Manager(n)
  <2>1. \/ \E n \in Nodes : Publish(n) \/ Expire(n) \/ Drop(n)
        \/ VotesLand \/ DeclareDelinquent \/ Tick
    BY <1>1, <1>3, OtherSteps
  <2>2. ContenderInv' /\ (Contest!Settle \/ Contest!Tick)
    BY <1>1, <2>1, PublishRefines, ExpireRefines, DropRefines, VotesLandRefines,
       DeclareDelinquentRefines, TickRefines
  <2> QED
    BY <2>2 DEF Contest!Next
<1>4. CASE UNCHANGED vars
  <2>1. /\ UNCHANGED <<identity, healthy, longEnough, localRpc, linked, ghost, adverts, votes>>
        /\ UNCHANGED <<clusterRpc, pc, gs, wait, clock, lag, voteLag>>
    BY <1>4 DEF vars, validators, cluster, managers, time
  <2>2. \A n \in Nodes : Stays(n)
    BY <2>1, NodeSame DEF Stays
  <2>3. Stage' = Stage /\ Left' = Left /\ Count' = Count /\ RankIn' = RankIn
    BY <2>2, ContestFunctions DEF Stays
  <2>4. Dark' = Dark
    BY <2>1 DEF Dark, Leaders, Claimants, Verdict
  <2>5. \A n \in Nodes : Shown(n)' = Shown(n) /\ Capable(n)' = Capable(n)
    BY <2>1 DEF Shown, Capable
  <2>6. \A n \in Nodes : ContenderAt(n)'
    BY <2>1, <2>5 DEF ContenderInv, ContenderAt
  <2>7. Undisturbed'
    BY <1>1, <2>1 DEF Undisturbed
  <2> QED
    BY <2>1, <2>3, <2>4, <2>6, <2>7 DEF ContenderInv, Contest!contest
<1> QED
  BY <1>2, <1>3, <1>4

\* Managers keep to the schedule: the invariant that carries all that follows.
LEMMA OnSchedule ==
    OnlyDropouts /\ Contest!Room /\ Spec => [](ContenderInv /\ Contest!OnSchedule)
<1> SUFFICES ASSUME OnlyDropouts, Contest!Room
             PROVE  Spec => [](ContenderInv /\ Contest!OnSchedule)
  OBVIOUS
<1>1. Init /\ IInv => ContenderInv /\ Contest!OnSchedule
  BY InitRefines, InitOnSchedule
<1>2. ContenderInv /\ Contest!OnSchedule /\ IInv' /\ [Next]_vars =>
          (ContenderInv /\ Contest!OnSchedule)'
  BY StepRefines, ContestSteps
<1> QED
  BY <1>1, <1>2, Inductive, PTL DEF Spec

\* Managers poll in step, are nominated together, and take their turns one rank
\* after the other, each with its leader noticed before the next turn begins
\* (armPollTimer, delayTakeoverAsActive).
THEOREM ContestStaysOnSchedule ==
    OnlyDropouts /\ Contest!Room /\ Spec => []ContestOnSchedule
<1>1. Contest!OnSchedule => ContestOnSchedule
  BY DEF ContestOnSchedule
<1> QED
  BY <1>1, OnSchedule, PTL

\* What the managers do to the cluster, poll by poll and hook by hook, is a
\* contest: nobody becomes a candidate, sleeps, takes over or gives up in a way
\* TakeoverContest does not allow.
THEOREM ManagersContest ==
    OnlyDropouts /\ Contest!Room /\ Spec => ContestSpec
<1> SUFFICES ASSUME OnlyDropouts, Contest!Room PROVE Spec => ContestSpec
  OBVIOUS
<1>1. Init /\ IInv => Contest!Init
  BY InitRefines
<1>2. ContenderInv /\ Contest!OnSchedule /\ IInv' /\ [Next]_vars =>
          [Contest!Next]_(Contest!contest)
  BY StepRefines
<1>3. Spec => [](ContenderInv /\ Contest!OnSchedule)
  BY OnSchedule
<1> QED
  BY <1>1, <1>2, <1>3, Inductive, PTL DEF Spec, ContestSpec, Contest!Spec

\* What it says of two nodes: a voter is a leader, noticed or not, and a takeover
\* is hot, and there is one of these at most.
LEMMA OnScheduleNodes ==
    ASSUME ContenderInv, Contest!OnSchedule, NEW n \in Nodes, NEW m \in Nodes, n # m
    PROVE  /\ ~(n \in Voters /\ m \in Voters)
           /\ pc[n] \in Takeover => pc[m] \notin Takeover /\ m \notin Voters
<1>1. Contest!Exclusive
  BY OnScheduleExclusive
<1>2. TypeOK /\ Undisturbed
  BY DEF ContenderInv, IInv
<1>3. ASSUME NEW k \in Nodes, k \in Voters PROVE Stage[k] \in {"pending", "leader"}
  <2>1. linked[k] /\ identity[k] = "active"
    BY <1>3, NodesAssumption DEF Voters, Holders
  <2> QED
    BY <1>2, <2>1, LooksNow DEF LooksRight, Looks, Undisturbed
<1>4. ASSUME NEW k \in Nodes, pc[k] \in Takeover PROVE Stage[k] = "hot"
  <2>1. identity[k] = "passive" /\ Capable(k)
    BY <1>4 DEF ContenderInv, ContenderAt
  <2> QED
    BY <1>2, <1>4, <2>1, LooksNow DEF LooksRight, Looks, Undisturbed
<1>5. \A k, l \in Nodes : Stage[k] \in {"hot", "pending", "leader"}
                            /\ Stage[l] \in {"hot", "pending", "leader"} => k = l
  BY <1>1 DEF Contest!Exclusive, Contest!Busy, Contest!At
<1> QED
  BY <1>3, <1>4, <1>5

\* Of the validators in the cluster at most one votes as the active identity,
\* with any number of peers, any order of their ranks and any failure by drop-out,
\* also of a leader that nobody has noticed yet.
THEOREM OneVoter ==
    OnlyDropouts /\ Contest!Room /\ Spec => []AtMostOneVoter
<1>1. ContenderInv /\ Contest!OnSchedule => AtMostOneVoter
  <2> SUFFICES ASSUME ContenderInv, Contest!OnSchedule PROVE AtMostOneVoter
    OBVIOUS
  <2>1. \A n, m \in Voters \cap Nodes : n = m
    BY OnScheduleNodes
  <2>2. CASE Voters \cap Nodes = {}
    BY <2>2, FS_EmptySet DEF AtMostOneVoter
  <2>3. CASE Voters \cap Nodes # {}
    <3>1. PICK n \in Nodes : Voters \cap Nodes = {n}
      BY <2>1, <2>3
    <3> QED
      BY <3>1, FS_Singleton DEF AtMostOneVoter
  <2> QED
    BY <2>2, <2>3
<1> QED
  BY <1>1, OnSchedule, PTL

\* While a manager is between the decision to take over and its active command,
\* no other manager is, and no other node votes.
THEOREM OneTakeover ==
    OnlyDropouts /\ Contest!Room /\ Spec => []TakeoverExclusive
<1>1. ContenderInv /\ Contest!OnSchedule => TakeoverExclusive
  BY OnScheduleNodes DEF TakeoverExclusive
<1> QED
  BY <1>1, OnSchedule, PTL
===========================================================================
