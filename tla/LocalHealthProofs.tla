------------------------- MODULE LocalHealthProofs -------------------------
(***************************************************************************)
(* The healthy streak for every interval, duration, grace and timeout: it  *)
(* is never older than the time since the grace was last used up.          *)
(***************************************************************************)
EXTENDS LocalHealth, TLAPS

\* The streak is not older than the calm, and the announcement was made at an
\* age that rounds to the minimum duration: ages only grow.
StreakInv ==
    /\ healthySince # NoStreak => healthySince <= calm
    /\ AnnouncedInTime

HInv == TypeOK /\ StreakInv

LEMMA ConstantTypes ==
    /\ Second \in Nat \ {0} /\ MinimumDuration \in Nat \ {0} /\ PollInterval \in Nat \ {0}
    /\ RpcTimeout \in Nat /\ MaxChanges \in Nat /\ Grace \in Nat \ {0}
    /\ MaxAge \in Nat /\ MaxAge >= MinimumDuration + Second /\ NoStreak \notin Nat
  BY DurationAssumption, CountAssumption, StreakAssumption, AgeAssumption DEF Grace

\* Rounding to seconds adds at most half a second.
LEMMA RoundedBound ==
    ASSUME NEW d \in Nat
    PROVE  2 * Rounded(d) <= 2 * d + Second
  <1> DEFINE r == d % Second
  <1>1. r \in Nat /\ Second \in Nat
    BY ConstantTypes
  <1>2. CASE r + r < Second
    BY <1>1, <1>2 DEF Rounded
  <1>3. CASE ~(r + r < Second)
    BY <1>1, <1>3 DEF Rounded
  <1> QED BY <1>2, <1>3

LEMMA InitHInv == Init => HInv
  <1> SUFFICES ASSUME Init PROVE HInv
    OBVIOUS
  <1>1. healthySince = NoStreak /\ minDurationReached = FALSE
    BY DEF Init
  <1>2. due \in 1 .. PollInterval /\ remaining \in 0 .. RpcTimeout /\ changes \in 0 .. MaxChanges
    BY ConstantTypes DEF Init
  <1>3. consecutiveUnhealthyCount \in 0 .. Grace + 1 /\ calm \in 0 .. MaxAge /\ sick \in Nat
    BY ConstantTypes DEF Init
  <1>4. TypeOK
    BY <1>1, <1>2, <1>3 DEF Init, TypeOK
  <1> QED BY <1>1, <1>4 DEF HInv, StreakInv, AnnouncedInTime

\* A healthy sample keeps the age, or starts the streak at age zero.
LEMMA RecordHealthyHInv ==
    ASSUME HInv, RecordHealthy
    PROVE  HInv'
  <1> USE ConstantTypes DEF HInv
  <1> DEFINE reached == healthySince # NoStreak /\ minDurationReached
             announce == ~reached /\ Rounded(HealthySince) >= MinimumDuration
  <1>1. /\ healthySince' = HealthySince /\ HealthySince \in 0 .. MaxAge
        /\ HealthySince <= calm
    BY DEF RecordHealthy, HealthySince, TypeOK, StreakInv
  <1>2. /\ minDurationReached' = (reached \/ announce)
        /\ UNCHANGED <<validator, changes, due, fired, sample, loop, polled, calm, sick>>
        /\ tracker' \in {"waiting", "announcing"} /\ mu' \in {"free", "tracker"}
        /\ remaining' \in 0 .. RpcTimeout /\ consecutiveUnhealthyCount' = 0
    BY DEF RecordHealthy, TypeOK, ticker
  <1>3. TypeOK'
    BY <1>1, <1>2 DEF TypeOK
  <1>4. healthySince' # NoStreak => healthySince' <= calm'
    BY <1>1, <1>2
  <1>5. AnnouncedInTime'
    <2> SUFFICES ASSUME minDurationReached'
                 PROVE  /\ healthySince' # NoStreak
                        /\ 2 * MinimumDuration <= 2 * healthySince' + Second
      BY DEF AnnouncedInTime
    <2>1. CASE reached
      BY <1>1, <2>1 DEF StreakInv, AnnouncedInTime, HealthySince
    <2>2. CASE announce
      <3>1. 2 * Rounded(HealthySince) <= 2 * HealthySince + Second
        BY <1>1, RoundedBound
      <3>2. Rounded(HealthySince) \in Nat
        BY <1>1 DEF Rounded
      <3> QED BY <1>1, <2>2, <3>1, <3>2
    <2> QED BY <1>2, <2>1, <2>2
  <1> QED BY <1>3, <1>4, <1>5 DEF StreakInv

\* The calm ends only where the streak does.
LEMMA RecordUnhealthyHInv ==
    ASSUME HInv, RecordUnhealthy
    PROVE  HInv'
  <1> USE ConstantTypes DEF HInv
  <1> DEFINE count == Older(consecutiveUnhealthyCount, Grace + 1)
  <1>1. count \in 0 .. Grace + 1
    BY DEF Older, TypeOK
  <1>2. /\ consecutiveUnhealthyCount' = count /\ tracker' = "waiting"
        /\ UNCHANGED <<validator, changes, due, fired, sample, remaining, loop, polled, mu, sick>>
        /\ calm' = IF count > Grace THEN 0 ELSE calm
    BY DEF RecordUnhealthy, ticker
  <1>3. CASE count <= Grace
    <2>1. UNCHANGED <<healthySince, minDurationReached, calm>>
      BY <1>1, <1>2, <1>3 DEF RecordUnhealthy, WithinGrace
    <2> QED BY <1>1, <1>2, <2>1 DEF TypeOK, StreakInv, AnnouncedInTime
  <1>4. CASE ~(count <= Grace)
    <2>1. healthySince' = NoStreak
      BY <1>4 DEF RecordUnhealthy, WithinGrace, Broken
    <2>2. minDurationReached' = FALSE
      BY <1>4 DEF RecordUnhealthy, WithinGrace, Broken, StreakInv, AnnouncedInTime
    <2>3. calm' \in 0 .. MaxAge
      BY <1>2 DEF TypeOK
    <2> QED BY <1>1, <1>2, <2>1, <2>2, <2>3 DEF TypeOK, StreakInv, AnnouncedInTime
  <1> QED BY <1>3, <1>4

\* All ages grow alike.
LEMMA TickHInv ==
    ASSUME HInv, Tick
    PROVE  HInv'
  <1> USE ConstantTypes DEF HInv
  <1>1. TypeOK'
    <2>1. due' \in 1 .. PollInterval /\ fired' \in BOOLEAN
      BY DEF Tick, TypeOK
    <2>2. remaining' \in 0 .. RpcTimeout
      BY DEF Tick, TypeOK
    <2>3. healthySince' \in 0 .. MaxAge \cup {NoStreak} /\ calm' \in 0 .. MaxAge
      BY DEF Tick, TypeOK, Older
    <2>4. Notice \in Nat
      <3>1. Longest \in Nat /\ Blind \in Nat
        BY DEF Longest, Blind
      <3> QED BY <3>1 DEF Notice
    <2>5. sick' \in Nat
      BY <2>4 DEF Tick, TypeOK, Older
    <2> QED BY <2>1, <2>2, <2>3, <2>5 DEF Tick, TypeOK
  <1>2. healthySince' # NoStreak => healthySince' <= calm'
    BY DEF Tick, TypeOK, StreakInv, Older
  <1>3. AnnouncedInTime'
    BY DEF Tick, TypeOK, StreakInv, AnnouncedInTime, Older
  <1> QED BY <1>1, <1>2, <1>3 DEF StreakInv

LEMMA NextHInv ==
    ASSUME HInv, [Next]_vars
    PROVE  HInv'
  <1> USE ConstantTypes DEF HInv, ticker, streak
  <1>1. CASE Sample
    <2>1. remaining' \in 0 .. RpcTimeout
      BY <1>1 DEF Sample
    <2> QED BY <1>1, <2>1 DEF Sample, TypeOK, StreakInv, AnnouncedInTime
  <1>2. CASE CheckHealth
    BY <1>2 DEF CheckHealth, TypeOK, StreakInv, AnnouncedInTime
  <1>3. CASE RecordHealthy
    BY <1>3, RecordHealthyHInv
  <1>4. CASE RecordUnhealthy
    BY <1>4, RecordUnhealthyHInv
  <1>5. CASE AnnounceEligible
    BY <1>5 DEF AnnounceEligible, TypeOK, StreakInv, AnnouncedInTime
  <1>6. CASE AskHealthy
    BY <1>6 DEF AskHealthy, TypeOK, StreakInv, AnnouncedInTime
  <1>7. CASE ReadStreak
    BY <1>7 DEF ReadStreak, TypeOK, StreakInv, AnnouncedInTime
  <1>8. CASE ChangeHealth
    BY <1>8 DEF ChangeHealth, TypeOK, StreakInv, AnnouncedInTime
  <1>9. CASE Tick
    BY <1>9, TickHInv
  <1>10. CASE Judge
    BY <1>10 DEF Judge, TypeOK, StreakInv, AnnouncedInTime
  <1>11. CASE TimeOut
    BY <1>11 DEF TimeOut, TypeOK, StreakInv, AnnouncedInTime
  <1>12. CASE UNCHANGED vars
    BY <1>12 DEF vars, TypeOK, StreakInv, AnnouncedInTime
  <1> QED BY <1>1, <1>2, <1>3, <1>4, <1>5, <1>6, <1>7, <1>8, <1>9, <1>10, <1>11, <1>12
          DEF Next, Tracker, Loop

LEMMA AlwaysHInv == Spec => []HInv
  BY InitHInv, NextHInv, PTL DEF Spec

---------------------------------------------------------------------------
(* A sick validator loses its streak in time. *)

\* With c samples of the sick validator behind it, the tracker begins the next
\* one when the validator has been sick for Start(c) at the latest.
Start(c) == Blind + c * Longest

\* A healthy answer that is yet to be recorded was given a timeout ago at most,
\* and the ticker fires in a poll interval.
Fresh ==
    /\ tracker = "judged" /\ sample => sick + remaining <= RpcTimeout
    /\ tracker = "answered" /\ sample => sick <= RpcTimeout
    /\ tracker \in {"judged", "answered"} /\ sample /\ ~fired => sick + due <= PollInterval

\* The mutex is the tracker's while it announces.
Prompt ==
    /\ mu = "tracker" <=> tracker = "announcing"
    /\ Fresh
    /\ validator = "healthy" => sick = 0

\* How long the validator can have been sick at each location of the tracker:
\* the ticker has fired or will in time for the next sample.
OnTime ==
    LET s == Start(consecutiveUnhealthyCount) IN
    /\ tracker = "waiting" =>
           sick <= s /\ (~fired => sick + due <= s)
    /\ tracker \in {"asking", "judged"} =>
           sick + remaining <= s + RpcTimeout
    /\ tracker = "answered" =>
           sick <= s + RpcTimeout
    /\ tracker \in {"asking", "judged", "answered"} /\ ~fired =>
           sick + due <= s + PollInterval
    /\ tracker = "announcing" =>
           /\ consecutiveUnhealthyCount = 0
           /\ sick + remaining <= 2 * RpcTimeout /\ (~fired => sick + due <= PollInterval)

SickInv ==
    /\ TypeOK
    /\ Prompt
    /\ healthySince # NoStreak => consecutiveUnhealthyCount <= Grace
    /\ consecutiveUnhealthyCount <= Grace => OnTime

LEMMA LongestBound ==
    /\ Longest \in Nat /\ PollInterval <= Longest /\ RpcTimeout <= Longest
    /\ Blind \in Nat /\ PollInterval <= Blind /\ 2 * RpcTimeout <= Blind /\ Longest <= Blind
  BY ConstantTypes DEF Longest, Blind

LEMMA StartSteps ==
    /\ Start(0) = Blind
    /\ \A c \in Nat : /\ Start(c) \in Nat /\ Blind <= Start(c)
                     /\ Start(c + 1) = Start(c) + Longest
    /\ \A c \in 0 .. Grace : Start(c) <= Start(Grace)
  <1> DEFINE l == Longest
             m == Blind
  <1>1. l \in Nat /\ m \in Nat /\ Grace \in Nat
    BY LongestBound, ConstantTypes
  <1> HIDE DEF l, m
  <1>2. \A c \in Nat : c * l \in Nat /\ (c + 1) * l = c * l + l
    BY <1>1
  <1>3. 0 * l = 0
    BY <1>1
  <1>4. ASSUME NEW c \in 0 .. Grace PROVE c * l <= Grace * l
    <2>1. PICK d \in Nat : Grace = c + d
      <3>1. Grace - c \in Nat /\ Grace = c + (Grace - c)
        BY <1>1
      <3> QED BY <3>1
    <2>2. (c + d) * l = c * l + d * l /\ d * l \in Nat /\ c * l \in Nat
      BY <1>1
    <2> QED BY <2>1, <2>2
  <1>5. \A c \in 0 .. Grace : Start(c) <= Start(Grace)
    <2> SUFFICES ASSUME NEW c \in 0 .. Grace PROVE m + c * l <= m + Grace * l
      BY DEF Start, l, m
    <2>1. c * l \in Nat /\ Grace * l \in Nat
      BY <1>1, <1>2
    <2> QED BY <1>1, <1>4, <2>1
  <1>6. \A c \in Nat : /\ Start(c) \in Nat /\ m <= Start(c)
                      /\ Start(c + 1) = Start(c) + l
    <2> SUFFICES ASSUME NEW c \in Nat
                 PROVE  /\ m + c * l \in Nat /\ m <= m + c * l
                        /\ m + (c + 1) * l = m + c * l + l
      BY DEF Start, l, m
    <2> QED BY <1>1, <1>2
  <1>7. Start(0) = m
    BY <1>1, <1>3 DEF Start, l, m
  <1> QED BY <1>5, <1>6, <1>7 DEF l, m

\* A validator that has not been sick is on time at every location.
NotSick ==
    /\ TypeOK /\ sick = 0
    /\ tracker # "announcing" \/ consecutiveUnhealthyCount = 0

LEMMA HealthyOnTime == NotSick => OnTime
  <1> SUFFICES ASSUME TypeOK, sick = 0,
                      tracker # "announcing" \/ consecutiveUnhealthyCount = 0
               PROVE  OnTime
    BY DEF NotSick
  <1>1. /\ sick = 0 /\ due \in Nat /\ due <= PollInterval /\ remaining \in Nat
        /\ remaining <= RpcTimeout /\ consecutiveUnhealthyCount \in Nat
    BY ConstantTypes DEF TypeOK
  <1> DEFINE s == Start(consecutiveUnhealthyCount)
  <1>2. s \in Nat /\ Blind <= s
    BY <1>1, StartSteps
  <1> HIDE DEF s
  <1>3. /\ sick <= s /\ sick + due <= s /\ sick <= s + RpcTimeout
        /\ sick + remaining <= s + RpcTimeout /\ sick + due <= s + PollInterval
        /\ sick + remaining <= 2 * RpcTimeout /\ sick + due <= PollInterval
    BY <1>1, <1>2, LongestBound, ConstantTypes
  <1> QED BY <1>3 DEF OnTime, s

\* Of a validator that has not been sick every answer is fresh.
NoneSick == TypeOK /\ sick = 0

LEMMA HealthyFresh == NoneSick => Fresh
  <1> SUFFICES ASSUME TypeOK, sick = 0 PROVE Fresh
    BY DEF NoneSick
  <1>1. /\ due \in Nat /\ due <= PollInterval /\ remaining \in Nat /\ remaining <= RpcTimeout
        /\ RpcTimeout \in Nat /\ PollInterval \in Nat
    BY ConstantTypes DEF TypeOK
  <1> QED BY <1>1 DEF Fresh

LEMMA HealthyFreshNext == NoneSick' => Fresh'
  BY HealthyFresh, PTL

LEMMA HealthyOnTimeNext == NotSick' => OnTime'
  BY HealthyOnTime, PTL

LEMMA InitSickInv == Init => SickInv
  <1> SUFFICES ASSUME Init PROVE SickInv
    OBVIOUS
  <1>1. TypeOK
    BY InitHInv DEF HInv
  <1>2. OnTime
    BY <1>1, HealthyOnTime DEF Init, NotSick
  <1> QED BY <1>1, <1>2 DEF Init, SickInv, Prompt, Fresh

\* A healthy answer begins a new count, with what has passed since it was given.
LEMMA RecordHealthySickInv ==
    ASSUME SickInv, RecordHealthy, TypeOK'
    PROVE  SickInv'
  <1>1. /\ tracker = "answered" /\ sample
        /\ UNCHANGED <<validator, due, fired, sick>> /\ consecutiveUnhealthyCount' = 0
        /\ \/ tracker' = "waiting" /\ mu' = mu
           \/ tracker' = "announcing" /\ mu' = "tracker" /\ remaining' = RpcTimeout
    BY DEF RecordHealthy, ticker
  <1>2. sick <= RpcTimeout /\ (~fired => sick + due <= PollInterval)
    BY <1>1 DEF SickInv, Prompt, Fresh
  <1>3. sick \in Nat /\ due \in Nat /\ RpcTimeout \in Nat
    BY ConstantTypes DEF SickInv, TypeOK
  <1>4. OnTime'
    <2> DEFINE s == Start(consecutiveUnhealthyCount)'
    <2>1. s = Blind
      BY <1>1, StartSteps
    <2>2. /\ sick <= Blind /\ sick + RpcTimeout <= 2 * RpcTimeout
          /\ (~fired => sick + due <= Blind)
      BY <1>2, <1>3, LongestBound, ConstantTypes
    <2> QED BY <1>1, <1>2, <2>1, <2>2 DEF OnTime
  <1>5. Prompt'
    BY <1>1 DEF SickInv, Prompt, Fresh
  <1> QED BY <1>1, <1>4, <1>5, ConstantTypes DEF SickInv

LEMMA RecordUnhealthySickInv ==
    ASSUME SickInv, RecordUnhealthy, TypeOK'
    PROVE  SickInv'
  <1> DEFINE c == consecutiveUnhealthyCount
  <1>1. /\ tracker = "answered" /\ tracker' = "waiting"
        /\ UNCHANGED <<validator, due, fired, mu, sick>>
        /\ c' = Older(c, Grace + 1)
        /\ healthySince' # NoStreak => healthySince # NoStreak /\ c' <= Grace
    BY DEF RecordUnhealthy, ticker, WithinGrace, Broken
  <1>2. Prompt'
    BY <1>1 DEF SickInv, Prompt, Fresh
  <1>3. ASSUME c' <= Grace PROVE OnTime'
    <2>1. c \in 0 .. Grace /\ c' = c + 1
      BY <1>1, <1>3, ConstantTypes DEF Older, SickInv, TypeOK
    <2>2. Start(c) \in Nat /\ Start(c') = Start(c) + Longest
      BY <2>1, StartSteps
    <2>3. sick <= Start(c) + RpcTimeout /\ (~fired => sick + due <= Start(c) + PollInterval)
      BY <1>1, <2>1 DEF SickInv, OnTime
    <2>4. sick \in Nat /\ due \in Nat
      BY ConstantTypes DEF SickInv, TypeOK
    <2>5. sick <= Start(c') /\ (~fired => sick + due <= Start(c'))
      BY <2>2, <2>3, <2>4, LongestBound, ConstantTypes
    <2> QED BY <1>1, <2>5 DEF OnTime
  <1> QED BY <1>1, <1>2, <1>3 DEF SickInv

\* The other steps of the tracker spend no time.
LEMMA SampleSickInv ==
    ASSUME SickInv, Sample, TypeOK'
    PROVE  SickInv'
  <1> DEFINE s == Start(consecutiveUnhealthyCount)
  <1>1. /\ tracker = "waiting" /\ tracker' = "asking" /\ remaining' = RpcTimeout
        /\ UNCHANGED <<validator, due, sample, mu, streak, sick>>
    BY DEF Sample
  <1>2. ASSUME consecutiveUnhealthyCount <= Grace PROVE OnTime'
    <2>1. sick <= s
      BY <1>1, <1>2 DEF SickInv, OnTime
    <2>2. s \in Nat /\ sick \in Nat /\ due \in Nat /\ due <= PollInterval
      BY StartSteps, ConstantTypes DEF SickInv, TypeOK
    <2>3. sick + RpcTimeout <= s + RpcTimeout /\ sick + due <= s + PollInterval
      BY <2>1, <2>2, ConstantTypes
    <2> QED BY <1>1, <2>3 DEF OnTime, streak
  <1> QED BY <1>1, <1>2 DEF SickInv, Prompt, Fresh, streak

\* A healthy answer is given while the validator is not sick.
LEMMA JudgeSickInv ==
    ASSUME SickInv, Judge, TypeOK'
    PROVE  SickInv'
  <1>1. /\ tracker = "asking" /\ tracker' = "judged" /\ sample' = (validator = "healthy")
        /\ UNCHANGED <<validator, due, fired, remaining, mu, streak, sick>>
    BY DEF Judge, ticker
  <1>2. consecutiveUnhealthyCount <= Grace => OnTime'
    BY <1>1 DEF SickInv, OnTime, streak
  <1>3. CASE sample'
    <2>1. sick' = 0
      BY <1>1, <1>3 DEF SickInv, Prompt
    <2>2. Fresh'
      BY <2>1, HealthyFreshNext DEF NoneSick
    <2> QED BY <1>1, <1>2, <2>2 DEF SickInv, Prompt, streak
  <1>4. CASE ~sample'
    <2>1. Fresh'
      BY <1>4 DEF Fresh
    <2> QED BY <1>1, <1>2, <2>1 DEF SickInv, Prompt, streak
  <1> QED BY <1>3, <1>4

\* An answer is received, or none in time.
LEMMA CheckHealthSickInv ==
    ASSUME SickInv, CheckHealth \/ TimeOut, TypeOK'
    PROVE  SickInv'
  <1> DEFINE s == Start(consecutiveUnhealthyCount)
  <1>1. /\ tracker \in {"asking", "judged"} /\ tracker' = "answered"
        /\ sample' => tracker = "judged" /\ sample
        /\ UNCHANGED <<validator, due, fired, mu, streak, sick>>
    BY DEF CheckHealth, TimeOut, ticker
  <1>2. s \in Nat /\ sick \in Nat /\ remaining \in Nat /\ RpcTimeout \in Nat
    BY StartSteps, ConstantTypes DEF SickInv, TypeOK
  <1>3. ASSUME consecutiveUnhealthyCount <= Grace PROVE OnTime'
    <2>1. sick + remaining <= s + RpcTimeout /\ (~fired => sick + due <= s + PollInterval)
      BY <1>1, <1>3 DEF SickInv, OnTime
    <2>2. sick <= s + RpcTimeout
      BY <1>2, <2>1
    <2> QED BY <1>1, <2>1, <2>2 DEF OnTime, streak
  <1>4. ASSUME sample' PROVE sick <= RpcTimeout /\ (~fired => sick + due <= PollInterval)
    <2>1. sick + remaining <= RpcTimeout /\ (~fired => sick + due <= PollInterval)
      BY <1>1, <1>4 DEF SickInv, Prompt, Fresh
    <2> QED BY <1>2, <2>1
  <1>5. Fresh'
    BY <1>1, <1>4 DEF Fresh
  <1> QED BY <1>1, <1>3, <1>5 DEF SickInv, Prompt, streak

LEMMA AnnounceSickInv ==
    ASSUME SickInv, AnnounceEligible, TypeOK'
    PROVE  SickInv'
  <1> DEFINE s == Start(consecutiveUnhealthyCount)
  <1>1. /\ tracker = "announcing" /\ tracker' = "waiting" /\ mu' = "free"
        /\ UNCHANGED <<validator, due, fired, sample, streak, sick>>
    BY DEF AnnounceEligible, ticker
  <1>2. ASSUME consecutiveUnhealthyCount <= Grace PROVE OnTime'
    <2>1. /\ consecutiveUnhealthyCount = 0
          /\ sick + remaining <= 2 * RpcTimeout /\ (~fired => sick + due <= PollInterval)
      BY <1>1, <1>2 DEF SickInv, OnTime
    <2>2. s = Blind /\ sick \in Nat /\ remaining \in Nat /\ due \in Nat
      BY <2>1, StartSteps, ConstantTypes DEF SickInv, TypeOK
    <2>3. sick <= s /\ (~fired => sick + due <= s)
      BY <2>1, <2>2, LongestBound, ConstantTypes
    <2> QED BY <1>1, <2>3 DEF OnTime, streak
  <1> QED BY <1>1, <1>2 DEF SickInv, Prompt, Fresh, streak

\* What time adds to the one, it takes from the other.
Within(a, b, bound) == a + b <= bound

LEMMA Traded ==
    \A a, b, a1, b1, bound \in Nat :
        Within(a, b, bound) /\ a1 <= a + 1 /\ b # 0 /\ b1 = b - 1 => Within(a1, b1, bound)
  BY DEF Within

\* Time passes only while a call is out or no tick is due.
LEMMA TickSickInv ==
    ASSUME SickInv, Tick, TypeOK'
    PROVE  SickInv'
  <1> DEFINE s == Start(consecutiveUnhealthyCount)
  <1>1. /\ due # 1 => due' = due - 1
        /\ ~fired' => ~fired /\ due # 1
        /\ remaining' = (IF remaining = 0 THEN 0 ELSE remaining - 1)
        /\ UNCHANGED <<validator, tracker, sample, mu, consecutiveUnhealthyCount>>
    BY DEF Tick
  <1>2. /\ tracker = "waiting" => ~fired
        /\ tracker # "answered"
        /\ tracker \in {"asking", "judged", "announcing"} => remaining # 0
    BY DEF Tick, Urgent, SickInv, Prompt, TypeOK
  <1>3. sick' \in Nat /\ sick' <= sick + 1 /\ (validator = "healthy" => sick' = 0)
    BY DEF Tick, Older, SickInv, TypeOK
  <1>4. healthySince' # NoStreak => healthySince # NoStreak
    BY DEF Tick
  <1>5. Prompt'
    <2>1. Fresh'
      <3>1. /\ sick \in Nat /\ due \in Nat /\ remaining \in Nat /\ RpcTimeout \in Nat
            /\ PollInterval \in Nat
        BY ConstantTypes DEF SickInv, TypeOK
      <3>2. CASE tracker = "judged" /\ sample
        <4>1. /\ Within(sick, remaining, RpcTimeout)
              /\ ~fired => Within(sick, due, PollInterval)
          BY <3>2 DEF SickInv, Prompt, Fresh, Within
        <4>2. sick' + remaining' <= RpcTimeout
          <5>1. remaining # 0 /\ remaining' = remaining - 1 /\ remaining' \in Nat
            BY <1>1, <1>2, <3>1, <3>2
          <5>2. Within(sick', remaining', RpcTimeout)
            BY <1>3, <3>1, <4>1, <5>1, Traded
          <5> QED BY <5>2, Zenon DEF Within
        <4>3. ASSUME ~fired' PROVE sick' + due' <= PollInterval
          <5>1. ~fired /\ due # 0 /\ due' = due - 1 /\ due' \in Nat
            BY <1>1, <4>3, ConstantTypes DEF SickInv, TypeOK
          <5>2. Within(sick', due', PollInterval)
            BY <1>3, <3>1, <4>1, <5>1, Traded
          <5> QED BY <5>2, Zenon DEF Within
        <4> QED BY <1>1, <3>2, <4>2, <4>3 DEF Fresh
      <3>3. CASE ~(tracker = "judged" /\ sample)
        BY <1>1, <1>2, <3>3 DEF Fresh
      <3> QED BY <3>2, <3>3
    <2> QED BY <1>1, <1>2, <1>3, <2>1 DEF SickInv, Prompt
  <1>6. ASSUME consecutiveUnhealthyCount <= Grace PROVE OnTime'
    <2>1. /\ s \in Nat /\ sick \in Nat /\ due \in Nat /\ remaining \in Nat
          /\ fired \in BOOLEAN
      BY StartSteps, ConstantTypes DEF SickInv, TypeOK
    <2>2. OnTime
      BY <1>6 DEF SickInv
    <2>3. CASE tracker = "waiting"
      <3>1. ~fired /\ sick + due <= s
        BY <1>2, <2>2, <2>3 DEF OnTime
      <3>2. sick' <= s /\ (~fired' => sick' + due' <= s)
        <4>1. due >= 1
          BY ConstantTypes DEF SickInv, TypeOK
        <4>2. CASE due = 1
          BY <1>1, <1>3, <2>1, <3>1, <4>2
        <4>3. CASE due # 1
          BY <1>1, <1>3, <2>1, <3>1, <4>1, <4>3
        <4> QED BY <4>2, <4>3
      <3> QED BY <1>1, <2>3, <3>2 DEF OnTime
    <2>4. CASE tracker \in {"asking", "judged"}
      <3>1. sick + remaining <= s + RpcTimeout /\ (~fired => sick + due <= s + PollInterval)
        BY <2>2, <2>4 DEF OnTime
      <3>2. sick' + remaining' <= s + RpcTimeout
        BY <1>1, <1>2, <1>3, <2>1, <2>4, <3>1, ConstantTypes
      <3>3. ~fired' => sick' + due' <= s + PollInterval
        BY <1>1, <1>3, <2>1, <3>1, ConstantTypes
      <3> QED BY <1>1, <2>4, <3>2, <3>3 DEF OnTime
    <2>5. CASE tracker = "announcing"
      <3>1. sick + remaining <= 2 * RpcTimeout /\ (~fired => sick + due <= PollInterval)
        BY <2>2, <2>5 DEF OnTime
      <3>2. consecutiveUnhealthyCount = 0
        BY <2>2, <2>5 DEF OnTime
      <3>3. /\ 2 * RpcTimeout \in Nat /\ PollInterval \in Nat
            /\ remaining # 0 /\ remaining' = remaining - 1
        BY <1>1, <1>2, <2>5, ConstantTypes
      <3>4. sick' + remaining' <= 2 * RpcTimeout
        <4>1. Within(sick, remaining, 2 * RpcTimeout)
          BY <3>1 DEF Within
        <4>2. remaining' \in Nat
          BY <2>1, <3>3
        <4>3. Within(sick', remaining', 2 * RpcTimeout)
          BY <1>3, <2>1, <3>3, <4>1, <4>2, Traded
        <4> QED BY <4>3, Zenon DEF Within
      <3>5. ASSUME ~fired' PROVE sick' + due' <= PollInterval
        <4>1. due' = due - 1 /\ due # 1 /\ Within(sick, due, PollInterval)
          BY <1>1, <3>1, <3>5 DEF Within
        <4>2. due # 0 /\ due' \in Nat
          BY <4>1, ConstantTypes DEF SickInv, TypeOK
        <4>3. Within(sick', due', PollInterval)
          BY <1>3, <2>1, <3>3, <4>1, <4>2, Traded
        <4> QED BY <4>3, Zenon DEF Within
      <3> QED BY <1>1, <2>5, <3>2, <3>4, <3>5 DEF OnTime
    <2> QED BY <1>2, <2>3, <2>4, <2>5 DEF SickInv, TypeOK
  <1> QED BY <1>1, <1>4, <1>5, <1>6 DEF SickInv

LEMMA ChangeHealthSickInv ==
    ASSUME SickInv, ChangeHealth, TypeOK'
    PROVE  SickInv'
  <1> DEFINE s == Start(consecutiveUnhealthyCount)
  <1>1. /\ UNCHANGED <<due, fired, tracker, sample, remaining, mu, streak>>
        /\ sick' = (IF validator' = "healthy" THEN 0 ELSE sick)
    BY DEF ChangeHealth, ticker
  <1>2. Prompt'
    <2>1. CASE sick' = sick
      BY <1>1, <2>1 DEF SickInv, Prompt, Fresh
    <2>2. CASE sick' = 0
      BY <1>1, <2>2, HealthyFreshNext DEF NoneSick, SickInv, Prompt
    <2> QED BY <1>1, <2>1, <2>2
  <1>3. ASSUME consecutiveUnhealthyCount <= Grace PROVE OnTime'
    <2>1. CASE sick' = sick
      BY <1>1, <1>3, <2>1 DEF SickInv, OnTime, streak
    <2>2. CASE sick' = 0
      <3>1. tracker' # "announcing" \/ consecutiveUnhealthyCount' = 0
        BY <1>1, <1>3 DEF SickInv, OnTime, streak
      <3> QED BY <2>2, <3>1, HealthyOnTimeNext DEF NotSick
    <2> QED BY <1>1, <2>1, <2>2
  <1> QED BY <1>1, <1>2, <1>3 DEF SickInv, streak

LEMMA NextSickInv ==
    ASSUME SickInv, [Next]_vars, TypeOK'
    PROVE  SickInv'
  <1>1. ASSUME UNCHANGED <<validator, ticker, tracker, sample, remaining, mu, streak, sick>>
        PROVE  SickInv'
    BY <1>1 DEF SickInv, Prompt, Fresh, OnTime, ticker, streak
  <1>2. CASE Tracker
    BY <1>2, SampleSickInv, CheckHealthSickInv, RecordHealthySickInv, RecordUnhealthySickInv,
       AnnounceSickInv DEF Tracker
  <1>3. CASE Loop \/ UNCHANGED vars
    BY <1>1, <1>3 DEF Loop, AskHealthy, ReadStreak, vars
  <1> QED BY <1>2, <1>3, JudgeSickInv, TickSickInv, ChangeHealthSickInv DEF Next

LEMMA AlwaysSickInv == Spec => []SickInv
  <1>1. HInv => TypeOK
    BY DEF HInv
  <1>2. SickInv /\ [Next]_vars /\ TypeOK' => SickInv'
    BY NextSickInv
  <1> QED BY InitSickInv, AlwaysHInv, <1>1, <1>2, PTL DEF Spec

---------------------------------------------------------------------------
\* The tracker's state is well typed for every interval, timeout and grace.
THEOREM TypeCorrect == Spec => []TypeOK
  <1>1. HInv => TypeOK
    BY DEF HInv
  <1> QED BY <1>1, AlwaysHInv, PTL

\* Whoever counts as healthy for long enough has had no run of unhealthy samples
\* beyond the grace for at least the minimum duration: IsSelfHealthyLongEnough
\* can be trusted whatever delays the calls to the validator.
THEOREM StreakIsCredible == Spec => []StreakCredible
  <1>1. HInv => StreakCredible
    <2> SUFFICES ASSUME HInv, IsSelfHealthyLongEnough PROVE calm >= MinimumDuration
      BY DEF StreakCredible
    <2>1. /\ healthySince \in Nat /\ calm \in Nat
          /\ healthySince <= calm /\ healthySince >= MinimumDuration
      BY ConstantTypes DEF HInv, TypeOK, StreakInv, IsSelfHealthyLongEnough
    <2> QED BY <2>1, ConstantTypes
  <1> QED BY <1>1, AlwaysHInv, PTL

\* The log line that calls a node eligible goes with a streak, and is at most
\* half a second early.
THEOREM AnnouncementIsInTime == Spec => []AnnouncedInTime
  <1>1. HInv => AnnouncedInTime
    BY DEF HInv, StreakInv
  <1> QED BY <1>1, AlwaysHInv, PTL

\* A sick validator keeps its streak for no longer than an old answer can hide the
\* sickness, the samples of the grace take, and one more times out: SampleSelf on
\* its ticker, whatever answers are under way.
THEOREM SicknessIsNoticed == Spec => []SicknessNoticed
  <1>1. SickInv => SicknessNoticed
    <2> SUFFICES ASSUME SickInv, healthySince # NoStreak PROVE ~(sick > Notice)
      BY DEF SicknessNoticed
    <2> DEFINE c == consecutiveUnhealthyCount
    <2>1. c \in 0 .. Grace /\ OnTime
      BY ConstantTypes DEF SickInv, TypeOK
    <2>2. /\ Start(c) \in Nat /\ Start(Grace) \in Nat /\ Start(c) <= Start(Grace)
          /\ Blind <= Start(c) /\ 2 * RpcTimeout <= Blind /\ Blind \in Nat
          /\ RpcTimeout \in Nat
      BY <2>1, StartSteps, LongestBound, ConstantTypes
    <2>3. sick \in Nat /\ remaining \in Nat
      BY ConstantTypes DEF SickInv, TypeOK
    <2>4. sick <= Start(c) + RpcTimeout
      <3>1. tracker \in {"waiting", "asking", "judged", "answered", "announcing"}
        BY DEF SickInv, TypeOK
      <3>2. CASE tracker = "waiting"
        <4>1. sick <= Start(c)
          BY <2>1, <3>2 DEF OnTime
        <4> QED BY <2>2, <2>3, <4>1
      <3>3. CASE tracker \in {"asking", "judged"}
        <4>1. sick + remaining <= Start(c) + RpcTimeout
          BY <2>1, <3>3 DEF OnTime
        <4> QED BY <2>2, <2>3, <4>1
      <3>4. CASE tracker = "answered"
        BY <2>1, <3>4 DEF OnTime
      <3>5. CASE tracker = "announcing"
        <4>1. sick + remaining <= 2 * RpcTimeout
          BY <2>1, <3>5 DEF OnTime
        <4> QED BY <2>2, <2>3, <4>1
      <3> QED BY <3>1, <3>2, <3>3, <3>4, <3>5
    <2>5. Notice = Start(Grace) + RpcTimeout
      BY DEF Notice, Start
    <2> QED BY <2>2, <2>3, <2>4, <2>5
  <1> QED BY <1>1, AlwaysSickInv, PTL
===========================================================================
